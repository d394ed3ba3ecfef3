------------------------------ MODULE MCReader ------------------------------
(* Two texts, three attempts, and calls made under up to three frames: a   *)
(* listener told of an opening can retry and be told of the next failure.  *)
EXTENDS Reader

CONSTANTS a, b

=============================================================================
