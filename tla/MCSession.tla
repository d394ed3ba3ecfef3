----------------------------- MODULE MCSession ------------------------------
(* Two documents and one that is refused, three attempts, four changes of  *)
(* the document, and calls made under up to four frames.                   *)
EXTENDS Session

CONSTANTS a, b, bad

=============================================================================
