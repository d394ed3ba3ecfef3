---------------------------- MODULE MCRegistry ----------------------------
(* Two threads (model values), two fresh endpoints in four slots, or hosts. *)
EXTENDS Registry, TLC

Symmetry == Permutations(Threads)
=============================================================================
