----------------------------- MODULE MCHistory -----------------------------
(* A small history: an empty source, two that fit together, and one that   *)
(* alone exceeds the cap; both caps bite.                                  *)
EXTENDS History

MCStates == {0, 2, 3, 6}

\* A state is named by the length of its source.
MCUnits == [s \in MCStates |-> s]

MCTimes == 0 .. 2

=============================================================================
