------------------------------ MODULE MCEditor ------------------------------
(* A small editor: a paragraph, a table with an unwritten cell, a source   *)
(* whose parse is past the live limits (the ways a source too long to be   *)
(* parsed can go are among its own), one the parser reads with a           *)
(* deviation, and one that is refused.                                     *)
EXTENDS Editor

MCSources == {"par", "table", "wide", "odd", "bad"}
MCReads == [s \in MCSources |-> CASE s \in {"par", "table"} -> "live"
                                  [] s = "wide" -> "wide"
                                  [] s = "odd" -> "deviant"
                                  [] s = "bad" -> "invalid"]
MCLength == [s \in MCSources |-> 1]
MCSelections == {"start", "cell"}

\* The unwritten cell exists in the rendered table only.
MCSnap == [live \in BOOLEAN |-> [s \in MCSources |-> [sel \in MCSelections |->
             IF live /\ s = "table" THEN sel ELSE "start"]]]

=============================================================================
