--------------------------- MODULE LeaseContract ---------------------------
(***************************************************************************)
(* What a holder of a parser lease is promised, without saying how: a      *)
(* claim is pending from the call of lease() until it is granted or        *)
(* refused, a parser is alive whenever a lease is held, and it goes away   *)
(* with the last claim.                                                    *)
(***************************************************************************)
CONSTANT Leases

VARIABLES claim,  \* idle, pending, held or over, for each lease
          alive   \* whether a usable parser exists

contract == <<claim, alive>>

Open(c) == claim[c] \in {"pending", "held"}

Init == /\ claim = [c \in Leases |-> "idle"]
        /\ alive = FALSE

Ask(c) == /\ claim[c] = "idle"
          /\ claim' = [claim EXCEPT ![c] = "pending"]
          /\ UNCHANGED alive

Grant(c) == /\ claim[c] = "pending"
            /\ claim' = [claim EXCEPT ![c] = "held"]
            /\ alive' = TRUE

\* A lease is refused only while there is no parser to lend.
Refuse(c) == /\ claim[c] \in {"idle", "pending"}
             /\ ~alive
             /\ claim' = [claim EXCEPT ![c] = "over"]
             /\ UNCHANGED alive

Release(c) == /\ claim[c] = "held"
              /\ claim' = [claim EXCEPT ![c] = "over"]
              /\ alive' = \E d \in Leases \ {c} : Open(d)

Next == \E c \in Leases : Ask(c) \/ Grant(c) \/ Refuse(c) \/ Release(c)

Spec == Init /\ [][Next]_contract

=============================================================================
