-------------------------- MODULE MCSharedBackend --------------------------
(* Four leases and three loads: two leases can await a load that fails     *)
(* while a third retries, and a fourth comes after everything is over.     *)
EXTENDS SharedBackend

CONSTANTS c1, c2, c3, c4

MCLeases == {c1, c2, c3, c4}

=============================================================================
