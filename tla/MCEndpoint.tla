---------------------------- MODULE MCEndpoint ----------------------------
(* A document of a few revisions, in a session where everything may go wrong *)
(* and in one where only derivations always succeed.                         *)
EXTENDS Endpoint

MCSessions == {FaultKinds, FaultKinds \ {"deriveFails"}}
=============================================================================
