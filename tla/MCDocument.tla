----------------------------- MODULE MCDocument -----------------------------
(***************************************************************************)
(* The instances of Document for TLC.  A document whose actor is down can  *)
(* take no step, so the runs do not check deadlock.                        *)
(***************************************************************************)
EXTENDS Document
=============================================================================
