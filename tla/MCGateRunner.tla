---------------------------- MODULE MCGateRunner ----------------------------
(* The instance of GateRunner that TLC checks; it has no parameters.       *)
EXTENDS GateRunner
=============================================================================
