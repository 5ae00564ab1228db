----------------------------- MODULE MCOwnedRuntime -----------------------------
(* The instance of OwnedRuntime that TLC checks.                           *)
EXTENDS OwnedRuntime
=============================================================================
