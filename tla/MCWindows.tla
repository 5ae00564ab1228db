------------------------------- MODULE MCWindows -------------------------------
(* The instance of Windows that TLC checks: the code's own sizes.          *)
EXTENDS Windows
=============================================================================
