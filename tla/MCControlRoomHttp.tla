--------------------------- MODULE MCControlRoomHttp ---------------------------
(* The instance of ControlRoomHttp that TLC checks.                        *)
EXTENDS ControlRoomHttp
=============================================================================
