--------------------------- MODULE MCClientSession ---------------------------
(* Two goroutines sharing one ReconnectingClient.                         *)
EXTENDS ClientSession

CONSTANTS r1, r2

MCCallers == {r1, r2}
=============================================================================
