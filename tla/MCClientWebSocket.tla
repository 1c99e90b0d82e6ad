------------------------- MODULE MCClientWebSocket -------------------------
(* ClientWebSocket for TLC. *)
EXTENDS ClientWebSocket
=============================================================================
