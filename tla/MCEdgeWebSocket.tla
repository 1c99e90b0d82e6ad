-------------------------- MODULE MCEdgeWebSocket --------------------------
(* EdgeWebSocket for TLC. *)
EXTENDS EdgeWebSocket
=============================================================================
