---------------------------- MODULE MCEdgeStream ----------------------------
(* EdgeStream for TLC. *)
EXTENDS EdgeStream

MCBodyFrames == [r \in Requests |-> 1]
=============================================================================
