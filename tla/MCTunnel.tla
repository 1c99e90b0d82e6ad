------------------------------ MODULE MCTunnel ------------------------------
(* Tunnel for TLC. *)
EXTENDS Tunnel

MCBodyFrames == [r \in Requests |-> 2]
MCMaxWrites  == [r \in Requests |-> 2]
=============================================================================
