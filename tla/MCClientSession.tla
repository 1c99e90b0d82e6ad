-------------------------- MODULE MCClientSession --------------------------
(* ClientSession for TLC: r1 has a body, the handlers of the others write. *)
EXTENDS ClientSession

CONSTANT r1

MCBodyFrames == [r \in Requests |-> IF r = r1 THEN 1 ELSE 0]
MCMaxWrites  == [r \in Requests |-> IF r = r1 THEN 0 ELSE 1]
=============================================================================
