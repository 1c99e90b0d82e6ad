---------------------------- MODULE MCClientRun ----------------------------
(* ClientRun for TLC. *)
EXTENDS ClientRun
=============================================================================
