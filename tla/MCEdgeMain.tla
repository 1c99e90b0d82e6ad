----------------------------- MODULE MCEdgeMain -----------------------------
(* EdgeMain for TLC. *)
EXTENDS EdgeMain

MCDomain     == <<"example", "com">>
MCBadDomains == {<<"">>, <<"localhost">>}
=============================================================================
