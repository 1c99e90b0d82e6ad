--------------------------- MODULE MCEdgeSessions ---------------------------
(* Small instances of EdgeSessions for TLC. *)
EXTENDS EdgeSessions, TLC

(* Connect calls, requests and hosts are interchangeable. *)
Symmetry == Permutations(Sessions) \cup Permutations(Requests) \cup Permutations(Hosts)
=============================================================================
