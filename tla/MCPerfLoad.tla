----------------------------- MODULE MCPerfLoad -----------------------------
(* PerfLoad for TLC: a bucket width that does not divide the limit, latencies
   beside its edges, and zero. *)
EXTENDS PerfLoad

MCLatencies == {0, 2, 9, 14}
MCPercents  == {25, 50, 75, 95, 99, 100}
=============================================================================
