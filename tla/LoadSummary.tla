---------------------------- MODULE LoadSummary ----------------------------
(***************************************************************************)
(* The summary of a load run (cmd/perf-client): RecordResult (the method   *)
(* Record) adds one result to the counters and the latency histogram, and  *)
(* String reads percentiles from the histogram.  log keeps the latencies   *)
(* recorded, in order, for comparison.  PerfLoad runs it.                  *)
(*                                                                         *)
(* A result is "ok" (a whole response), "cut" (a status, then an error     *)
(* while reading the body) or "failed" (no response).  The target rank is  *)
(* computed in floating point by the code; for the percentages String asks *)
(* for (50, 95, 99) that is the exact ceiling, because the float of p/100  *)
(* is at most p/100.                                                       *)
(***************************************************************************)
EXTENDS Integers, Sequences, FiniteSets, FiniteSetsExt

CONSTANTS
  bucketWidth, overflowFrom,  \* the histogram's parameters
  Latencies,                  \* latencies that occur
  Percents                    \* percentages asked for

ASSUME SummaryAssumption ==
  /\ bucketWidth \in Nat \ {0} /\ overflowFrom \in Nat \ {0}
  /\ Latencies \subseteq Nat
  /\ Percents \subseteq 1..100

VARIABLES
  log,           \* the latencies recorded
  buckets, TotalRequests, LatencySum, MinLatency, MaxLatency,
  StatusTotal,   \* the sum of StatusCounts
  RequestErrors, SuccessfulResponses

summaryVars == <<log, buckets, TotalRequests, LatencySum, MinLatency, MaxLatency, StatusTotal,
                 RequestErrors, SuccessfulResponses>>

(* Faulty versions of definitions below, each a plausible slip in the code. *)
Last_Truncated  == overflowFrom \div bucketWidth

-----------------------------------------------------------------------------
(* newLatencyHistogram: the last bucket's index. *)
Last ==
  overflowFrom \div bucketWidth + IF overflowFrom % bucketWidth # 0 THEN 1 ELSE 0

(* Observe: the bucket of a latency; a monotonic clock gives none below zero. *)
Index(l) == IF l < overflowFrom THEN l \div bucketWidth ELSE Last

Rank(p) == (p * TotalRequests + 99) \div 100

(* The loop's running sum. *)
SeenUpTo[i \in 0..Last] == buckets[i] + IF i = 0 THEN 0 ELSE SeenUpTo[i - 1]

(* The loop returns at the first bucket that reaches the rank. *)
Percentile(p) ==
  IF TotalRequests = 0 THEN 0
  ELSE LET i == Min({j \in 0..Last : SeenUpTo[j] >= Rank(p)})
       IN  IF i = Last THEN overflowFrom ELSE i * bucketWidth

Lower(l) == IF MinLatency = 0 \/ l < MinLatency THEN l ELSE MinLatency

newLoadSummary ==
  /\ log = << >>
  /\ buckets = [i \in 0..Last |-> 0]
  /\ TotalRequests = 0 /\ LatencySum = 0 /\ MinLatency = 0 /\ MaxLatency = 0
  /\ StatusTotal = 0 /\ RequestErrors = 0 /\ SuccessfulResponses = 0

Observe(l) ==
  /\ buckets' = [buckets EXCEPT ![Index(l)] = @ + 1]
  /\ log' = Append(log, l)

Outcome(kind) ==
  /\ RequestErrors' = RequestErrors + (IF kind = "ok" THEN 0 ELSE 1)
  /\ SuccessfulResponses' = SuccessfulResponses + (IF kind = "ok" THEN 1 ELSE 0)

RecordResult(l, kind) ==
  /\ TotalRequests' = TotalRequests + 1
  /\ LatencySum' = LatencySum + l
  /\ Observe(l)
  /\ MinLatency' = Lower(l)
  /\ MaxLatency' = IF l > MaxLatency THEN l ELSE MaxLatency
  /\ StatusTotal' = StatusTotal + (IF kind = "failed" THEN 0 ELSE 1)
  /\ Outcome(kind)

Kinds == {"ok", "cut", "failed"}

-----------------------------------------------------------------------------
Recorded == {log[k] : k \in DOMAIN log}

AtMost(l) == {k \in DOMAIN log : log[k] <= l}

(* The p-th percentile of what was recorded: the least latency that at least p
   per cent of the results do not exceed. *)
OrderStatistic(p) ==
  Min({l \in Recorded : Cardinality(AtMost(l)) * 100 >= p * TotalRequests})

(* Percentile is exact up to the histogram's resolution: it is the lower edge of
   the bucket of the true percentile, and overflowFrom for anything beyond. *)
PercentileExact ==
  TotalRequests > 0 =>
    \A p \in Percents :
      LET l == OrderStatistic(p)
      IN  IF l >= overflowFrom THEN Percentile(p) = overflowFrom
          ELSE Percentile(p) <= l /\ l < Percentile(p) + bucketWidth
                 /\ Percentile(p) % bucketWidth = 0
============================================================================
