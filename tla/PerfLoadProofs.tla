--------------------------- MODULE PerfLoadProofs ---------------------------
(***************************************************************************)
(* Proofs about PerfLoad, for any finite set of workers and any number of  *)
(* requests: no send on the closed channel, every result accounted for, a  *)
(* complete summary, and percentiles that are those of the latencies       *)
(* recorded, up to the width of a bucket.                                  *)
(***************************************************************************)
EXTENDS PerfLoad, FiniteSetTheorems, WellFoundedInduction, SequenceTheorems,
        TLAPS

Finished == {w \in Workers : pc[w] = "done"}

(* What the load has not started yet, and how it ends. *)
Phases ==
  /\ phase = "ready" => ~closed /\ \A w \in Workers : pc[w] = "off"
  /\ phase \in {"ready", "load"} => outcome = "none"
  /\ outcome = "summary" => closed /\ results = 0

(* A worker drops one result at most, its last, and only for the context. *)
Dropped ==
  /\ dropped <= Cardinality(Finished)
  /\ dropped > 0 => ctxDone

(* No worker can still send when results is closed. *)
ClosedLast == closed => \A w \in Workers : pc[w] = "done"

LoadInv == TypeOK /\ ClosedLast /\ Accounted /\ Phases /\ Dropped

(* The workers counted in a step are finitely many. *)
LEMMA Counts ==
  ASSUME NEW S \in SUBSET Workers
  PROVE  /\ IsFiniteSet(S) /\ Cardinality(S) \in Nat
         /\ Cardinality(S) <= Cardinality(Workers)
         /\ Capacity \in Nat
         /\ \A w \in S : Cardinality(S \ {w}) = Cardinality(S) - 1
         /\ \A w \in Workers \ S : Cardinality(S \cup {w}) = Cardinality(S) + 1
<1>1. IsFiniteSet(S) /\ Cardinality(S) <= Cardinality(Workers)
  BY FS_Subset, LoadAssumption
<1>2. Cardinality(S) \in Nat /\ Cardinality(Workers) \in Nat
  BY <1>1, FS_CardinalityType, LoadAssumption
<1>3. \A w \in S : Cardinality(S \ {w}) = Cardinality(S) - 1
  BY <1>1, FS_RemoveElement
<1>4. \A w \in Workers \ S : Cardinality(S \cup {w}) = Cardinality(S) + 1
  BY <1>1, FS_AddElement
<1> QED BY <1>1, <1>2, <1>3, <1>4 DEF Capacity

(* No worker is at work in the initial state. *)
LEMMA InitLoad == Init => LoadInv
<1> SUFFICES ASSUME Init PROVE LoadInv
  OBVIOUS
<1>1. Sending = {} /\ Finished = {}
  BY DEF Init, Sending, Finished
<1>2. Cardinality(Sending) = 0 /\ Cardinality(Finished) = 0
  BY <1>1, FS_EmptySet
<1>3. Capacity \in Nat
  BY Counts
<1>4. TypeOK
  <2>1. results \in 0..Capacity
    BY <1>3 DEF Init
  <2>2. pc \in [Workers -> {"off", "check", "request", "send", "done"}]
    BY DEF Init
  <2>3. ctxDone \in BOOLEAN /\ errCh \in BOOLEAN /\ closed \in BOOLEAN
    BY Zenon DEF Init
  <2> QED BY <2>1, <2>2, <2>3 DEF Init, newLoadSummary, TypeOK
<1>5. Accounted /\ Dropped
  BY <1>2 DEF Init, newLoadSummary, Accounted, Dropped
<1>6. ClosedLast /\ Phases
  BY DEF Init, ClosedLast, Phases
<1> QED BY <1>4, <1>5, <1>6 DEF LoadInv

(* Every step of run, of the timer, the workers, the closer and the collector
   keeps the invariant. *)
LEMMA StepLoad == LoadInv /\ [Next]_vars => LoadInv'
<1> SUFFICES ASSUME LoadInv, [Next]_vars PROVE LoadInv'
  OBVIOUS
<1> USE DEF LoadInv
<1>0. /\ Sending \in SUBSET Workers /\ Finished \in SUBSET Workers
      /\ Capacity \in Nat /\ Cardinality(Sending) \in Nat /\ Cardinality(Finished) \in Nat
  <2>1. Sending \in SUBSET Workers /\ Finished \in SUBSET Workers
    BY DEF Sending, Finished
  <2> QED BY <2>1, Counts
<1>same. ASSUME UNCHANGED pc PROVE Sending' = Sending /\ Finished' = Finished
  BY <1>same DEF Sending, Finished
<1> USE DEF TypeOK, ClosedLast, Accounted, Phases, Dropped, runVars, workerVars, chanVars,
        summaryVars
<1>1. CASE NotReady
  BY <1>0, <1>1, <1>same, Zenon DEF NotReady
<1>2. CASE LoadDone
  BY <1>0, <1>2, <1>same DEF LoadDone, Drained
<1>3. CASE StopTunnel
  BY <1>0, <1>3, <1>same DEF StopTunnel
<1>4. CASE ClientExit
  BY <1>0, <1>4, <1>same, Zenon DEF ClientExit
<1>5. CASE HostReady
  <2>1. Sending = {} /\ Sending' = {} /\ Finished = {} /\ Finished' = {}
    BY <1>5 DEF HostReady, StartLoad, Sending, Finished
  <2> QED BY <1>0, <1>5, <2>1 DEF HostReady, StartLoad
<1>6. CASE TunnelExits
  BY <1>0, <1>6, <1>same DEF TunnelExits
<1>7. CASE CallerCancels
  BY <1>0, <1>7, <1>same DEF CallerCancels
<1>8. CASE TimerFires
  BY <1>0, <1>8, <1>same DEF TimerFires
<1>9. CASE CloseResults
  BY <1>0, <1>9, <1>same DEF CloseResults, AllDone
<1>10. CASE Record
  BY <1>0, <1>10, <1>same DEF Record, RecordResult
<1>11. ASSUME NEW w \in Workers, WorkerStep(w) PROVE LoadInv'
  <2>0. ~closed /\ phase # "ready"
    BY <1>11 DEF WorkerStep, CheckStop, DoRequest, SendResult, DropResult
  <2>1. CASE CheckStop(w)
    <3>1. Sending' = Sending
      BY <2>1 DEF CheckStop, Goto, Sending
    <3>2. Finished' = Finished \/ (w \notin Finished /\ Finished' = Finished \cup {w})
      BY <2>1 DEF CheckStop, Goto, Finished
    <3>3. Cardinality(Finished') \in Nat /\ Cardinality(Finished') >= Cardinality(Finished)
      BY <1>0, <3>2, Counts
    <3> QED BY <1>0, <2>0, <2>1, <3>1, <3>3 DEF CheckStop, Goto
  <2>2. CASE DoRequest(w)
    <3>1. w \notin Sending /\ Sending' = Sending \cup {w} /\ Finished' = Finished
      BY <2>2 DEF DoRequest, Goto, Sending, Finished
    <3>2. Cardinality(Sending') = Cardinality(Sending) + 1
      BY <1>0, <3>1, Counts
    <3> QED BY <1>0, <2>0, <2>2, <3>1, <3>2 DEF DoRequest, Goto
  <2>3. CASE SendResult(w)
    <3>1. w \in Sending /\ Sending' = Sending \ {w} /\ Finished' = Finished
      BY <2>3 DEF SendResult, Goto, Sending, Finished
    <3>2. Cardinality(Sending') = Cardinality(Sending) - 1
      BY <1>0, <3>1, Counts
    <3> QED BY <1>0, <2>0, <2>3, <3>1, <3>2 DEF SendResult, Goto, Room
  <2>4. CASE DropResult(w)
    <3>1. /\ w \in Sending /\ Sending' = Sending \ {w}
          /\ w \notin Finished /\ Finished' = Finished \cup {w}
      BY <2>4 DEF DropResult, Goto, Sending, Finished
    <3>2. /\ Cardinality(Sending') = Cardinality(Sending) - 1
          /\ Cardinality(Finished') = Cardinality(Finished) + 1
      BY <1>0, <3>1, Counts
    <3> QED BY <1>0, <2>0, <2>4, <3>1, <3>2 DEF DropResult, Goto, GiveUp
  <2> QED BY <1>11, <2>1, <2>2, <2>3, <2>4 DEF WorkerStep
<1>12. CASE UNCHANGED vars
  BY <1>0, <1>12, <1>same DEF vars
<1> QED
  BY <1>1, <1>2, <1>3, <1>4, <1>5, <1>6, <1>7, <1>8, <1>9, <1>10, <1>11, <1>12, Zenon
  DEF Next, RunStep

(* The summary is complete wherever the invariant holds: the channel is closed
   and empty, so no worker holds a result, and only dropped ones are missing. *)
LEMMA LoadSummary == LoadInv => SummaryComplete
<1> SUFFICES ASSUME LoadInv, phase = "stop", outcome = "summary"
             PROVE  /\ completed - TotalRequests <= Cardinality(Workers)
                    /\ ~ctxDone => completed = TotalRequests
  BY DEF SummaryComplete
<1>1. Sending = {} /\ results = 0
  BY DEF LoadInv, Phases, ClosedLast, Sending
<1>2. completed = TotalRequests + dropped
  BY <1>1, FS_EmptySet DEF LoadInv, Accounted, TypeOK
<1>3. Cardinality(Finished) \in Nat /\ Cardinality(Finished) <= Cardinality(Workers)
  <2>1. Finished \in SUBSET Workers
    BY DEF Finished
  <2> QED BY <2>1, Counts
<1>4. Cardinality(Workers) \in Nat
  BY LoadAssumption, FS_CardinalityType
<1> QED BY <1>2, <1>3, <1>4 DEF LoadInv, Dropped, TypeOK

(* Every completed request is recorded, under way or deliberately dropped. *)
THEOREM AllAccounted == Spec => []Accounted
<1>1. LoadInv => Accounted
  BY DEF LoadInv
<1> QED BY <1>1, InitLoad, StepLoad, PTL DEF Spec

(* The summary of a load that nobody cancels has every completed request, that
   of a cancelled one all but one per worker. *)
THEOREM SummaryIsComplete == Spec => []SummaryComplete
BY InitLoad, StepLoad, LoadSummary, PTL DEF Spec
-----------------------------------------------------------------------------
(* The percentile *)

InBucket(i) == {k \in DOMAIN log : Index(log[k]) = i}
Within(i)   == {k \in DOMAIN log : Index(log[k]) <= i}

(* Every latency recorded is counted in its bucket, and only there; none exceeds
   the greatest. *)
Histogram ==
  /\ log \in Seq(Latencies)
  /\ TotalRequests = Len(log)
  /\ buckets \in [0..Last -> Nat]
  /\ \A i \in 0..Last : buckets[i] = Cardinality(InBucket(i))
  /\ MaxLatency \in Nat /\ \A k \in DOMAIN log : log[k] <= MaxLatency

(* A nonempty set of naturals has a least element, which Min is. *)
LEMMA LeastOf ==
  ASSUME NEW T, T \subseteq Nat, T # {}
  PROVE  Min(T) \in T /\ \A y \in T : Min(T) <= y
<1>1. PICK x \in T : \A y \in T : ~(<<y, x>> \in OpToRel(<, Nat))
  BY NatLessThanWellFounded, WFMin, Zenon
<1>2. \A y \in T : ~(y < x)
  BY <1>1, Zenon DEF OpToRel
<1>3. \A y \in T : x <= y
  BY <1>2
<1> QED BY <1>3, Zenon DEF Min

(* A bounded nonempty set of naturals has a greatest element. *)
LEMMA GreatestOf ==
  ASSUME NEW T, T \subseteq Nat, T # {}, NEW b \in Nat, \A y \in T : y <= b
  PROVE  \E x \in T : \A y \in T : y <= x
<1> DEFINE B == {c \in Nat : \A y \in T : y <= c}
<1>1. Min(B) \in B /\ \A c \in B : Min(B) <= c
  BY LeastOf, Zenon
<1>2. CASE Min(B) \in T
  BY <1>1, <1>2
<1>3. CASE Min(B) \notin T
  <2>1. PICK y \in T : TRUE
    BY Zenon
  <2>2. PICK m \in Nat : m = Min(B)
    BY <1>1, Zenon
  <2>3. \A z \in T : z < m
    BY <1>1, <1>3, <2>2
  <2>4. m - 1 \in Nat
    BY <2>1, <2>3
  <2>5. m - 1 \in B
    BY <2>3, <2>4
  <2> QED BY <1>1, <2>2, <2>5
<1> QED BY <1>2, <1>3

(* Multiplication by a number keeps the order. *)
LEMMA Product ==
  ASSUME NEW q \in Nat, NEW r \in Nat, NEW w \in Nat, q * w < r * w
  PROVE  q < r
<1> SUFFICES ASSUME r <= q PROVE FALSE
  OBVIOUS
<1>1. PICK d \in Nat : q = r + d
  <2>1. q - r \in Nat /\ q = r + (q - r)
    OBVIOUS
  <2> QED BY <2>1
<1>2. q * w = r * w + d * w
  BY <1>1
<1>3. d * w >= 0
  OBVIOUS
<1>4. r * w \in Nat /\ d * w \in Nat
  OBVIOUS
<1> QED BY <1>2, <1>3, <1>4

(* The quotient and the remainder of a division. *)
LEMMA Division ==
  ASSUME NEW a \in Nat, NEW w \in Nat \ {0}
  PROVE  /\ a \div w \in Nat
         /\ a % w \in 0..(w - 1)
         /\ a = (a \div w) * w + (a % w)
<1>1. w > 0
  OBVIOUS
<1>2. a = w * (a \div w) + (a % w) /\ a \div w \in Nat /\ a % w \in 0..(w - 1)
  BY <1>1
<1> QED BY <1>2

(* Buckets follow the order of the latencies, a bucket spans one width, and the
   last one has exactly what reaches the limit. *)
LEMMA Buckets ==
  /\ Last \in Nat
  /\ \A l \in Nat :
       /\ Index(l) \in 0..Last
       /\ Index(l) = Last <=> l >= overflowFrom
       /\ l < overflowFrom => Index(l) * bucketWidth <= l /\ l < Index(l) * bucketWidth + bucketWidth
       /\ \A m \in Nat : l <= m => Index(l) <= Index(m)
<1> DEFINE w == bucketWidth
           q(a) == a \div w
<1>0. w \in Nat \ {0} /\ overflowFrom \in Nat
  BY SummaryAssumption
<1>1. \A a \in Nat : q(a) \in Nat /\ q(a) * w \in Nat /\ q(a) * w <= a /\ a < (q(a) + 1) * w
  <2> TAKE a \in Nat
  <2>1. q(a) \in Nat /\ a % w \in 0..(w - 1) /\ a = q(a) * w + (a % w)
    BY <1>0, Division, Zenon
  <2> HIDE DEF q
  <2>2. (q(a) + 1) * w = q(a) * w + w /\ q(a) * w \in Nat
    BY <1>0, <2>1
  <2> QED BY <1>0, <2>1, <2>2
<1>2. Last \in Nat /\ overflowFrom <= Last * w
  <2>1. overflowFrom = q(overflowFrom) * w + (overflowFrom % w) /\ q(overflowFrom) \in Nat
    BY <1>0, Division
  <2>2. CASE overflowFrom % w = 0
    <3>1. Last = q(overflowFrom)
      BY <2>1, <2>2 DEF Last
    <3> HIDE DEF q
    <3> QED BY <1>0, <2>1, <2>2, <3>1
  <2>3. CASE overflowFrom % w # 0
    <3>1. Last = q(overflowFrom) + 1
      BY <2>3 DEF Last
    <3> HIDE DEF q
    <3> QED BY <1>0, <1>1, <2>1, <3>1
  <2> QED BY <2>2, <2>3
<1> HIDE DEF q
<1>3. \A l \in Nat : l < overflowFrom => q(l) < Last
  <2> TAKE l \in Nat
  <2> HAVE l < overflowFrom
  <2>1. q(l) * w < Last * w
    BY <1>0, <1>1, <1>2
  <2> QED BY <1>0, <1>1, <1>2, <2>1, Product
<1>4. \A l, m \in Nat : l <= m => q(l) <= q(m)
  <2> TAKE l, m \in Nat
  <2> HAVE l <= m
  <2>1. q(l) * w < (q(m) + 1) * w
    BY <1>0, <1>1
  <2>2. q(l) < q(m) + 1
    BY <1>0, <1>1, <2>1, Product
  <2> QED BY <1>1, <2>2
<1>5. \A l \in Nat : Index(l) = IF l < overflowFrom THEN q(l) ELSE Last
  BY DEF Index, q
<1>6. \A l \in Nat : Index(l) \in 0..Last /\ (Index(l) = Last <=> l >= overflowFrom)
  BY <1>0, <1>1, <1>2, <1>3, <1>5
<1>7. \A l \in Nat : l < overflowFrom => Index(l) * w <= l /\ l < Index(l) * w + w
  <2> TAKE l \in Nat
  <2>1. (q(l) + 1) * w = q(l) * w + w
    BY <1>0, <1>1
  <2> QED BY <1>0, <1>1, <1>5, <2>1
<1>8. \A l, m \in Nat : l <= m => Index(l) <= Index(m)
  <2> TAKE l, m \in Nat
  <2>1. q(l) \in Nat /\ q(m) \in Nat
    BY <1>1
  <2> QED BY <1>0, <1>2, <1>3, <1>4, <1>5, <2>1
<1> QED BY <1>2, <1>6, <1>7, <1>8

(* The elements of two sets without a common one are counted together. *)
LEMMA Disjoint ==
  ASSUME NEW S, NEW T, IsFiniteSet(S), IsFiniteSet(T), S \cap T = {}
  PROVE  Cardinality(S \cup T) = Cardinality(S) + Cardinality(T)
<1>1. /\ Cardinality(S \cup T) = Cardinality(S) + Cardinality(T) - Cardinality(S \cap T)
      /\ Cardinality(S \cap T) = 0
  BY FS_Union, FS_EmptySet
<1>2. Cardinality(S) \in Nat /\ Cardinality(T) \in Nat
  BY FS_CardinalityType
<1> QED BY <1>1, <1>2

(* What is logged is a latency. *)
LEMMA Logged ==
  ASSUME log \in Seq(Latencies)
  PROVE  \A k \in DOMAIN log : log[k] \in Latencies /\ log[k] \in Nat
<1>1. log \in [1..Len(log) -> Latencies]
  BY LenProperties, Zenon
<1>2. Latencies \subseteq Nat
  BY SummaryAssumption
<1> QED BY <1>1, <1>2, Zenon

(* Sets of recorded results are finite, and count what they should. *)
LEMMA Counted ==
  ASSUME log \in Seq(Latencies), NEW S, S \subseteq DOMAIN log
  PROVE  /\ IsFiniteSet(S) /\ Cardinality(S) \in Nat /\ Cardinality(S) <= Len(log)
         /\ Cardinality(DOMAIN log) = Len(log)
<1>1. DOMAIN log = 1..Len(log) /\ Len(log) \in Nat
  BY LenProperties
<1>2. \A n \in Nat : IsFiniteSet(1..n) /\ Cardinality(1..n) = n
  BY FS_Interval
<1>3. IsFiniteSet(DOMAIN log) /\ Cardinality(DOMAIN log) = Len(log)
  BY <1>1, <1>2, Zenon
<1>4. IsFiniteSet(S) /\ Cardinality(S) <= Len(log)
  BY <1>3, FS_Subset, Zenon
<1> QED BY <1>3, <1>4, FS_CardinalityType, Zenon

(* Record counts a latency in its bucket and in no other. *)
LEMMA RecordCounts ==
  ASSUME Histogram, NEW l \in Latencies, NEW kind, RecordResult(l, kind)
  PROVE  Histogram'
<1>0. /\ log \in Seq(Latencies) /\ Len(log) \in Nat /\ DOMAIN log = 1..Len(log)
      /\ log' = Append(log, l) /\ l \in Nat
  BY SummaryAssumption DEF Histogram, RecordResult, Observe
<1>1. /\ log' \in Seq(Latencies) /\ Len(log') = Len(log) + 1
      /\ \A k \in DOMAIN log : log'[k] = log[k]
      /\ log'[Len(log) + 1] = l
  BY <1>0
<1>2. DOMAIN log' = DOMAIN log \cup {Len(log) + 1} /\ Len(log) + 1 \notin DOMAIN log
  BY <1>0, <1>1
<1>3. Index(l) \in 0..Last
  BY <1>0, Buckets
<1>4. \A i \in 0..Last : IsFiniteSet(InBucket(i)) /\ Cardinality(InBucket(i)) \in Nat
  BY <1>0, Counted DEF InBucket
<1>5. \A i \in 0..Last :
        /\ i # Index(l) => InBucket(i)' = InBucket(i)
        /\ i = Index(l) => InBucket(i)' = InBucket(i) \cup {Len(log) + 1}
        /\ Len(log) + 1 \notin InBucket(i)
  BY <1>1, <1>2, Zenon DEF InBucket, Index
<1>6. \A i \in 0..Last :
        Cardinality(InBucket(i)') = Cardinality(InBucket(i)) + (IF i = Index(l) THEN 1 ELSE 0)
  <2> TAKE i \in 0..Last
  <2>1. CASE i = Index(l)
    BY <1>4, <1>5, <2>1, FS_AddElement
  <2>2. CASE i # Index(l)
    BY <1>4, <1>5, <2>2
  <2> QED BY <2>1, <2>2
<1>7. buckets' = [buckets EXCEPT ![Index(l)] = @ + 1] /\ buckets \in [0..Last -> Nat]
  BY DEF RecordResult, Observe, Histogram
<1>8. buckets' \in [0..Last -> Nat] /\ Last' = Last
  BY <1>3, <1>7 DEF Last
<1>9. \A i \in 0..Last : buckets'[i] = Cardinality(InBucket(i)')
  BY <1>3, <1>4, <1>6, <1>7 DEF Histogram
<1>10. MaxLatency' \in Nat /\ \A k \in DOMAIN log' : log'[k] <= MaxLatency'
  <2>1. /\ MaxLatency \in Nat /\ \A k \in DOMAIN log : log[k] \in Nat /\ log[k] <= MaxLatency
        /\ MaxLatency' = IF l > MaxLatency THEN l ELSE MaxLatency
    BY <1>0, Logged DEF Histogram, RecordResult
  <2> QED BY <1>0, <1>1, <1>2, <2>1
<1>11. TotalRequests' = Len(log')
  BY <1>1, Zenon DEF Histogram, RecordResult
<1> QED BY <1>1, <1>8, <1>9, <1>10, <1>11 DEF Histogram

(* The sum that the loop of Percentile has run up to when it looks at a bucket is
   the number of results in the buckets so far. *)
LEMMA RunningSum ==
  ASSUME Histogram
  PROVE  \A i \in 0..Last : SeenUpTo[i] = Cardinality(Within(i))
<1> DEFINE sum == [i \in 0..Last |-> Cardinality(Within(i))]
           Loop(f) == [i \in 0..Last |-> buckets[i] + IF i = 0 THEN 0 ELSE f[i - 1]]
<1>0. /\ log \in Seq(Latencies) /\ buckets \in [0..Last -> Nat] /\ Last \in Nat
      /\ \A i \in 0..Last : buckets[i] = Cardinality(InBucket(i))
  BY Buckets, Zenon DEF Histogram
<1>1. \A k \in DOMAIN log : Index(log[k]) \in Nat
  <2>1. \A k \in DOMAIN log : log[k] \in Nat
    BY <1>0, Logged
  <2>2. \A l \in Nat : Index(l) \in 0..Last
    BY Buckets, Zenon
  <2>3. \A i \in 0..Last : i \in Nat
    BY <1>0
  <2> QED BY <2>1, <2>2, <2>3, Zenon
<1>2. \A i \in 0..Last : Cardinality(Within(i)) = Loop(sum)[i]
  <2> TAKE i \in 0..Last
  <2>1. CASE i = 0
    <3>1. Within(0) = InBucket(0)
      BY <1>1 DEF Within, InBucket
    <3> QED BY <1>0, <2>1, <3>1
  <2>2. CASE i # 0
    <3>1. i - 1 \in 0..Last
      BY <1>0, <2>2
    <3>2. Within(i) = InBucket(i) \cup Within(i - 1) /\ InBucket(i) \cap Within(i - 1) = {}
      BY <1>1, <3>1 DEF Within, InBucket
    <3>3. InBucket(i) \subseteq DOMAIN log /\ Within(i - 1) \subseteq DOMAIN log
      BY DEF Within, InBucket
    <3>4. /\ IsFiniteSet(InBucket(i)) /\ Cardinality(InBucket(i)) \in Nat
          /\ IsFiniteSet(Within(i - 1)) /\ Cardinality(Within(i - 1)) \in Nat
      BY <1>0, <3>3, Counted, Zenon
    <3>5. Cardinality(Within(i)) = Cardinality(InBucket(i)) + Cardinality(Within(i - 1))
      BY <3>2, <3>4, Disjoint, Zenon
    <3> QED BY <1>0, <2>2, <3>1, <3>4, <3>5
  <2> QED BY <2>1, <2>2
<1>3. sum = Loop(sum)
  BY <1>2
<1>4. SeenUpTo = Loop(SeenUpTo)
  <2> HIDE DEF sum
  <2>1. \E f : f = Loop(f)
    BY <1>3, Zenon
  <2> QED BY <2>1, Zenon DEF SeenUpTo
<1>5. \A i \in 0..Last : SeenUpTo[i] = Loop(SeenUpTo)[i] /\ sum[i] = Loop(sum)[i]
  BY <1>3, <1>4, Zenon
<1> HIDE DEF sum
<1>6. \A i \in 0..Last :
        /\ SeenUpTo[i] = buckets[i] + IF i = 0 THEN 0 ELSE SeenUpTo[i - 1]
        /\ sum[i] = buckets[i] + IF i = 0 THEN 0 ELSE sum[i - 1]
  BY <1>5
<1> DEFINE wrong == {i \in 0..Last : SeenUpTo[i] # sum[i]}
<1>7. CASE wrong # {}
  <2>1. wrong \subseteq Nat
    BY <1>0
  <2>2. Min(wrong) \in wrong /\ \A y \in wrong : Min(wrong) <= y
    BY <1>7, <2>1, LeastOf
  <2>3. PICK m \in wrong : \A y \in wrong : m <= y
    BY <2>2
  <2>4. m # 0
    BY <1>6, <2>3
  <2>5. m - 1 \in 0..Last /\ m - 1 \notin wrong
    BY <1>0, <2>3, <2>4
  <2> QED BY <1>6, <2>3, <2>4, <2>5
<1>8. CASE wrong = {}
  BY <1>8, Zenon DEF sum
<1> QED BY <1>7, <1>8

(* Percentile's target is the least number of results that is p per cent. *)
LEMMA RankIs ==
  ASSUME NEW p \in 1..100, TotalRequests \in Nat \ {0}
  PROVE  /\ Rank(p) \in 1..TotalRequests
         /\ \A a \in Nat : a >= Rank(p) <=> a * 100 >= p * TotalRequests
<1>1. p * TotalRequests \in Nat /\ p * TotalRequests <= 100 * TotalRequests /\ p * TotalRequests >= 1
  <2>1. PICK d \in Nat : 100 = p + d
    <3>1. 100 - p \in Nat /\ 100 = p + (100 - p)
      OBVIOUS
    <3> QED BY <3>1
  <2>2. 100 * TotalRequests = p * TotalRequests + d * TotalRequests /\ d * TotalRequests \in Nat
    BY <2>1
  <2>3. PICK e \in Nat : p = e + 1
    <3>1. p - 1 \in Nat /\ p = (p - 1) + 1
      OBVIOUS
    <3> QED BY <3>1
  <2>4. p * TotalRequests = e * TotalRequests + TotalRequests /\ e * TotalRequests \in Nat
    BY <2>3
  <2> QED BY <2>2, <2>4
<1>2. \A n \in Nat : n <= 100 * TotalRequests /\ n >= 1 =>
        /\ (n + 99) \div 100 \in 1..TotalRequests
        /\ \A a \in Nat : a >= (n + 99) \div 100 <=> a * 100 >= n
  OBVIOUS
<1> QED BY <1>1, <1>2, Zenon DEF Rank

(* A multiple of a number leaves no remainder. *)
LEMMA Multiple ==
  ASSUME NEW i \in Nat, NEW w \in Nat \ {0}
  PROVE  (i * w) % w = 0
<1> DEFINE q == (i * w) \div w
           r == (i * w) % w
<1>1. q \in Nat /\ r \in 0..(w - 1) /\ i * w = q * w + r
  <2>1. i * w \in Nat
    OBVIOUS
  <2> QED BY <2>1, Division
<1> HIDE DEF q, r
<1>2. /\ q * w \in Nat /\ i * w \in Nat
      /\ (i + 1) * w = i * w + w /\ (q + 1) * w = q * w + w
  BY <1>1
<1>3. q * w < (i + 1) * w /\ i * w < (q + 1) * w
  BY <1>1, <1>2
<1>4. q < i + 1 /\ i < q + 1
  BY <1>1, <1>3, Product
<1>5. q = i
  BY <1>1, <1>4
<1>6. r = 0
  BY <1>1, <1>2, <1>5
<1> QED BY <1>6 DEF r

(* The bucket the scan stops at is that of the true percentile: the buckets up to
   that one's hold all results that do not exceed it, and the greatest latency of
   the buckets up to the scan's is not exceeded by any result in them. *)
LEMMA SameBucket ==
  ASSUME Histogram, TotalRequests > 0, NEW p \in Percents
  PROVE  LET l == OrderStatistic(p)
         IN  /\ l \in Nat
             /\ Index(l) = Min({j \in 0..Last : SeenUpTo[j] >= Rank(p)})
<1> DEFINE stops == {j \in 0..Last : SeenUpTo[j] >= Rank(p)}
           i == Min(stops)
           enough == {x \in Recorded : Cardinality(AtMost(x)) * 100 >= p * TotalRequests}
           l == Min(enough)
<1>0. /\ log \in Seq(Latencies) /\ TotalRequests = Len(log) /\ TotalRequests \in Nat \ {0}
      /\ Last \in Nat
  BY LenProperties, Buckets DEF Histogram
<1>1. Rank(p) \in 1..TotalRequests
      /\ \A a \in Nat : a >= Rank(p) <=> a * 100 >= p * TotalRequests
  BY <1>0, SummaryAssumption, RankIs, Zenon
<1>2. \A S : S \subseteq DOMAIN log => IsFiniteSet(S) /\ Cardinality(S) \in Nat
  BY <1>0, Counted
<1>3. \A x : AtMost(x) \subseteq DOMAIN log /\ Within(x) \subseteq DOMAIN log
  BY Zenon DEF AtMost, Within
<1>4. Recorded \subseteq Nat /\ \A k \in DOMAIN log : log[k] \in Recorded /\ log[k] \in Nat
  BY <1>0, Logged, Zenon DEF Recorded
<1>5. /\ \A x \in Nat : Index(x) \in 0..Last
      /\ \A x, y \in Nat : x <= y => Index(x) <= Index(y)
  BY Buckets
<1>6. /\ i \in 0..Last /\ Cardinality(Within(i)) >= Rank(p)
      /\ \A j \in 0..Last : Cardinality(Within(j)) >= Rank(p) => i <= j
  <2>1. \A k \in DOMAIN log : Index(log[k]) <= Last
    BY <1>0, <1>4, <1>5
  <2>2. Within(Last) = DOMAIN log
    BY <2>1, Zenon DEF Within
  <2>3. Cardinality(DOMAIN log) = Len(log)
    BY <1>0, Counted, Zenon
  <2>4. \A j \in 0..Last : SeenUpTo[j] = Cardinality(Within(j))
    BY RunningSum, Zenon
  <2>5. Last \in 0..Last /\ Len(log) >= Rank(p)
    BY <1>0, <1>1
  <2>6. Last \in stops
    BY <2>2, <2>3, <2>4, <2>5, Zenon
  <2>7. stops \subseteq Nat
    BY <1>0
  <2>8. i \in stops /\ \A j \in stops : i <= j
    BY <2>6, <2>7, LeastOf, Zenon
  <2> HIDE DEF i
  <2> QED BY <2>4, <2>8
<1> HIDE DEF i
<1>7. \E m \in Recorded : Index(m) <= i /\ \A k \in Within(i) : log[k] <= m
  <2> DEFINE T == {log[k] : k \in Within(i)}
  <2>1. Within(i) # {}
    <3>1. ~(0 >= Rank(p))
      BY <1>0, <1>1
    <3> QED BY <1>6, <3>1, FS_EmptySet, Zenon
  <2>2. T # {} /\ T \subseteq Recorded /\ T \subseteq Nat
    BY <1>3, <1>4, <2>1, Zenon
  <2>3. MaxLatency \in Nat /\ \A y \in T : y <= MaxLatency
    BY <1>3 DEF Histogram
  <2>4. PICK m \in T : \A y \in T : y <= m
    BY <2>2, <2>3, GreatestOf, Zenon
  <2>5. \A y \in T : Index(y) <= i
    BY Zenon DEF Within
  <2> QED BY <2>2, <2>4, <2>5, Zenon
<1>8. PICK m \in Recorded : Index(m) <= i /\ \A k \in Within(i) : log[k] <= m
  BY <1>7
<1>9. m \in enough
  <2>1. Within(i) \subseteq AtMost(m)
    BY <1>3, <1>8, Zenon DEF AtMost
  <2>2. Cardinality(Within(i)) <= Cardinality(AtMost(m))
    BY <1>2, <1>3, <2>1, FS_Subset, Zenon
  <2>3. Cardinality(Within(i)) \in Nat /\ Cardinality(AtMost(m)) \in Nat
    BY <1>2, <1>3, Zenon
  <2>4. Cardinality(AtMost(m)) >= Rank(p)
    BY <1>1, <1>0, <1>6, <2>2, <2>3
  <2> QED BY <1>1, <2>3, <2>4
<1>10. l \in enough /\ l \in Nat /\ l <= m
  <2>1. enough \subseteq Nat /\ enough # {}
    BY <1>4, <1>9, Zenon
  <2>2. l \in enough /\ \A y \in enough : l <= y
    BY <2>1, LeastOf
  <2> QED BY <1>9, <2>1, <2>2, Zenon
<1> HIDE DEF l
<1>11. Index(l) <= i
  <2>1. Index(l) <= Index(m) /\ m \in Nat
    BY <1>4, <1>5, <1>10
  <2> QED BY <1>0, <1>5, <1>6, <1>8, <1>10, <2>1
<1>12. i <= Index(l)
  <2>1. AtMost(l) \subseteq Within(Index(l))
    BY <1>4, <1>5, <1>10, Zenon DEF AtMost, Within
  <2>2. Cardinality(AtMost(l)) <= Cardinality(Within(Index(l)))
    BY <1>2, <1>3, <2>1, FS_Subset, Zenon
  <2>3. Cardinality(AtMost(l)) \in Nat /\ Cardinality(Within(Index(l))) \in Nat
    BY <1>2, <1>3, Zenon
  <2>4. Cardinality(AtMost(l)) >= Rank(p)
    BY <1>1, <1>10, <2>3
  <2>5. Cardinality(Within(Index(l))) >= Rank(p)
    BY <1>0, <1>1, <2>2, <2>3, <2>4
  <2> QED BY <1>5, <1>6, <1>10, <2>5
<1>13. Index(l) = i
  BY <1>0, <1>5, <1>6, <1>10, <1>11, <1>12
<1> QED BY <1>10, <1>13, Zenon DEF l, i, OrderStatistic

(* The percentile read from the histogram is that of the recorded latencies, up
   to the width of a bucket. *)
LEMMA ExactPercentile == Histogram => PercentileExact
<1> SUFFICES ASSUME Histogram, TotalRequests > 0, NEW p \in Percents, NEW l, l = OrderStatistic(p)
             PROVE  IF l >= overflowFrom THEN Percentile(p) = overflowFrom
                    ELSE Percentile(p) <= l /\ l < Percentile(p) + bucketWidth
                           /\ Percentile(p) % bucketWidth = 0
  BY Zenon DEF PercentileExact
<1>1. l \in Nat /\ Index(l) = Min({j \in 0..Last : SeenUpTo[j] >= Rank(p)})
  BY SameBucket, Zenon
<1>2. TotalRequests # 0
  BY LenProperties DEF Histogram
<1>3. Percentile(p) = IF Index(l) = Last THEN overflowFrom ELSE Index(l) * bucketWidth
  BY <1>1, <1>2, Zenon DEF Percentile
<1>4. /\ Index(l) \in 0..Last /\ Last \in Nat
      /\ Index(l) = Last <=> l >= overflowFrom
      /\ l < overflowFrom => Index(l) * bucketWidth <= l /\ l < Index(l) * bucketWidth + bucketWidth
  BY <1>1, Buckets, Zenon
<1>5. bucketWidth \in Nat \ {0} /\ overflowFrom \in Nat
  BY SummaryAssumption
<1>6. (Index(l) * bucketWidth) % bucketWidth = 0
  <2>1. Index(l) \in Nat
    BY <1>4
  <2> QED BY <1>5, <2>1, Multiple, Zenon
<1>7. l >= overflowFrom \/ l < overflowFrom
  BY <1>1, <1>5
<1> QED BY <1>3, <1>4, <1>6, <1>7, Zenon

(* The histogram starts empty, and only Record touches it. *)
LEMMA InitHistogram == Init => Histogram
<1> SUFFICES ASSUME newLoadSummary PROVE Histogram
  BY Zenon DEF Init
<1>1. log = << >> /\ buckets = [i \in 0..Last |-> 0] /\ TotalRequests = 0 /\ MaxLatency = 0
  BY Zenon DEF newLoadSummary
<1>2. \A i \in 0..Last : Cardinality(InBucket(i)) = 0
  <2>1. \A i \in 0..Last : InBucket(i) = {}
    BY <1>1 DEF InBucket
  <2> QED BY <2>1, FS_EmptySet
<1> QED BY <1>1, <1>2 DEF Histogram

(* Every step but Record leaves the summary alone. *)
LEMMA StepHistogram == Histogram /\ [Next]_vars => Histogram'
<1> SUFFICES ASSUME Histogram, [Next]_vars PROVE Histogram'
  OBVIOUS
<1>1. CASE Record
  <2>1. PICK l \in Latencies, kind \in Kinds : RecordResult(l, kind)
    BY <1>1, Zenon DEF Record
  <2> QED BY <2>1, RecordCounts, Zenon
<1>2. CASE UNCHANGED summaryVars
  BY <1>2 DEF summaryVars, Histogram, InBucket, Index, Last
<1>3. Record \/ UNCHANGED summaryVars
  BY Zenon
  DEF Next, vars, chanVars, RunStep, NotReady, LoadDone, StopTunnel, ClientExit, HostReady,
      TunnelExits, CallerCancels, TimerFires, CloseResults, WorkerStep, CheckStop, DoRequest,
      SendResult, DropResult
<1> QED BY <1>1, <1>2, <1>3

(* What String reports for a percentage is, in every behaviour and for every bucket
   width, limit and latency, the lower edge of the bucket that the true percentile
   of the recorded latencies is in, or the limit. *)
THEOREM PercentilesAreExact == Spec => []PercentileExact
BY InitHistogram, StepHistogram, ExactPercentile, PTL DEF Spec
=============================================================================
