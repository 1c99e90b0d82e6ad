------------------------------ MODULE PerfLoad ------------------------------
(***************************************************************************)
(* The load generator (cmd/perf-client): run starts the tunnel client,     *)
(* waits until the public host answers, drives the load with one goroutine *)
(* per connection, and stops the tunnel.  runLoad's workers end by a stop  *)
(* timer or the context, and hand their results to one collector over a    *)
(* bounded channel that a further goroutine closes.                        *)
(*                                                                         *)
(* Requests are bounded by their own timeout, and may fail; the tunnel     *)
(* client may exit at any time, and the caller's context may end.          *)
(***************************************************************************)
EXTENDS LoadSummary

CONSTANTS
  Workers,     \* the connections
  MaxRequests  \* bound: requests of all workers

ASSUME LoadAssumption ==
  /\ IsFiniteSet(Workers)
  /\ Workers # {}
  /\ MaxRequests \in Nat

Capacity == 2 * Cardinality(Workers)

VARIABLES
  ctxDone,    \* runCtx is done
  phase,      \* where run is: "ready", "load", "stop", "wait" or "returned"
  outcome,    \* what run returns: "none", "summary" or "error"
  tunnel,     \* cli.Run: "running" or "exited"
  errCh,      \* tunnelErrCh holds cli.Run's result
  stop,       \* the stop timer: "off", "armed" or "fired" (stopCh closed)
  pc,         \* where a worker is
  completed,  \* requests completed
  dropped,    \* results given up on because the context ended
  results,    \* results in the channel
  closed      \* results is closed

runVars    == <<ctxDone, phase, outcome, tunnel, errCh>>
workerVars == <<pc, completed, dropped>>
chanVars   == <<results, closed, summaryVars>>
vars == <<runVars, stop, workerVars, chanVars>>

Init ==
  /\ ctxDone = FALSE /\ phase = "ready" /\ outcome = "none"
  /\ tunnel = "running" /\ errCh = FALSE
  /\ stop = "off"
  /\ pc = [w \in Workers |-> "off"]
  /\ completed = 0 /\ dropped = 0
  /\ results = 0 /\ closed = FALSE
  /\ newLoadSummary

(* Faulty versions of definitions below, each a plausible slip in the code. *)
GiveUp_OnStop == ctxDone \/ stop = "fired"
MustStop_Ctx  == ctxDone

-----------------------------------------------------------------------------
(* run *)

(* cli.Run returns, after Close or the context, or on its own. *)
TunnelExits ==
  /\ tunnel = "running"
  /\ tunnel' = "exited"
  /\ errCh' = TRUE
  /\ UNCHANGED <<ctxDone, phase, outcome, stop, workerVars, chanVars>>

(* runLoad starts the timer and one worker per connection.  Its checks of the
   configuration cannot fail here: loadConfig has made them. *)
StartLoad ==
  /\ stop' = "armed"
  /\ pc' = [w \in Workers |-> "check"]

(* waitForReady: /healthz answers 200. *)
HostReady ==
  /\ phase = "ready"
  /\ phase' = "load"
  /\ StartLoad
  /\ UNCHANGED <<ctxDone, outcome, tunnel, errCh, completed, dropped, chanVars>>

(* waitForReady gives up: its time is over, or the tunnel client has exited, whose
   result it takes from the channel. *)
NotReady ==
  /\ phase = "ready"
  /\ \/ UNCHANGED errCh
     \/ errCh /\ errCh' = FALSE
  /\ phase' = "stop"
  /\ outcome' = "error"
  /\ UNCHANGED <<ctxDone, tunnel, stop, workerVars, chanVars>>

(* range results ends. *)
Drained == closed /\ results = 0

(* The collector finds results closed and empty: runLoad returns the summary. *)
LoadDone ==
  /\ phase = "load"
  /\ Drained
  /\ phase' = "stop"
  /\ outcome' = "summary"
  /\ UNCHANGED <<ctxDone, tunnel, errCh, stop, workerVars, chanVars>>

(* cancel, then cli.Close. *)
StopTunnel ==
  /\ phase = "stop"
  /\ ctxDone' = TRUE
  /\ phase' = "wait"
  /\ UNCHANGED <<outcome, tunnel, errCh, stop, workerVars, chanVars>>

(* waitForClientExit: the client's result, or two seconds. *)
ClientExit ==
  /\ phase = "wait"
  /\ errCh' \in {FALSE, errCh}
  /\ phase' = "returned"
  /\ UNCHANGED <<ctxDone, outcome, tunnel, stop, workerVars, chanVars>>

CallerCancels ==
  /\ ~ctxDone
  /\ ctxDone' = TRUE
  /\ UNCHANGED <<phase, outcome, tunnel, errCh, stop, workerVars, chanVars>>

-----------------------------------------------------------------------------
(* runLoad *)

CtxWakes == ctxDone

(* The timer's goroutine: it closes stopCh, or leaves it open for the context.
   runLoad stops the timer when it returns. *)
TimerFires ==
  /\ stop = "armed"
  /\ \/ phase = "load" /\ stop' = "fired"
     \/ CtxWakes /\ stop' = "off"
  /\ UNCHANGED <<runVars, workerVars, chanVars>>

Requesting == {w \in Workers : pc[w] = "request"}

Goto(w, l) == pc' = [pc EXCEPT ![w] = l]

MustStop == ctxDone \/ stop = "fired"

CheckStop(w) ==
  /\ pc[w] = "check"
  /\ IF MustStop
     THEN Goto(w, "done")
     ELSE completed + Cardinality(Requesting) < MaxRequests /\ Goto(w, "request")
  /\ UNCHANGED <<runVars, stop, completed, dropped, chanVars>>

(* doRequest ends, within RequestTimeout or with the context. *)
DoRequest(w) ==
  /\ pc[w] = "request"
  /\ completed' = completed + 1
  /\ Goto(w, "send")
  /\ UNCHANGED <<runVars, stop, dropped, chanVars>>

Room == results < Capacity

SendResult(w) ==
  /\ pc[w] = "send"
  /\ Room
  /\ results' = results + 1
  /\ Goto(w, "check")
  /\ UNCHANGED <<runVars, stop, completed, dropped, closed, summaryVars>>

GiveUp == ctxDone

DropResult(w) ==
  /\ pc[w] = "send"
  /\ GiveUp
  /\ dropped' = dropped + 1
  /\ Goto(w, "done")
  /\ UNCHANGED <<runVars, stop, completed, chanVars>>

AllDone == \A w \in Workers : pc[w] = "done"

(* wg.Wait, then close(results). *)
CloseResults ==
  /\ phase = "load"
  /\ ~closed
  /\ AllDone
  /\ closed' = TRUE
  /\ UNCHANGED <<runVars, stop, workerVars, results, summaryVars>>

(* The collector.  What a result holds plays no part before it is recorded. *)
Record ==
  /\ phase = "load"
  /\ results > 0
  /\ results' = results - 1
  /\ \E l \in Latencies, kind \in Kinds : RecordResult(l, kind)
  /\ UNCHANGED <<runVars, stop, workerVars, closed>>

WorkerStep(w) == CheckStop(w) \/ DoRequest(w) \/ SendResult(w) \/ DropResult(w)

RunStep == NotReady \/ LoadDone \/ StopTunnel \/ ClientExit

Next ==
  \/ RunStep \/ HostReady \/ TunnelExits \/ CallerCancels
  \/ TimerFires \/ CloseResults \/ Record
  \/ \E w \in Workers : WorkerStep(w)

Spec == Init /\ [][Next]_vars

(* Every goroutine runs; timers expire and requests end by their timeouts. *)
FairSpec ==
  /\ Spec
  /\ WF_vars(RunStep) /\ WF_vars(TimerFires) /\ WF_vars(CloseResults) /\ WF_vars(Record)
  /\ \A w \in Workers : WF_vars(WorkerStep(w))

-----------------------------------------------------------------------------
Sending == {w \in Workers : pc[w] = "send"}

(* The variables have their types, and the channel holds at most its capacity. *)
TypeOK ==
  /\ ctxDone \in BOOLEAN /\ errCh \in BOOLEAN /\ closed \in BOOLEAN
  /\ phase \in {"ready", "load", "stop", "wait", "returned"}
  /\ outcome \in {"none", "summary", "error"}
  /\ tunnel \in {"running", "exited"}
  /\ stop \in {"off", "armed", "fired"}
  /\ pc \in [Workers -> {"off", "check", "request", "send", "done"}]
  /\ completed \in Nat /\ dropped \in Nat /\ TotalRequests \in Nat
  /\ results \in 0..Capacity

(* Every request that was completed is in the summary, in the channel, in the
   hands of its worker, or was given up by a worker that saw the context end. *)
Accounted == completed = TotalRequests + results + dropped + Cardinality(Sending)

(* A load that nobody cancels is reported whole: when runLoad returns, every
   request completed has been recorded, those the stop timer cut short included.
   A cancelled one misses at most the last request of every worker. *)
SummaryComplete ==
  phase = "stop" /\ outcome = "summary" =>
    /\ completed - TotalRequests <= Cardinality(Workers)
    /\ ~ctxDone => completed = TotalRequests

(* Whatever the host and the tunnel do, run returns. *)
RunReturns == <>(phase = "returned")
=============================================================================
