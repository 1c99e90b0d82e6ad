------------------------------ MODULE EdgeMain ------------------------------
(***************************************************************************)
(* The edge's process (cmd/edge/main.go): run configures the server,       *)
(* obtains certificates and listeners, serves until a signal or a failed   *)
(* listener, and shuts down.  Around it run the two serve goroutines, the  *)
(* goroutine that stops the certificate cache, and the one in which        *)
(* GracefulStop drains the Connect calls.                                  *)
(*                                                                         *)
(* Timeouts may expire at any time.  net/http, grpc and certmagic are      *)
(* modelled as run uses them: Shutdown closes the listener being served    *)
(* and returns when the server is idle or the deadline passes; the cache   *)
(* may be stopped once.  The Connect calls come through                    *)
(* grpc.Server.ServeHTTP, and what GracefulStop and Stop do with such a    *)
(* call is not for this repository to say: GracefulStop returns when none  *)
(* is left, and otherwise waits for as long as the call stays up, or       *)
(* panics, which ends the process.                                         *)
(***************************************************************************)
EXTENDS Routing

CONSTANT Calls  \* bound: Connect calls

Servers == {"HTTP", "HTTPS"}

VARIABLES
  pc,        \* where run is
  result,    \* what run returns: "none", "nil", "error" or "canceled"
  ctxDone,   \* a signal has come
  lis,       \* a server's listener: "none", "open" or "closed"
  serve,     \* a serve goroutine: "none", "spawned", "serving", "sending" or "ended"
  sent,      \* what serveOnce returned to it
  serveErr,  \* the channel
  todo,      \* servers that shutdownServers has still to shut down
  closing,   \* servers that Shutdown was called on
  watcher,   \* the goroutine that waits for ctx to stop the cache
  stops,     \* how often the cache was stopped
  gs,        \* the goroutine of GracefulStop: "none", "draining", "done" or "panicked"
  call       \* a Connect call: "none", "up" or "ended"

httpVars  == <<lis, serve, sent, serveErr, closing>>
cacheVars == <<watcher, stops>>
grpcVars  == <<gs, call>>
procVars  == <<pc, result, ctxDone, httpVars, todo, cacheVars, grpcVars>>
vars      == <<configVars, procVars>>

Init ==
  /\ ConfigInit
  /\ pc = "config" /\ result = "none" /\ ctxDone = FALSE
  /\ lis = [s \in Servers |-> "none"] /\ serve = [s \in Servers |-> "none"]
  /\ sent = [s \in Servers |-> "none"]
  /\ serveErr = <<>> /\ todo = <<>> /\ closing = {}
  /\ watcher = FALSE /\ stops = 0
  /\ gs = "none" /\ call = [c \in Calls |-> "none"]

Return(r) == pc' = "returned" /\ result' = r

Goto(l) == pc' = l /\ UNCHANGED result

CloseListeners(S) == lis' = [s \in Servers |-> IF s \in S THEN "closed" ELSE lis[s]]

(* Faulty versions of definitions below, each a plausible slip in the code. *)
serveOnce_Silent(s) == "nil"
serveErrCap_One     == 1
closeDone_Missing   == UNCHANGED gs

-----------------------------------------------------------------------------
(* run, up to the point where it serves *)

Configure == ConfigNext /\ UNCHANGED procVars

(* loadConfig or server.New has refused. *)
ConfigFails ==
  /\ pc = "config" /\ caller = "edge" /\ phase = "refused"
  /\ Return("error")
  /\ UNCHANGED <<configVars, ctxDone, httpVars, todo, cacheVars, grpcVars>>

(* edgeTLSAssetsFor: only the files of a static certificate can be bad. *)
TLSAssets ==
  /\ pc = "config" /\ caller = "edge" /\ phase = "serving"
  /\ Goto("listenHTTP") \/ (staticTLS /\ Return("error"))
  /\ UNCHANGED <<configVars, ctxDone, httpVars, todo, cacheVars, grpcVars>>

ListenHTTP ==
  /\ pc = "listenHTTP"
  /\ \/ lis' = [lis EXCEPT !["HTTP"] = "open"] /\ Goto("listenHTTPS")
     \/ Return("error") /\ UNCHANGED lis
  /\ UNCHANGED <<configVars, ctxDone, serve, sent, serveErr, closing, todo, cacheVars, grpcVars>>

ListenHTTPS ==
  /\ pc = "listenHTTPS"
  /\ \/ lis' = [lis EXCEPT !["HTTPS"] = "open"] /\ Goto("http2")
     \/ CloseListeners({"HTTP"}) /\ Return("error")
  /\ UNCHANGED <<configVars, ctxDone, serve, sent, serveErr, closing, todo, cacheVars, grpcVars>>

(* http2.ConfigureServer, then the HTTP serve goroutine, then manage: with
   certmagic it starts the goroutine that waits for ctx. *)
ServeHTTP ==
  /\ pc = "http2"
  /\ \/ /\ CloseListeners(Servers) /\ Return("error")
        /\ UNCHANGED <<serve, watcher>>
     \/ /\ serve' = [serve EXCEPT !["HTTP"] = "spawned"]
        /\ watcher' = ~staticTLS
        /\ Goto("manage")
        /\ UNCHANGED lis
  /\ UNCHANGED <<configVars, ctxDone, sent, serveErr, closing, todo, stops, grpcVars>>

(* stopOnce. *)
stopManagedCache == stops' = IF stops = 0 THEN 1 ELSE stops

(* manage returns nil: the HTTPS serve goroutine starts. *)
Managed ==
  /\ pc = "manage"
  /\ serve' = [serve EXCEPT !["HTTPS"] = "spawned"]
  /\ Goto("select")
  /\ UNCHANGED <<configVars, ctxDone, lis, sent, serveErr, closing, todo, cacheVars, grpcVars>>

(* ManageSync fails, by itself or because of ctx: only the HTTP server is up. *)
ManageFails ==
  /\ pc = "manage" /\ ~staticTLS
  /\ stopManagedCache
  /\ CloseListeners({"HTTPS"})
  /\ todo' = <<"HTTP">>
  /\ pc' = "shutdown"
  /\ result' = IF ctxDone THEN "canceled" ELSE "error"
  /\ UNCHANGED <<configVars, ctxDone, serve, sent, serveErr, closing, watcher, grpcVars>>

(* The watching goroutine. *)
CtxStopsCache ==
  /\ watcher /\ ctxDone
  /\ stopManagedCache
  /\ watcher' = FALSE
  /\ UNCHANGED <<configVars, pc, result, ctxDone, httpVars, todo, grpcVars>>

-----------------------------------------------------------------------------
(* The serve goroutines.  A listener may fail at any time. *)

(* Serve gives up at once when Shutdown came first, closing the listener. *)
ServeStarts(s) ==
  /\ serve[s] = "spawned" /\ s \notin closing
  /\ serve' = [serve EXCEPT ![s] = "serving"]
  /\ UNCHANGED <<configVars, pc, result, ctxDone, lis, sent, serveErr, closing, todo, cacheVars,
                 grpcVars>>

(* http.ErrServerClosed is what Serve returns once Shutdown was called. *)
serveOnce(s) == IF s \in closing THEN "nil" ELSE "error"

ServeReturns(s) ==
  /\ serve[s] = "serving" \/ (serve[s] = "spawned" /\ s \in closing)
  /\ CloseListeners({s})
  /\ sent' = [sent EXCEPT ![s] = serveOnce(s)]
  /\ serve' = [serve EXCEPT ![s] = "sending"]
  /\ UNCHANGED <<configVars, pc, result, ctxDone, serveErr, closing, todo, cacheVars, grpcVars>>

serveErrCap == 2

ServeSends(s) ==
  /\ serve[s] = "sending"
  /\ Len(serveErr) < serveErrCap
  /\ serveErr' = Append(serveErr, sent[s])
  /\ serve' = [serve EXCEPT ![s] = "ended"]
  /\ UNCHANGED <<configVars, pc, result, ctxDone, lis, sent, closing, todo, cacheVars, grpcVars>>

-----------------------------------------------------------------------------
(* run, from the select on *)

StartShutdown(r) ==
  /\ pc = "select"
  /\ pc' = "shutdown" /\ result' = r
  /\ todo' = <<"HTTP", "HTTPS">>

ServeFailed ==
  /\ serveErr # <<>>
  /\ StartShutdown(Head(serveErr))
  /\ serveErr' = Tail(serveErr)
  /\ UNCHANGED <<configVars, ctxDone, lis, serve, sent, closing, cacheVars, grpcVars>>

Signalled ==
  /\ ctxDone
  /\ StartShutdown("canceled")
  /\ UNCHANGED <<configVars, ctxDone, httpVars, cacheVars, grpcVars>>

(* Shutdown of the next server; whether it is idle or the deadline that the
   servers share has passed, the next one follows. *)
Shutdown ==
  /\ pc = "shutdown" /\ todo # <<>>
  /\ closing' = closing \cup {Head(todo)}
  /\ CloseListeners({s \in {Head(todo)} : serve[s] = "serving"})
  /\ todo' = Tail(todo)
  /\ UNCHANGED <<configVars, pc, result, ctxDone, serve, sent, serveErr, cacheVars, grpcVars>>

(* gracefulStopGRPC starts its goroutine; after a failed manage there is none. *)
ServersDown ==
  /\ pc = "shutdown" /\ todo = <<>>
  /\ IF "HTTPS" \in closing
     THEN pc' = "drain" /\ gs' = "draining"
     ELSE pc' = "returned" /\ UNCHANGED gs
  /\ UNCHANGED <<configVars, result, ctxDone, httpVars, todo, cacheVars, call>>

(* Five seconds are over: Stop is called.  A call may end at any time as it is. *)
ForceStop ==
  /\ pc = "drain"
  /\ pc' = "force"
  /\ UNCHANGED <<configVars, result, ctxDone, httpVars, todo, cacheVars, grpcVars>>

(* Either receive from done. *)
Stopped ==
  /\ pc \in {"drain", "force"} /\ gs = "done"
  /\ pc' = "returned"
  /\ UNCHANGED <<configVars, result, ctxDone, httpVars, todo, cacheVars, grpcVars>>

closeDone == gs' = "done"

GracefulStopReturns ==
  /\ gs = "draining"
  /\ \A c \in Calls : call[c] # "up"
  /\ closeDone
  /\ UNCHANGED <<configVars, pc, result, ctxDone, httpVars, todo, cacheVars, call>>

(* The transport of a call cannot be drained: nothing of the process is left. *)
GracefulStopPanics ==
  /\ gs = "draining"
  /\ \E c \in Calls : call[c] = "up"
  /\ gs' = "panicked" /\ pc' = "crashed" /\ watcher' = FALSE
  /\ CloseListeners(Servers)
  /\ serve' = [s \in Servers |-> "ended"]
  /\ call' = [c \in Calls |-> "ended"]
  /\ UNCHANGED <<configVars, result, ctxDone, sent, serveErr, closing, todo, stops>>

-----------------------------------------------------------------------------
(* Connect calls *)

CallGoes(c, from, to) ==
  /\ call[c] = from
  /\ call' = [call EXCEPT ![c] = to]
  /\ UNCHANGED <<configVars, pc, result, ctxDone, httpVars, todo, cacheVars, gs>>

(* A connection made before Shutdown can bring one until the drain begins. *)
ConnectStarts(c) ==
  /\ serve["HTTPS"] \in {"serving", "sending", "ended"} /\ gs = "none"
  /\ CallGoes(c, "none", "up")

ConnectEnds(c) == CallGoes(c, "up", "ended")

(* SIGINT or SIGTERM.  One that comes while run reads its configuration is seen
   at the same place as one that comes just after. *)
Signal ==
  /\ pc \notin {"config", "returned", "crashed"} /\ ~ctxDone
  /\ ctxDone' = TRUE
  /\ UNCHANGED <<configVars, pc, result, httpVars, todo, cacheVars, grpcVars>>

RunStep ==
  \/ ConfigFails \/ TLSAssets \/ ListenHTTP \/ ListenHTTPS \/ ServeHTTP \/ Managed \/ ManageFails
  \/ ServeFailed \/ Signalled \/ Shutdown \/ ServersDown \/ ForceStop \/ Stopped

ServeStep(s) == ServeStarts(s) \/ ServeSends(s) \/ ServeReturns(s)

Next ==
  \/ Configure \/ RunStep \/ CtxStopsCache \/ GracefulStopReturns \/ GracefulStopPanics \/ Signal
  \/ \E s \in Servers : ServeStep(s)
  \/ \E c \in Calls : ConnectStarts(c) \/ ConnectEnds(c)

Spec == Init /\ [][Next]_vars

(* Goroutines run and timeouts expire; Serve returns once its listener is closed.
   Nothing makes a signal, a failure or a client come, or a Connect call return. *)
FairSpec ==
  /\ Spec
  /\ WF_vars(Configure) /\ WF_vars(RunStep) /\ WF_vars(CtxStopsCache)
  /\ WF_vars(GracefulStopReturns)
  /\ \A s \in Servers :
       /\ WF_vars(ServeStarts(s)) /\ WF_vars(ServeSends(s))
       /\ WF_vars(s \in closing /\ ServeReturns(s))

-----------------------------------------------------------------------------
(* The process ends with status 0 (main ignores context.Canceled) only when it was
   asked to stop: a listener that fails while the other serves is never reported
   as a clean end, whatever Shutdown makes the serve goroutines return. *)
CleanExitWasAsked == pc = "returned" /\ result \in {"nil", "canceled"} => ctxDone

(* On every way out of run, the listeners are closed and the serve goroutines end:
   also when Shutdown comes before Serve, and with nobody receiving from serveErr. *)
PortsReleased ==
  pc = "returned" ~> \A s \in Servers : lis[s] # "open" /\ serve[s] \in {"none", "ended"}

(* A signal or a failed listener ends run within its timeouts, or brings the process
   down, unless a Connect call stays up for ever: Shutdown's deadline passes, and
   GracefulStop and the two receives from done come to an end.  After Stop run has
   no further timeout, so a call that Stop does not end keeps the process. *)
ShutdownEnds ==
  \/ pc = "select" /\ (ctxDone \/ serveErr # <<>>) ~> pc \in {"returned", "crashed"}
  \/ \E c \in Calls : <>[](call[c] = "up")
=============================================================================
