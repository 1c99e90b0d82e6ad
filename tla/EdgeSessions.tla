---------------------------- MODULE EdgeSessions ----------------------------
(***************************************************************************)
(* The control plane of server/server.go: which tunnel session serves a    *)
(* public host, which requests are in flight on which session, and the     *)
(* edge-wide counter that bounds them.                                     *)
(*                                                                         *)
(* Two kinds of goroutine run concurrently.  A Connect call (one per       *)
(* element of Sessions, which also names the session it creates) registers *)
(* its session, shuts down the one it replaces, receives until its stream  *)
(* ends, shuts its own session down and deregisters it.  An HTTP handler   *)
(* (one per element of Requests, which also names its request id) looks a  *)
(* session up, reserves a global slot with a compare-and-swap loop, enters *)
(* the session's in-flight map, proxies, and leaves again.  A step here is *)
(* one critical section or one atomic operation of the code.               *)
(*                                                                         *)
(* What a handler forwards and relays is the subject of EdgeStream; here   *)
(* it may return at any time (a failed body read, a failed write), and     *)
(* must return once told to, but while it forwards the request it looks    *)
(* only at its browser and at the session, not at its responseState.       *)
(***************************************************************************)
EXTENDS Integers, FiniteSets

CONSTANTS
  Hosts,             \* public hosts, one per user
  Sessions,          \* Connect calls
  Requests,          \* HTTP handler invocations
  NoSession,         \* "not in the map"
  MaxInflight,       \* Server.maxInflight, after New replaced values <= 0
  MaxTotalInflight   \* Server.maxTotalInflight, likewise

ASSUME EdgeAssumption ==
  /\ NoSession \notin Sessions
  /\ IsFiniteSet(Requests)
  /\ MaxInflight \in Nat \ {0}
  /\ MaxTotalInflight \in Nat \ {0}

VARIABLES
  sessions,       \* Server.sessions: host -> session
  totalInflight,  \* Server.totalInflight
  inflight,       \* session.inflight, the keys
  once,           \* session.once and done: "open", "closing" (done is closed,
                  \* failAll has not run) or "closed"
  rsDone,         \* requests whose responseState.done is closed
  host,           \* the host of the user whose token the Connect call presents
  connPC,         \* where a Connect call is
  target,         \* the session a Connect call is shutting down
  released,       \* what its shutdown returned: the ids failAll counted
  reqPC,          \* where a handler is
  sess,           \* the session a handler got
  current         \* the counter value a handler loaded

connVars == <<host, connPC, target, released>>
reqVars  == <<reqPC, sess, current>>
vars == <<sessions, totalInflight, inflight, once, rsDone, connVars, reqVars>>

ConnStates == {"start", "serving", "shutdown", "failAll", "release", "sendWait", "gone"}
ReqStates  == {"idle", "load", "cas", "reserved", "unreserve", "forward", "running",
               "cancelled", "returning", "finish", "finished", "rejected"}

Init ==
  /\ sessions = [h \in Hosts |-> NoSession]
  /\ totalInflight = 0
  /\ inflight = [c \in Sessions |-> {}]
  /\ once = [c \in Sessions |-> "open"]
  /\ rsDone = {}
  /\ host \in [Sessions -> Hosts]
  /\ connPC = [c \in Sessions |-> "start"]
  /\ target = [c \in Sessions |-> NoSession]
  /\ released = [c \in Sessions |-> {}]
  /\ reqPC = [r \in Requests |-> "idle"]
  /\ sess = [r \in Requests |-> NoSession]
  /\ current = [r \in Requests |-> 0]

(* Faulty versions of decisions below, each a plausible slip in the code; the
   properties are checked to fail when one replaces the definition it names. *)
Deregistered_Never(c)  == sessions[host[c]]
Deregistered_Always(c) == NoSession
CASSucceeds_Blind(r)   == TRUE
MustStop_IgnoresDone(r) == reqPC[r] = "cancelled"
AfterDel_Never(r)      == "finished"

ConnGoto(c, pc) == connPC' = [connPC EXCEPT ![c] = pc]
ReqGoto(r, pc)  == reqPC' = [reqPC EXCEPT ![r] = pc]

-----------------------------------------------------------------------------
(* Connect *)

(* The stream ends, or its first frame is no register frame, or the token
   is missing or unknown. *)
RejectRegister(c) ==
  /\ connPC[c] = "start"
  /\ ConnGoto(c, "gone")
  /\ UNCHANGED <<sessions, totalInflight, inflight, once, rsDone, host, target, released, reqVars>>

(* putSession: a replaced session is shut down. *)
AfterPut(c) == IF sessions[host[c]] = NoSession THEN "serving" ELSE "shutdown"

(* putSession's critical section: swap the host's entry. *)
PutSession(c) ==
  /\ connPC[c] = "start"
  /\ sessions' = [sessions EXCEPT ![host[c]] = c]
  /\ target' = [target EXCEPT ![c] = sessions[host[c]]]
  /\ ConnGoto(c, AfterPut(c))
  /\ UNCHANGED <<totalInflight, inflight, once, rsDone, host, released, reqVars>>

(* shutdown, first caller: once.Do closes done ... *)
CloseDone(c) ==
  /\ connPC[c] = "shutdown"
  /\ once[target[c]] = "open"
  /\ once' = [once EXCEPT ![target[c]] = "closing"]
  /\ ConnGoto(c, "failAll")
  /\ UNCHANGED <<sessions, totalInflight, inflight, rsDone, host, target, released, reqVars>>

(* failAll calls rs.fail for every entry. *)
Told(t) == inflight[t]

(* ... and fails and forgets every request in flight, under session.mu. *)
FailAll(c) ==
  LET t == target[c] IN
  /\ connPC[c] = "failAll"
  /\ released' = [released EXCEPT ![c] = inflight[t]]
  /\ rsDone' = rsDone \cup Told(t)
  /\ inflight' = [inflight EXCEPT ![t] = {}]
  /\ once' = [once EXCEPT ![t] = "closed"]
  /\ ConnGoto(c, "release")
  /\ UNCHANGED <<sessions, totalInflight, host, target, reqVars>>

(* shutdown, later caller: once.Do waits for the first and releases nothing. *)
ShutdownAgain(c) ==
  /\ connPC[c] = "shutdown"
  /\ once[target[c]] = "closed"
  /\ ConnGoto(c, "release")
  /\ UNCHANGED <<sessions, totalInflight, inflight, once, rsDone, host, target, released, reqVars>>

(* releaseGlobalSlots(shutdown(...)): one atomic subtraction. *)
ReleaseGlobalSlots(c) ==
  /\ connPC[c] = "release"
  /\ totalInflight' = totalInflight - Cardinality(released[c])
  /\ released' = [released EXCEPT ![c] = {}]
  /\ target' = [target EXCEPT ![c] = IF @ = c THEN c ELSE NoSession]
  /\ ConnGoto(c, IF target[c] = c THEN "sendWait" ELSE "serving")
  /\ UNCHANGED <<sessions, inflight, once, rsDone, host, reqVars>>

(* handleClientFrame, ResponseEnd or ResponseError for a request it finds. *)
FinishResponse(c, r) ==
  /\ connPC[c] = "serving"
  /\ r \in inflight[c]
  /\ rsDone' = rsDone \cup {r}
  /\ UNCHANGED <<sessions, totalInflight, inflight, once, connVars, reqVars>>

(* Recv fails or reports EOF: Connect shuts its own session down. *)
StreamEnds(c) ==
  /\ connPC[c] = "serving"
  /\ target' = [target EXCEPT ![c] = c]
  /\ ConnGoto(c, "shutdown")
  /\ UNCHANGED <<sessions, totalInflight, inflight, once, rsDone, host, released, reqVars>>

(* removeSession deletes the host's entry only if it is still this session. *)
Deregistered(c) == IF sessions[host[c]] = c THEN NoSession ELSE sessions[host[c]]

(* The send goroutine has ended; removeSession runs deferred. *)
RemoveSession(c) ==
  /\ connPC[c] = "sendWait"
  /\ sessions' = [sessions EXCEPT ![host[c]] = Deregistered(c)]
  /\ ConnGoto(c, "gone")
  /\ UNCHANGED <<totalInflight, inflight, once, rsDone, host, target, released, reqVars>>

-----------------------------------------------------------------------------
(* ServeHTTP and serveWebSocket *)

(* getSession; without a session the browser gets 502. *)
GetSession(r, h) ==
  /\ reqPC[r] = "idle"
  /\ sess' = [sess EXCEPT ![r] = sessions[h]]
  /\ ReqGoto(r, IF sessions[h] = NoSession THEN "rejected" ELSE "load")
  /\ UNCHANGED <<sessions, totalInflight, inflight, once, rsDone, connVars, current>>

(* tryReserveGlobalSlot: load the counter; at the cap the browser gets 503. *)
LoadTotal(r) ==
  /\ reqPC[r] = "load"
  /\ current' = [current EXCEPT ![r] = totalInflight]
  /\ ReqGoto(r, IF totalInflight >= MaxTotalInflight THEN "rejected" ELSE "cas")
  /\ UNCHANGED <<sessions, totalInflight, inflight, once, rsDone, connVars, sess>>

CASSucceeds(r) == totalInflight = current[r]

(* CompareAndSwap(current, current + 1), or load again. *)
CompareAndSwap(r) ==
  /\ reqPC[r] = "cas"
  /\ IF CASSucceeds(r)
       THEN /\ totalInflight' = current[r] + 1
            /\ ReqGoto(r, "reserved")
       ELSE /\ ReqGoto(r, "load")
            /\ UNCHANGED totalInflight
  /\ current' = [current EXCEPT ![r] = 0]
  /\ UNCHANGED <<sessions, inflight, once, rsDone, connVars, sess>>

SessionFull(s) == Cardinality(inflight[s]) >= MaxInflight

(* session.tryStart, under session.mu.  It does not look at done. *)
TryStart(r) ==
  LET s == sess[r] IN
  /\ reqPC[r] = "reserved"
  /\ IF SessionFull(s)
       THEN /\ ReqGoto(r, "unreserve")
            /\ UNCHANGED inflight
       ELSE /\ inflight' = [inflight EXCEPT ![s] = @ \cup {r}]
            /\ ReqGoto(r, "forward")
  /\ UNCHANGED <<sessions, totalInflight, once, rsDone, connVars, sess, current>>

(* tryStartRequest gives the slot back when the session is full: 503. *)
Unreserve(r) ==
  /\ reqPC[r] = "unreserve"
  /\ totalInflight' = totalInflight - 1
  /\ ReqGoto(r, "finished")
  /\ UNCHANGED <<sessions, inflight, once, rsDone, connVars, sess, current>>

(* forwardRequest has sent the whole request.  It reads the body from the browser,
   which may take its time. *)
Forwarded(r) ==
  /\ reqPC[r] = "forward"
  /\ ReqGoto(r, "running")
  /\ UNCHANGED <<sessions, totalInflight, inflight, once, rsDone, connVars, sess, current>>

(* The browser goes away: r.Context() is done and reading its body fails.  No
   earlier step looks at it. *)
Cancel(r) ==
  /\ reqPC[r] \in {"forward", "running"}
  /\ ReqGoto(r, "cancelled")
  /\ UNCHANGED <<sessions, totalInflight, inflight, once, rsDone, connVars, sess, current>>

(* The selects of ServeHTTP: done is closed, or the request context is done.
   Those of forwardRequest do not look at done. *)
MustStop(r) == reqPC[r] = "cancelled" \/ (reqPC[r] = "running" /\ r \in rsDone)

(* The handler returns because it was told to ... *)
HandlerStops(r) ==
  /\ MustStop(r)
  /\ ReqGoto(r, "returning")
  /\ UNCHANGED <<sessions, totalInflight, inflight, once, rsDone, connVars, sess, current>>

(* ... or gives up on its own: reading the request body or writing the
   response failed, or sess.done made forwardRequest fail. *)
HandlerFails(r) ==
  /\ reqPC[r] \in {"forward", "running"}
  /\ ReqGoto(r, "returning")
  /\ UNCHANGED <<sessions, totalInflight, inflight, once, rsDone, connVars, sess, current>>

(* finishRequest releases the slot only if del found the entry. *)
AfterDel(r) == IF r \in inflight[sess[r]] THEN "finish" ELSE "finished"

(* finishRequest: session.del reports whether the entry was still there. *)
Del(r) ==
  LET s == sess[r] IN
  /\ reqPC[r] = "returning"
  /\ inflight' = [inflight EXCEPT ![s] = @ \ {r}]
  /\ rsDone' = rsDone \ {r}       \* the responseState is now unreachable
  /\ ReqGoto(r, AfterDel(r))
  /\ UNCHANGED <<sessions, totalInflight, once, connVars, sess, current>>

(* finishRequest: only then is the slot released. *)
FinishRequest(r) ==
  /\ reqPC[r] = "finish"
  /\ totalInflight' = totalInflight - 1
  /\ ReqGoto(r, "finished")
  /\ UNCHANGED <<sessions, inflight, once, rsDone, connVars, sess, current>>

-----------------------------------------------------------------------------
ConnectStep(c) ==
  \/ CloseDone(c) \/ FailAll(c) \/ ShutdownAgain(c)
  \/ ReleaseGlobalSlots(c) \/ RemoveSession(c)

HandlerStep(r) ==
  \/ LoadTotal(r) \/ CompareAndSwap(r) \/ TryStart(r) \/ Unreserve(r)
  \/ HandlerStops(r) \/ Del(r) \/ FinishRequest(r)

(* Every Connect call and every handler has returned. *)
Terminated ==
  /\ \A c \in Sessions : connPC[c] = "gone"
  /\ \A r \in Requests : reqPC[r] \in {"finished", "rejected"}
  /\ UNCHANGED vars

Next ==
  \/ Terminated
  \/ \E c \in Sessions :
       \/ RejectRegister(c) \/ PutSession(c) \/ StreamEnds(c) \/ ConnectStep(c)
       \/ \E r \in Requests : FinishResponse(c, r)
  \/ \E r \in Requests :
       \/ HandlerStep(r) \/ Forwarded(r) \/ Cancel(r) \/ HandlerFails(r)
       \/ \E h \in Hosts : GetSession(r, h)

Spec == Init /\ [][Next]_vars

(* Go runs every runnable goroutine.  Whether a stream ends, a browser sends its
   body or goes away, or a response completes is up to the environment. *)
Fairness ==
  /\ \A c \in Sessions : WF_vars(ConnectStep(c))
  /\ \A r \in Requests : WF_vars(HandlerStep(r))

FairSpec == Spec /\ Fairness

-----------------------------------------------------------------------------
TypeOK ==
  /\ sessions \in [Hosts -> Sessions \cup {NoSession}]
  /\ totalInflight \in Nat
  /\ inflight \in [Sessions -> SUBSET Requests]
  /\ once \in [Sessions -> {"open", "closing", "closed"}]
  /\ rsDone \subseteq Requests
  /\ host \in [Sessions -> Hosts]
  /\ connPC \in [Sessions -> ConnStates]
  /\ target \in [Sessions -> Sessions \cup {NoSession}]
  /\ released \in [Sessions -> SUBSET Requests]
  /\ reqPC \in [Requests -> ReqStates]
  /\ sess \in [Requests -> Sessions \cup {NoSession}]
  /\ current \in [Requests -> Int]

(* The requests a global slot is charged to: reserved but not yet (or no
   longer) in a map, in flight, or counted by failAll and not yet subtracted. *)
SlotHolders ==
  {r \in Requests :
     \/ reqPC[r] \in {"reserved", "unreserve", "finish"}
     \/ \E c \in Sessions : r \in inflight[c] \/ r \in released[c]}

(* Slot accounting.  finishRequest and failAll race to remove a request from
   the map, and tryStartRequest gives slots back on its own; still the atomic
   counter is at every moment exactly the number of requests a slot is
   charged to, so no slot leaks and none is released twice. *)
SlotsAccounted == totalInflight = Cardinality(SlotHolders)

(* The counter stays within the cap in every interleaving of the load and the
   compare-and-swap of tryReserveGlobalSlot, and never goes negative. *)
TotalBounded == totalInflight \in 0..MaxTotalInflight

(* A session never has more requests in flight than tryStart allows. *)
SessionBounded == \A c \in Sessions : Cardinality(inflight[c]) <= MaxInflight

Proxying == {"forward", "running", "cancelled"}

(* No handler is orphaned: a handler that proxies a request is in its
   session's map, where response frames and failAll find it, or its
   responseState is done.  Neither a second Connect nor its own can take the
   entry (and the slot) away without telling it. *)
NoOrphanHandler ==
  \A r \in Requests :
    reqPC[r] \in Proxying => r \in rsDone \/ r \in inflight[sess[r]]

(* README, MUXBRIDGE_MAX_TOTAL_INFLIGHT: at most the cap many handlers proxy
   requests that have not already been told to stop. *)
ActiveBounded ==
  Cardinality({r \in Requests : reqPC[r] \in Proxying /\ r \notin rsDone})
    <= MaxTotalInflight

(* No session is orphaned: a session whose Connect call is past putSession and
   that nobody has closed is the one its host routes to, or the Connect call
   that replaced it is about to close it. *)
NoOrphanSession ==
  \A c \in Sessions :
    connPC[c] \notin {"start", "gone"} /\ once[c] = "open" =>
      \/ sessions[host[c]] = c
      \/ \E d \in Sessions : connPC[d] = "shutdown" /\ target[d] = c

(* A host routes to a session of its own user whose Connect call has not
   returned, and that nobody but that Connect call has closed: replacing and
   removing sessions concurrently never leaves a dead one behind. *)
RegisteredIsServed ==
  \A h \in Hosts : LET c == sessions[h] IN
    c # NoSession =>
      /\ host[c] = h
      /\ connPC[c] \notin {"start", "gone"}
      /\ once[c] = "open" \/ target[c] = c

(* The edge implements SlotPool: a handler takes one of MaxTotalInflight slots
   at its successful compare-and-swap and returns it once. *)
Slot == [r \in Requests |->
           IF r \in SlotHolders THEN "held"
           ELSE IF reqPC[r] \in Proxying \cup {"returning", "finished"} THEN "returned"
           ELSE "none"]

Pool == INSTANCE SlotPool WITH slot <- Slot

(* Every step of the edge takes one free slot, returns slots that are held, or
   leaves the slots alone. *)
ImplementsSlotPool == Pool!Spec

-----------------------------------------------------------------------------
(* A handler whose browser has gone, or whose response was ended or failed by the
   time its request was forwarded or later, returns and has given its slot back
   (ServeHTTP's deferred finishRequest).  One that still forwards the request may
   wait for the rest of the body first. *)
ToldHandlersFinish ==
  \A r \in Requests :
    reqPC[r] = "cancelled" \/ (r \in rsDone /\ reqPC[r] # "forward") ~> reqPC[r] = "finished"

=============================================================================
