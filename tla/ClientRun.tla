------------------------------ MODULE ClientRun ------------------------------
(***************************************************************************)
(* The life of a tunnel client in tunnel/client.go: Run dials, holds a     *)
(* session and reconnects after a backoff, while Close may be called by    *)
(* any number of goroutines and Run's context may be cancelled at any      *)
(* step.  What a session does while it lasts is the subject of             *)
(* ClientSession.  Every dial creates a new gRPC connection; attempts are  *)
(* numbered and bounded.                                                   *)
(***************************************************************************)
EXTENDS Integers

CONSTANTS
  Closers,     \* calls of Close
  MaxAttempts  \* bound: passes of Run's loop

ASSUME RunAssumption == MaxAttempts \in Nat \ {0}

Attempts == 1..MaxAttempts
NoConn   == 0

VARIABLES
  closed,     \* Client.closed
  conn,       \* Client.conn
  closeCh,    \* how often Client.closeCh was closed; twice would panic
  ctxDone,    \* Run's context is done
  runPC,      \* where Run is
  attempt,    \* Run's loop counter, also the connection of this pass
  open,       \* gRPC connections created and not closed
  closerPC,   \* where a call of Close is
  first,      \* alreadyClosed was false for this call
  taken       \* the connection a call of Close has taken

closerVars == <<closerPC, first, taken>>
runVars == <<closed, conn, closeCh, ctxDone, runPC, attempt, open, closerVars>>

(* A pass with a stream, or about to open one: in Recv, or with a frame in hand
   that the application has to take first. *)
InSession == {"connect", "session", "write", "dispatch"}

RunStates == InSession \cup {"dial", "wait", "set", "clear", "closeConn", "checkCtx",
                             "checkClosed", "backoff", "returned"}

RunInit ==
  /\ closed = FALSE
  /\ conn = NoConn
  /\ closeCh = 0
  /\ ctxDone = FALSE
  /\ runPC = "dial"
  /\ attempt = 1
  /\ open = {}
  /\ closerPC = [k \in Closers |-> "idle"]
  /\ first = [k \in Closers |-> FALSE]
  /\ taken = [k \in Closers |-> NoConn]

(* Faulty versions of definitions below, each a plausible slip in the code. *)
Refused_Never         == FALSE
ClearedConn_Never     == conn
BackoffEnds_Deaf      == ctxDone

-----------------------------------------------------------------------------
(* Run and runSession *)

(* grpc.NewClient succeeds, or fails and leaves nothing to close. *)
NewClient ==
  /\ runPC = "dial"
  /\ \/ open' = open \cup {attempt} /\ runPC' = "wait"
     \/ runPC' = "checkCtx" /\ UNCHANGED open
  /\ UNCHANGED <<closed, conn, closeCh, ctxDone, attempt, closerVars>>

(* waitForConnReady: ready, or out of time, or cancelled. *)
WaitForConnReady ==
  /\ runPC = "wait"
  /\ runPC' \in {"set", "closeConn"}
  /\ UNCHANGED <<closed, conn, closeCh, ctxDone, attempt, open, closerVars>>

Refused == closed

(* setConn: a connection that comes after Close is closed at once. *)
SetConn ==
  /\ runPC = "set"
  /\ IF Refused
     THEN open' = open \ {attempt} /\ UNCHANGED conn
     ELSE conn' = attempt /\ UNCHANGED open
  /\ runPC' = "connect"
  /\ UNCHANGED <<closed, closeCh, ctxDone, attempt, closerVars>>

(* Connect opens the stream and Register is sent, over an open connection. *)
OpenStream ==
  /\ runPC = "connect"
  /\ attempt \in open
  /\ ~ctxDone
  /\ runPC' = "session"
  /\ UNCHANGED <<closed, conn, closeCh, ctxDone, attempt, open, closerVars>>

(* The receive loop has a RequestBody or a WsData frame, and waits until the request's
   handler reads from the pipe, or the WebSocket has room in its channel. *)
HandOver ==
  /\ runPC = "session"
  /\ runPC' \in {"write", "dispatch"}
  /\ UNCHANGED <<closed, conn, closeCh, ctxDone, attempt, open, closerVars>>

(* The handler has read, or has returned; the WebSocket has taken its frame. *)
HandedOver ==
  /\ runPC \in {"write", "dispatch"}
  /\ runPC' = "session"
  /\ UNCHANGED <<closed, conn, closeCh, ctxDone, attempt, open, closerVars>>

(* dispatchWSInbound also looks at Run's context; the pipe does not. *)
DispatchCancelled ==
  /\ runPC = "dispatch"
  /\ ctxDone
  /\ runPC' = "clear"
  /\ UNCHANGED <<closed, conn, closeCh, ctxDone, attempt, open, closerVars>>

(* Opening the stream, registering or receiving fails. *)
SessionFails ==
  /\ runPC \in {"connect", "session"}
  /\ runPC' = "clear"
  /\ UNCHANGED <<closed, conn, closeCh, ctxDone, attempt, open, closerVars>>

ClearedConn == IF conn = attempt THEN NoConn ELSE conn

(* The deferred clearConn, then the deferred conn.Close. *)
ClearConn ==
  /\ runPC = "clear"
  /\ conn' = ClearedConn
  /\ runPC' = "closeConn"
  /\ UNCHANGED <<closed, closeCh, ctxDone, attempt, open, closerVars>>

CloseConn ==
  /\ runPC = "closeConn"
  /\ open' = open \ {attempt}
  /\ runPC' = "checkCtx"
  /\ UNCHANGED <<closed, conn, closeCh, ctxDone, attempt, closerVars>>

CheckCtx ==
  /\ runPC = "checkCtx"
  /\ runPC' = IF ctxDone THEN "returned" ELSE "checkClosed"
  /\ UNCHANGED <<closed, conn, closeCh, ctxDone, attempt, open, closerVars>>

CheckClosed ==
  /\ runPC = "checkClosed"
  /\ runPC' = IF closed THEN "returned" ELSE "backoff"
  /\ UNCHANGED <<closed, conn, closeCh, ctxDone, attempt, open, closerVars>>

BackoffEnds == ctxDone \/ closeCh > 0

(* The timer, the context or closeCh ends the backoff; select may pick the
   timer although another is ready. *)
Backoff ==
  /\ runPC = "backoff"
  /\ \/ BackoffEnds /\ runPC' = "returned" /\ UNCHANGED attempt
     \/ attempt < MaxAttempts /\ runPC' = "dial" /\ attempt' = attempt + 1
  /\ UNCHANGED <<closed, conn, closeCh, ctxDone, open, closerVars>>

-----------------------------------------------------------------------------
(* Close, three steps: under the mutex, closing closeCh, closing the connection *)

CloserGoto(k, l) == closerPC' = [closerPC EXCEPT ![k] = l]

MarkClosed(k) ==
  /\ closerPC[k] = "idle"
  /\ closed' = TRUE
  /\ first' = [first EXCEPT ![k] = ~closed]
  /\ taken' = [taken EXCEPT ![k] = conn]
  /\ conn' = NoConn
  /\ CloserGoto(k, "signal")
  /\ UNCHANGED <<closeCh, ctxDone, runPC, attempt, open>>

MustClose(k) == first[k]

CloseCloseCh(k) ==
  /\ closerPC[k] = "signal"
  /\ closeCh' = IF MustClose(k) THEN closeCh + 1 ELSE closeCh
  /\ CloserGoto(k, "close")
  /\ UNCHANGED <<closed, conn, ctxDone, runPC, attempt, open, first, taken>>

CloseTaken(k) ==
  /\ closerPC[k] = "close"
  /\ open' = open \ {taken[k]}
  /\ CloserGoto(k, "returned")
  /\ UNCHANGED <<closed, conn, closeCh, ctxDone, runPC, attempt, first, taken>>

(* The owner of Run's context cancels it. *)
CancelCtx ==
  /\ ~ctxDone
  /\ ctxDone' = TRUE
  /\ UNCHANGED <<closed, conn, closeCh, runPC, attempt, open, closerVars>>

-----------------------------------------------------------------------------
RunStep ==
  \/ NewClient \/ WaitForConnReady \/ SetConn \/ OpenStream \/ DispatchCancelled
  \/ ClearConn \/ CloseConn \/ CheckCtx \/ CheckClosed \/ Backoff

CloserStep(k) == CloseCloseCh(k) \/ CloseTaken(k)

RunNext ==
  \/ RunStep \/ SessionFails \/ HandOver \/ HandedOver
  \/ \E k \in Closers : MarkClosed(k) \/ CloserStep(k)
  \/ CancelCtx

RunSpec == RunInit /\ [][RunNext]_runVars

(* Run and a Close under way are scheduled; a dial ends by DialTimeout; Recv on a
   closed connection, or with its context done, fails after at most the frames
   that have already arrived.  Nothing makes a healthy session end, or the
   application take a frame. *)
RunFairness ==
  /\ WF_runVars(RunStep)
  /\ SF_runVars(SessionFails /\ (ctxDone \/ attempt \notin open))
  /\ \A k \in Closers : WF_runVars(CloserStep(k))

RunFairSpec == RunSpec /\ RunFairness

-----------------------------------------------------------------------------
(* The variables have their types. *)
RunTypeOK ==
  /\ closed \in BOOLEAN /\ ctxDone \in BOOLEAN
  /\ conn \in Attempts \cup {NoConn}
  /\ closeCh \in Nat
  /\ runPC \in RunStates
  /\ attempt \in Attempts
  /\ open \subseteq Attempts
  /\ closerPC \in [Closers -> {"idle", "signal", "close", "returned"}]
  /\ first \in [Closers -> BOOLEAN]
  /\ taken \in [Closers -> Attempts \cup {NoConn}]

(* Client.conn is the connection of the session now running: Close never closes
   an old one in place of the new, and no connection outlives its pass of Run. *)
ConnIsCurrent ==
  /\ conn # NoConn => conn = attempt /\ runPC \in InSession \cup {"clear"}
  /\ open \subseteq {attempt}
  /\ runPC = "returned" => open = {}

(* However many goroutines call Close, closeCh is closed at most once (closing
   it again would panic); and once every call that began has returned, no session
   runs on an open connection, however Close and setConn interleave. *)
ClosedIsFinal ==
  /\ closeCh <= 1
  /\ closed /\ (\A k \in Closers : closerPC[k] \in {"idle", "returned"})
       => ~(runPC \in InSession /\ attempt \in open)

(* The receive loop waits for the application: Close, which does not end the
   context, reaches neither wait, and the context only one of them. *)
HeldByApplication == runPC = "write" \/ (runPC = "dispatch" /\ ~ctxDone)

(* Close, and the end of the context, make Run return, whatever Run was doing,
   unless the application never takes the frame that the receive loop has for it. *)
CloseStopsRun == ((closed \/ ctxDone) ~> runPC = "returned") \/ <>[]HeldByApplication
=============================================================================
