---------------------------- MODULE ClientSession ----------------------------
(***************************************************************************)
(* One session of the tunnel client in tunnel/client.go, for plain HTTP    *)
(* requests: the receive loop of runSession, one serveRequest goroutine    *)
(* per request with its tunnelResponseWriter, the io.Pipe that carries the *)
(* request body from the one to the other, and the mutex around            *)
(* stream.Send that they all share.                                        *)
(*                                                                         *)
(* The edge is the environment: the frames of a request come in the order  *)
(* EdgeStream shows (RequestOrder), those of different requests interleave *)
(* freely, and any may be missing at the end.  So is the application's     *)
(* handler: it reads its body, writes, waits for its context, returns or   *)
(* panics as it likes.  The stream may be lost at any step.                *)
(***************************************************************************)
EXTENDS Integers, Sequences

CONSTANTS
  Requests,    \* request ids
  NoOne,       \* holder of a free mutex, or no request
  Receiver,    \* the receive loop, as a holder of sendMu
  BodyFrames,  \* BodyFrames[r]: chunks of the request body
  MaxWrites    \* MaxWrites[r]: bound, calls of Write by the handler

ASSUME SessionAssumption ==
  /\ NoOne \notin Requests /\ Receiver \notin Requests /\ NoOne # Receiver
  /\ {BodyFrames, MaxWrites} \subseteq [Requests -> Nat]

VARIABLES
  stream,      \* "up" or "down"
  recv,        \* where the receive loop is
  cur,         \* the request whose body chunk it writes, or whose error it sends
  fed,         \* frames of a request received so far
  inflight,    \* the inflight map, its keys
  ctxDone,     \* requests whose context is cancelled
  wclosed,     \* the pipe's write end: "open", "eof" or "err"
  rclosed,     \* requests whose pipe was closed at the read end
  sendMu,      \* holder of sendMu
  pc,          \* where a serveRequest goroutine is
  exit,        \* what is left once its frames are sent: "run" or "close"
  todo,        \* frames the current call of the response writer still sends
  wroteHeader, \* tunnelResponseWriter.wroteHeader
  sendErr,     \* tunnelResponseWriter.sendErr is set
  writes,      \* calls of Write so far
  got,         \* body chunks the handler has read
  bodyEnd,     \* how the body ended for the handler: "no", "eof" or "err"
  sent         \* last frame sent for a request, "none" at first

recvVars   == <<stream, recv, cur, fed>>
pipeVars   == <<ctxDone, wclosed, rclosed>>
writerVars == <<exit, todo, wroteHeader, sendErr, writes>>
readVars   == <<got, bodyEnd>>
vars == <<recvVars, inflight, pipeVars, sendMu, pc, writerVars, readVars, sent>>

RecvStates == {"recv", "write", "send", "closing", "returned"}
HandlerStates == {"none", "run", "reading", "waiting", "send", "close", "delete", "done"}

Init ==
  /\ stream = "up"
  /\ recv = "recv"
  /\ cur = NoOne
  /\ fed = [r \in Requests |-> 0]
  /\ inflight = {}
  /\ ctxDone = {}
  /\ wclosed = [r \in Requests |-> "open"]
  /\ rclosed = {}
  /\ sendMu = NoOne
  /\ pc = [r \in Requests |-> "none"]
  /\ exit = [r \in Requests |-> "run"]
  /\ todo = [r \in Requests |-> <<>>]
  /\ wroteHeader = {}
  /\ sendErr = {}
  /\ writes = [r \in Requests |-> 0]
  /\ got = [r \in Requests |-> <<>>]
  /\ bodyEnd = [r \in Requests |-> "no"]
  /\ sent = [r \in Requests |-> "none"]

Goto(r, l) == pc' = [pc EXCEPT ![r] = l]

(* Faulty versions of definitions below, each a plausible slip in the code. *)
NeedHeader_Always(r)  == TRUE
errSessionEnded_EOF   == "eof"
Broken_WriteEnd(r)    == wclosed[r] # "open"

-----------------------------------------------------------------------------
(* The receive loop.  Frame n of a request is RequestStart (0), a body chunk
   (1 .. BodyFrames[r]), RequestEnd, CancelRequest. *)

Receiving(r, n) ==
  /\ recv = "recv"
  /\ stream = "up"
  /\ fed[r] = n
  /\ fed' = [fed EXCEPT ![r] = n + 1]

(* The request is registered and its goroutine started. *)
RequestStart(r) ==
  /\ Receiving(r, 0)
  /\ inflight' = inflight \cup {r}
  /\ Goto(r, "run")
  /\ UNCHANGED <<stream, recv, cur, pipeVars, sendMu, writerVars, readVars, sent>>

(* http.NewRequestWithContext refuses it: ResponseError is sent by the loop. *)
BadRequest(r) ==
  /\ Receiving(r, 0)
  /\ recv' = "send"
  /\ cur' = r
  /\ UNCHANGED <<stream, inflight, pipeVars, sendMu, pc, writerVars, readVars, sent>>

(* A chunk for a registered request is written to its pipe, which blocks the
   loop until the handler has read it. *)
RequestBody(r) ==
  /\ \E n \in 1..BodyFrames[r] : Receiving(r, n)
  /\ IF r \in inflight
     THEN recv' = "write" /\ cur' = r
     ELSE UNCHANGED <<recv, cur>>
  /\ UNCHANGED <<stream, inflight, pipeVars, sendMu, pc, writerVars, readVars, sent>>

Broken(r) == r \in rclosed \/ wclosed[r] # "open"

(* bodyW.Write on a closed pipe fails, and the loop goes on. *)
BodyWriteFails ==
  /\ recv = "write"
  /\ Broken(cur)
  /\ recv' = "recv"
  /\ cur' = NoOne
  /\ UNCHANGED <<stream, fed, inflight, pipeVars, sendMu, pc, writerVars, readVars, sent>>

CloseWriteEnd(R, how) ==
  wclosed' = [r \in Requests |-> IF r \in R /\ wclosed[r] = "open" THEN how ELSE wclosed[r]]

RequestEnd(r) ==
  /\ Receiving(r, BodyFrames[r] + 1)
  /\ CloseWriteEnd({r} \cap inflight, "eof")
  /\ UNCHANGED <<stream, recv, cur, inflight, ctxDone, rclosed, sendMu, pc, writerVars,
                 readVars, sent>>

(* CancelRequest, which the edge sends once the request was forwarded. *)
CancelRequest(r) ==
  /\ Receiving(r, BodyFrames[r] + 2)
  /\ ctxDone' = ctxDone \cup ({r} \cap inflight)
  /\ CloseWriteEnd({r} \cap inflight, "err")
  /\ UNCHANGED <<stream, recv, cur, inflight, rclosed, sendMu, pc, writerVars, readVars,
                 sent>>

(* Ping is answered by the loop itself, under sendMu. *)
Ping ==
  /\ recv = "recv"
  /\ stream = "up"
  /\ recv' = "send"
  /\ UNCHANGED <<stream, cur, fed, inflight, pipeVars, sendMu, pc, writerVars, readVars, sent>>

Told == inflight

errSessionEnded == "err"

(* The deferred clean-up, under inflightMu: every registered request is cancelled
   and its pipe closed with an error, first at the write end and then at the read
   end, and the map is emptied.  A handler may read in between. *)
CleanUp ==
  /\ ctxDone' = ctxDone \cup Told
  /\ CloseWriteEnd(Told, errSessionEnded)
  /\ recv' = "closing"
  /\ UNCHANGED <<inflight, rclosed>>

CloseReadEnds ==
  /\ recv = "closing"
  /\ rclosed' = rclosed \cup Told
  /\ inflight' = {}
  /\ recv' = "returned"
  /\ UNCHANGED <<stream, cur, fed, ctxDone, wclosed, sendMu, pc, writerVars, readVars, sent>>

StreamEnds ==
  /\ recv = "recv"
  /\ stream = "down"
  /\ CleanUp
  /\ UNCHANGED <<stream, cur, fed, sendMu, pc, writerVars, readVars, sent>>

(* Losing the stream; Run's context, when it is the cause, cancels every
   request with it. *)
StreamFails ==
  /\ stream = "up"
  /\ stream' = "down"
  /\ ctxDone' \in {ctxDone, Requests}
  /\ UNCHANGED <<recv, cur, fed, inflight, wclosed, rclosed, sendMu, pc, writerVars,
                 readVars, sent>>

-----------------------------------------------------------------------------
(* send: stream.Send under sendMu.  It returns when flow control lets the frame
   through, or fails once the stream is lost. *)

ReceiverLocks ==
  /\ recv = "send"
  /\ sendMu = NoOne
  /\ sendMu' = Receiver
  /\ UNCHANGED <<recvVars, inflight, pipeVars, pc, writerVars, readVars, sent>>

(* The loop sends a ResponseError (cur is set) or a Pong; only a failed Pong
   ends the session. *)
ReceiverSends ==
  /\ sendMu = Receiver
  /\ sendMu' = NoOne
  /\ IF stream = "down" /\ cur = NoOne
     THEN CleanUp
     ELSE recv' = "recv" /\ UNCHANGED <<inflight, pipeVars>>
  /\ sent' = IF stream = "up" /\ cur # NoOne
             THEN [sent EXCEPT ![cur] = "ResponseError"] ELSE sent
  /\ cur' = NoOne
  /\ UNCHANGED <<stream, fed, pc, writerVars, readVars>>

HandlerLocks(r) ==
  /\ pc[r] = "send"
  /\ sendMu = NoOne
  /\ sendMu' = r
  /\ UNCHANGED <<recvVars, inflight, pipeVars, pc, writerVars, readVars, sent>>

(* After an error a call sends nothing more.  (Finish would still try
   ResponseEnd, on a stream that is lost.) *)
HandlerSends(r) ==
  /\ sendMu = r
  /\ sendMu' = NoOne
  /\ IF stream = "up"
     THEN /\ sent' = [sent EXCEPT ![r] = Head(todo[r])]
          /\ todo' = [todo EXCEPT ![r] = Tail(@)]
          /\ UNCHANGED sendErr
     ELSE /\ sendErr' = sendErr \cup {r}
          /\ todo' = [todo EXCEPT ![r] = <<>>]
          /\ UNCHANGED sent
  /\ Goto(r, IF todo'[r] = <<>> THEN exit[r] ELSE "send")
  /\ UNCHANGED <<recvVars, inflight, pipeVars, exit, wroteHeader, writes, readVars>>

-----------------------------------------------------------------------------
(* tunnelResponseWriter, called by the handler *)

NeedHeader(r) == r \notin wroteHeader

Header(r) == IF NeedHeader(r) THEN <<"ResponseStart">> ELSE <<>>

Call(r, frames, next) ==
  /\ pc[r] = "run"
  /\ todo' = [todo EXCEPT ![r] = frames]
  /\ exit' = [exit EXCEPT ![r] = next]
  /\ Goto(r, "send")
  /\ UNCHANGED <<recvVars, inflight, pipeVars, sendMu, sendErr, readVars, sent>>

(* WriteHeader, and Flush before the first Write. *)
WriteHeader(r) ==
  /\ NeedHeader(r)
  /\ Call(r, <<"ResponseStart">>, "run")
  /\ wroteHeader' = wroteHeader \cup {r}
  /\ UNCHANGED writes

(* Write; after a failed send it returns the error at once. *)
Write(r) ==
  /\ writes[r] < MaxWrites[r]
  /\ r \notin sendErr
  /\ Call(r, Header(r) \o <<"ResponseBody">>, "run")
  /\ wroteHeader' = wroteHeader \cup {r}
  /\ writes' = [writes EXCEPT ![r] = @ + 1]

(* The handler returns: Finish. *)
Finish(r) ==
  /\ Call(r, Header(r) \o <<"ResponseEnd">>, "close")
  /\ wroteHeader' = wroteHeader \cup {r}
  /\ UNCHANGED writes

(* The handler panics: Fail. *)
Fail(r) ==
  /\ Call(r, <<"ResponseError">>, "close")
  /\ UNCHANGED <<wroteHeader, writes>>

-----------------------------------------------------------------------------
(* What else a handler does, and the rest of serveRequest *)

HandlerWaits(r) ==
  /\ pc[r] = "run"
  /\ \/ bodyEnd[r] = "no" /\ Goto(r, "reading")
     \/ r \notin ctxDone /\ Goto(r, "waiting")
  /\ UNCHANGED <<recvVars, inflight, pipeVars, sendMu, writerVars, readVars, sent>>

(* bodyR.Read meets the loop's bodyW.Write. *)
ReadChunk(r) ==
  /\ pc[r] = "reading"
  /\ recv = "write" /\ cur = r
  /\ ~Broken(r)
  /\ got' = [got EXCEPT ![r] = Append(@, fed[r] - 1)]
  /\ recv' = "recv"
  /\ cur' = NoOne
  /\ Goto(r, "run")
  /\ UNCHANGED <<stream, fed, inflight, pipeVars, sendMu, writerVars, bodyEnd, sent>>

(* bodyR.Read on a pipe closed at either end.  A handler does not read again
   after the end of the body. *)
ReadEnds(r) ==
  /\ pc[r] = "reading"
  /\ Broken(r)
  /\ bodyEnd' = [bodyEnd EXCEPT ![r] = IF r \in rclosed THEN "err" ELSE wclosed[r]]
  /\ Goto(r, "run")
  /\ UNCHANGED <<recvVars, inflight, pipeVars, sendMu, writerVars, got, sent>>

ContextEnds(r) ==
  /\ pc[r] = "waiting"
  /\ r \in ctxDone
  /\ Goto(r, "run")
  /\ UNCHANGED <<recvVars, inflight, pipeVars, sendMu, writerVars, readVars, sent>>

(* serveRequest's deferred bodyR.Close and cancel. *)
CloseRequest(r) ==
  /\ pc[r] = "close"
  /\ rclosed' = rclosed \cup {r}
  /\ ctxDone' = ctxDone \cup {r}
  /\ Goto(r, "delete")
  /\ UNCHANGED <<recvVars, inflight, wclosed, sendMu, writerVars, readVars, sent>>

(* deleteRequest takes inflightMu, which the clean-up holds. *)
DeleteRequest(r) ==
  /\ pc[r] = "delete"
  /\ recv # "closing"
  /\ inflight' = inflight \ {r}
  /\ Goto(r, "done")
  /\ UNCHANGED <<recvVars, pipeVars, sendMu, writerVars, readVars, sent>>

-----------------------------------------------------------------------------
HandlerStep(r) ==
  \/ HandlerLocks(r) \/ WriteHeader(r) \/ Write(r) \/ Finish(r) \/ Fail(r)
  \/ HandlerWaits(r) \/ ReadEnds(r) \/ ContextEnds(r) \/ CloseRequest(r) \/ DeleteRequest(r)

RequestFrame(r) ==
  RequestStart(r) \/ BadRequest(r) \/ RequestBody(r) \/ RequestEnd(r) \/ CancelRequest(r)

ReceiverStep == BodyWriteFails \/ StreamEnds \/ CloseReadEnds \/ ReceiverLocks

Next ==
  \/ \E r \in Requests : HandlerStep(r) \/ HandlerSends(r) \/ ReadChunk(r) \/ RequestFrame(r)
  \/ ReceiverStep \/ ReceiverSends \/ Ping
  \/ StreamFails

Spec == Init /\ [][Next]_vars

(* Once the stream is lost goroutines are scheduled and stream.Send returns; what
   happens before need not.  Neither the edge nor a handler that waits for its
   context must ever act. *)
Fairness ==
  /\ \A r \in Requests :
       WF_vars(stream = "down" /\ (HandlerStep(r) \/ ReadChunk(r) \/ HandlerSends(r)))
  /\ WF_vars(stream = "down" /\ (ReceiverStep \/ ReceiverSends))

FairSpec == Spec /\ Fairness

-----------------------------------------------------------------------------
(* The variables have their types, and a call of the writer sends two frames at
   most. *)
TypeOK ==
  /\ stream \in {"up", "down"}
  /\ recv \in RecvStates
  /\ cur \in Requests \cup {NoOne}
  /\ DOMAIN fed = Requests /\ \A r \in Requests : fed[r] \in 0..(BodyFrames[r] + 3)
  /\ inflight \subseteq Requests /\ ctxDone \subseteq Requests /\ rclosed \subseteq Requests
  /\ wclosed \in [Requests -> {"open", "eof", "err"}]
  /\ sendMu \in Requests \cup {NoOne, Receiver}
  /\ pc \in [Requests -> HandlerStates]
  /\ exit \in [Requests -> {"run", "close"}]
  /\ \A r \in Requests : Len(todo[r]) <= 2
  /\ wroteHeader \subseteq Requests /\ sendErr \subseteq Requests
  /\ DOMAIN writes = Requests /\ \A r \in Requests : writes[r] \in 0..MaxWrites[r]
  /\ bodyEnd \in [Requests -> {"no", "eof", "err"}]

Protocol == INSTANCE ResponseProtocol

(* Whatever a handler does, and wherever the stream breaks, the frames of each
   response follow the protocol the edge relies on: one ResponseStart first,
   one terminal frame last. *)
KeepsProtocol == Protocol!Spec

(* A handler that reads io.EOF has read the whole request body: cancellation
   and the end of the session reach it as errors, never as a short body. *)
NoFalseEOF ==
  \A r \in Requests :
    /\ got[r] = [i \in 1..Len(got[r]) |-> i]
    /\ bodyEnd[r] = "eof" => Len(got[r]) = BodyFrames[r]

(* The receive loop hands a chunk to a handler that waits for a context only
   the loop itself would cancel. *)
MutualWait == recv = "write" /\ pc[cur] = "waiting" /\ cur \notin ctxDone

(* When the stream is lost the session ends and every handler returns, the one
   exception being a handler that waits, unreading, for its context. *)
SessionTearsDown ==
  stream = "down" ~>
    (recv = "returned" /\ \A r \in Requests : pc[r] \in {"none", "done"}) \/ MutualWait

(* "The client automatically reconnects on disconnect" (README.md): runSession
   returns after the stream is lost, which is when Run dials again. *)
ReconnectsOnDisconnect == stream = "down" ~> recv = "returned"
==============================================================================
