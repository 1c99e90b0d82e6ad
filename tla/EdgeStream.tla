----------------------------- MODULE EdgeStream -----------------------------
(***************************************************************************)
(* The data plane of one tunnel session in server/server.go: the goroutine *)
(* of Connect that receives client frames, the one that sends, the         *)
(* heartbeat, a newer Connect call that may replace the session, and one   *)
(* ServeHTTP handler per request, all meeting at bounded channels.         *)
(*                                                                         *)
(* The tunnel client and the browsers are the environment.  The client     *)
(* answers a request it was sent with ResponseStart, any number of         *)
(* ResponseBody chunks up to MaxChunks and ResponseEnd, or breaks off with *)
(* ResponseError at any point; frames of different requests interleave     *)
(* freely.  A frame is produced when the edge receives it, which stands    *)
(* for any delay in the network.  A browser sends its request body and     *)
(* reads the response slowly, and may go.                                  *)
(* The frames of a request, and the chunks of a response, are numbered, so *)
(* that loss and reordering show.  The limits on requests in flight are    *)
(* the subject of EdgeSessions.                                            *)
(***************************************************************************)
EXTENDS Integers, Sequences

CONSTANTS
  Requests,       \* ServeHTTP handlers, naming their request ids
  NoRequest,      \* the "request" of a Ping
  OutboundDepth,  \* sessionOutboundQueueDepth (16)
  BodyDepth,      \* responseBodyQueueDepth (4)
  BodyFrames,     \* BodyFrames[r]: chunks of the request body
  MaxChunks,      \* bound: chunks of a response body
  MaxPings        \* bound: heartbeats

ASSUME StreamAssumption ==
  /\ NoRequest \notin Requests
  /\ OutboundDepth \in Nat \ {0}
  /\ BodyDepth \in Nat \ {0}
  /\ BodyFrames \in [Requests -> Nat]
  /\ {MaxChunks, MaxPings} \subseteq Nat

VARIABLES
  outbound,   \* session.outbound: frames [id, kind, n], the n-th of their request
  once,       \* session.once and done: "open", "closing" (done closed) or "closed"
  inflight,   \* session.inflight, the keys
  start,      \* responseState.start holds a ResponseStart
  body,       \* responseState.body
  cause,      \* responseState.done: "none" while open, else "end" or "error"
  errQ,       \* responseState.err holds an error
  pc,         \* where a handler is
  sentFrames, \* frames forwardRequest has enqueued
  hdr,        \* what the browser got: "none", "ok" (the client's header) or "502"
  received,   \* body chunks written to the browser
  writing,    \* the chunk a handler is writing, if any
  gone,       \* browsers that went away: the request context is done
  stream,     \* the gRPC stream: "up", "eof" (the client half-closed) or "down"
  recv,       \* where the receiving goroutine is
  held,       \* the frame it is delivering, if any
  send,       \* where the sending goroutine is
  inSend,     \* the frame it is sending, if any
  wire,       \* frames the client was sent, per request
  reply,      \* the client's next frame for a request: "start", "body" or "over"
  chunks,     \* body chunks the client has sent
  replacer,   \* where the Connect call that replaces this session is
  pings       \* heartbeats to come; 0 once the heartbeat goroutine has returned

rsVars      == <<start, body, cause, errQ>>
handlerVars == <<pc, sentFrames, hdr, received, writing>>
clientVars  == <<reply, chunks>>
sendVars    == <<send, inSend, wire>>
connVars    == <<once, stream, recv, held, sendVars, clientVars, replacer, pings>>
vars == <<outbound, once, inflight, rsVars, handlerVars, gone, stream, recv, held, sendVars,
          clientVars, replacer, pings>>

HandlerStates == {"idle", "fwd", "read", "headers", "stream", "write", "drain", "drainWrite",
                  "returning", "returned"}
PingFrame == [id |-> NoRequest, kind |-> "Ping", n |-> 0]
Frames ==
  [id : Requests, kind : {"RequestStart", "RequestBody", "RequestEnd", "CancelRequest"}, n : Nat]
    \cup {PingFrame}

Init ==
  /\ outbound = <<>>
  /\ once = "open"
  /\ inflight = {}
  /\ start = [r \in Requests |-> FALSE]
  /\ body = [r \in Requests |-> <<>>]
  /\ cause = [r \in Requests |-> "none"]
  /\ errQ = [r \in Requests |-> FALSE]
  /\ pc = [r \in Requests |-> "idle"]
  /\ sentFrames = [r \in Requests |-> 0]
  /\ hdr = [r \in Requests |-> "none"]
  /\ received = [r \in Requests |-> <<>>]
  /\ writing = [r \in Requests |-> <<>>]
  /\ gone = {}
  /\ stream = "up"
  /\ recv = "recv"
  /\ held = <<>>
  /\ send = "run"
  /\ inSend = <<>>
  /\ wire = [r \in Requests |-> <<>>]
  /\ reply = [r \in Requests |-> "start"]
  /\ chunks = [r \in Requests |-> 0]
  /\ replacer = "idle"
  /\ pings = MaxPings

sessDone   == once # "open"
Room       == Len(outbound) < OutboundDepth
Goto(r, l) == pc' = [pc EXCEPT ![r] = l]

(* The next frame of r. *)
NewFrame(r, kind) == [id |-> r, kind |-> kind, n |-> sentFrames[r] + 1]

(* Faulty versions of definitions below, each a plausible slip in the code. *)
BadGateway_Silent(r)    == Goto(r, "returning") /\ UNCHANGED hdr
CancelRequest_Blocks(r) == Room /\ outbound' = Append(outbound, NewFrame(r, "CancelRequest"))
Drained_TooSoon(r)      == TRUE
FrameOf_EndFirst(r)     == IF sentFrames[r] = 0 THEN "RequestStart" ELSE "RequestEnd"
Unblocked_Never(r)      == FALSE

-----------------------------------------------------------------------------
(* forwardRequest *)

(* tryStart.  The handler got the session earlier, so done may be closed. *)
TryStart(r) ==
  /\ pc[r] = "idle"
  /\ inflight' = inflight \cup {r}
  /\ Goto(r, "fwd")
  /\ UNCHANGED <<outbound, rsVars, sentFrames, hdr, received, writing, gone, connVars>>

LastFrame(r) == BodyFrames[r] + 1

FrameOf(r) ==
  CASE sentFrames[r] = 0            -> "RequestStart"
    [] sentFrames[r] = LastFrame(r) -> "RequestEnd"
    [] OTHER                        -> "RequestBody"

(* sendFrameCtx, the queue has room.  Select picks any ready case, so this may
   happen although done is closed or the browser has gone.  What follows is
   r.Body.Read, which may also give the end of the body with its last chunk. *)
Forward(r) ==
  /\ pc[r] = "fwd"
  /\ Room
  /\ outbound' = Append(outbound, NewFrame(r, FrameOf(r)))
  /\ sentFrames' = [sentFrames EXCEPT ![r] = @ + 1]
  /\ Goto(r, IF sentFrames[r] = LastFrame(r) THEN "headers" ELSE "read")
  /\ UNCHANGED <<inflight, rsVars, hdr, received, writing, gone, connVars>>

(* The browser has sent another chunk of its body, or the end. *)
ReadBody(r) ==
  /\ pc[r] = "read"
  /\ Goto(r, "fwd")
  /\ UNCHANGED <<outbound, inflight, rsVars, sentFrames, hdr, received, writing, gone, connVars>>

(* http.Error or writeBadGateway, then return. *)
BadGateway(r) ==
  /\ hdr' = [hdr EXCEPT ![r] = "502"]
  /\ Goto(r, "returning")

(* sendFrameCtx reports errSessionClosed. *)
ForwardFails(r) ==
  /\ pc[r] = "fwd"
  /\ sessDone
  /\ BadGateway(r)
  /\ UNCHANGED <<outbound, inflight, rsVars, sentFrames, received, writing, gone,
                 connVars>>

(* Reading the request body fails. *)
BodyReadFails(r) ==
  /\ pc[r] = "read"
  /\ BadGateway(r)
  /\ UNCHANGED <<outbound, inflight, rsVars, sentFrames, received, writing, gone,
                 connVars>>

(* The context is done: return without a word to the client.  The body of a browser
   that has gone is not waited for. *)
ForwardCancelled(r) ==
  /\ pc[r] \in {"fwd", "read"}
  /\ r \in gone
  /\ Goto(r, "returning")
  /\ UNCHANGED <<outbound, inflight, rsVars, sentFrames, hdr, received, writing, gone,
                 connVars>>

-----------------------------------------------------------------------------
(* ServeHTTP: waiting for the response header *)

WriteHeader(r) ==
  /\ start' = [start EXCEPT ![r] = FALSE]
  /\ hdr' = [hdr EXCEPT ![r] = "ok"]
  /\ Goto(r, "stream")
  /\ UNCHANGED errQ

TakeErr(r) ==
  /\ errQ' = [errQ EXCEPT ![r] = FALSE]
  /\ BadGateway(r)
  /\ UNCHANGED start

ConsumeStart(r) == start[r]

AwaitHeaders(r) ==
  /\ pc[r] = "headers"
  /\ \/ start[r] /\ WriteHeader(r)
     \/ errQ[r] /\ TakeErr(r)
     \/ /\ cause[r] # "none"
        /\ IF ConsumeStart(r) THEN WriteHeader(r) ELSE TakeErr(r)
  /\ UNCHANGED <<outbound, inflight, body, cause, sentFrames, received, writing, gone,
                 connVars>>

-----------------------------------------------------------------------------
(* ServeHTTP: streaming the response body *)

(* A chunk is taken from the queue and handed to w.Write, which takes as long
   as the browser likes. *)
TakeChunk(r) ==
  /\ pc[r] \in {"stream", "drain"}
  /\ body[r] # <<>>
  /\ writing' = [writing EXCEPT ![r] = <<Head(body[r])>>]
  /\ body' = [body EXCEPT ![r] = Tail(@)]
  /\ Goto(r, IF pc[r] = "stream" THEN "write" ELSE "drainWrite")
  /\ UNCHANGED <<outbound, inflight, start, cause, errQ, sentFrames, hdr, received,
                 gone, connVars>>

(* The browser's connection accepts the chunk. *)
ChunkWritten(r) ==
  /\ pc[r] \in {"write", "drainWrite"}
  /\ received' = [received EXCEPT ![r] = @ \o writing[r]]
  /\ writing' = [writing EXCEPT ![r] = <<>>]
  /\ Goto(r, IF pc[r] = "write" THEN "stream" ELSE "drain")
  /\ UNCHANGED <<outbound, inflight, rsVars, sentFrames, hdr, gone, connVars>>

(* cancelRequest: best effort, never blocks. *)
CancelRequest(r) ==
  \/ /\ Room
     /\ outbound' = Append(outbound, NewFrame(r, "CancelRequest"))
  \/ /\ sessDone \/ ~Room
     /\ UNCHANGED outbound

(* The request context is done, or a write to the gone browser fails. *)
Cancelled(r) ==
  /\ pc[r] \in {"headers", "stream", "write", "drainWrite"}
  /\ r \in gone
  /\ CancelRequest(r)
  /\ writing' = [writing EXCEPT ![r] = <<>>]
  /\ Goto(r, "returning")
  /\ UNCHANGED <<inflight, rsVars, sentFrames, hdr, received, gone, connVars>>

(* done is seen: from now on only what is queued is written. *)
SeeDone(r) ==
  /\ pc[r] = "stream"
  /\ cause[r] # "none"
  /\ Goto(r, "drain")
  /\ UNCHANGED <<outbound, inflight, rsVars, sentFrames, hdr, received, writing, gone,
                 connVars>>

Drained(r) == body[r] = <<>>

(* The queue is drained; a reported error is logged and the handler returns as
   it does after a complete response. *)
EndOfBody(r) ==
  /\ pc[r] = "drain"
  /\ Drained(r)
  /\ errQ' = [errQ EXCEPT ![r] = FALSE]
  /\ Goto(r, "returning")
  /\ UNCHANGED <<outbound, inflight, start, body, cause, sentFrames, hdr, received,
                 writing, gone, connVars>>

(* The deferred finishRequest.  It closes nothing. *)
FinishRequest(r) ==
  /\ pc[r] = "returning"
  /\ inflight' = inflight \ {r}
  /\ Goto(r, "returned")
  /\ UNCHANGED <<outbound, rsVars, sentFrames, hdr, received, writing, gone,
                 connVars>>

(* A browser goes away. *)
BrowserGone(r) ==
  /\ pc[r] \notin {"idle", "returned"}
  /\ gone' = gone \cup {r}
  /\ r \notin gone
  /\ UNCHANGED <<outbound, inflight, rsVars, handlerVars, connVars>>

-----------------------------------------------------------------------------
(* Connect: the receiving goroutine *)

Lookup(r) == r \in inflight

(* fail and finish: the first of them closes responseState.done. *)
Close(r, how) ==
  IF Lookup(r) /\ cause[r] = "none"
  THEN /\ cause' = [cause EXCEPT ![r] = how]
       /\ errQ' = [errQ EXCEPT ![r] = (how = "error")]
  ELSE UNCHANGED <<cause, errQ>>

Hold(r, n) ==
  IF Lookup(r) THEN held' = <<[id |-> r, chunk |-> n]>> ELSE UNCHANGED held

Receiving(r) ==
  /\ recv = "recv" /\ held = <<>>
  /\ stream = "up"
  /\ wire[r] # <<>>          \* the client knows the request
  /\ UNCHANGED <<outbound, once, inflight, start, body, handlerVars, gone, stream, recv,
                 sendVars, replacer, pings>>

(* handleClientFrame looks the request up; an unknown one is ignored. *)
ReceiveStart(r) ==
  /\ Receiving(r)
  /\ reply[r] = "start"
  /\ reply' = [reply EXCEPT ![r] = "body"]
  /\ Hold(r, 0)
  /\ UNCHANGED <<cause, errQ, chunks>>

ReceiveBody(r) ==
  /\ Receiving(r)
  /\ reply[r] = "body"
  /\ chunks[r] < MaxChunks
  /\ chunks' = [chunks EXCEPT ![r] = @ + 1]
  /\ Hold(r, chunks[r] + 1)
  /\ UNCHANGED <<cause, errQ, reply>>

(* ResponseEnd, or ResponseError. *)
ReceiveEnd(r, how) ==
  /\ Receiving(r)
  /\ reply[r] # "over"
  /\ reply' = [reply EXCEPT ![r] = "over"]
  /\ Close(r, how)
  /\ UNCHANGED <<held, chunks>>

DeliverBody(r, n) == body' = [body EXCEPT ![r] = Append(@, n)]

(* The channel has room for the frame. *)
Deliver ==
  /\ held # <<>>
  /\ LET r == held[1].id IN
       \/ /\ held[1].chunk = 0
          /\ ~start[r]
          /\ start' = [start EXCEPT ![r] = TRUE]
          /\ UNCHANGED body
       \/ /\ held[1].chunk > 0
          /\ Len(body[r]) < BodyDepth
          /\ DeliverBody(r, held[1].chunk)
          /\ UNCHANGED start
  /\ held' = <<>>
  /\ UNCHANGED <<outbound, once, inflight, cause, errQ, handlerVars, gone, stream, recv,
                 sendVars, clientVars, replacer, pings>>

Unblocked(r) == cause[r] # "none"

(* responseState.done is closed: the frame is dropped. *)
Discard ==
  /\ held # <<>>
  /\ Unblocked(held[1].id)
  /\ held' = <<>>
  /\ UNCHANGED <<outbound, once, inflight, rsVars, handlerVars, gone, stream, recv,
                 sendVars, clientVars, replacer, pings>>

(* stream.Recv reports the end of the stream. *)
StreamEnds ==
  /\ recv = "recv" /\ held = <<>>
  /\ stream # "up"
  /\ recv' = "shutdown"
  /\ UNCHANGED <<outbound, once, inflight, rsVars, handlerVars, gone, stream, held,
                 sendVars, clientVars, replacer, pings>>

(* sess.shutdown, up to failAll; a shutdown that comes second waits for the first. *)
CloseDone ==
  /\ recv = "shutdown"
  /\ \/ once = "open" /\ once' = "closing" /\ recv' = "failAll"
     \/ once = "closed" /\ recv' = "waitSend" /\ UNCHANGED once
  /\ UNCHANGED <<outbound, inflight, rsVars, handlerVars, gone, stream, held, sendVars,
                 clientVars, replacer, pings>>

failAll ==
  LET hit == {r \in inflight : cause[r] = "none"} IN
  /\ cause' = [r \in Requests |-> IF r \in hit THEN "error" ELSE cause[r]]
  /\ errQ' = [r \in Requests |-> r \in hit \/ errQ[r]]
  /\ inflight' = {}
  /\ once' = "closed"
  /\ UNCHANGED <<outbound, start, body, handlerVars, gone, stream, held, sendVars,
                 clientVars, pings>>

FailAll ==
  /\ recv = "failAll"
  /\ failAll
  /\ recv' = "waitSend"
  /\ UNCHANGED replacer

(* Connect waits for the sending goroutine and returns. *)
ConnectReturns ==
  /\ recv = "waitSend"
  /\ send = "ended"
  /\ recv' = "returned"
  /\ UNCHANGED <<outbound, once, inflight, rsVars, handlerVars, gone, stream, held,
                 sendVars, clientVars, replacer, pings>>

(* A newer Connect call takes the host over and shuts this session down. *)
Replace ==
  /\ replacer = "idle"
  /\ once = "open"
  /\ once' = "closing"
  /\ replacer' = "failAll"
  /\ UNCHANGED <<outbound, inflight, rsVars, handlerVars, gone, stream, recv, held,
                 sendVars, clientVars, pings>>

ReplaceFailAll ==
  /\ replacer = "failAll"
  /\ failAll
  /\ replacer' = "returned"
  /\ UNCHANGED recv

-----------------------------------------------------------------------------
(* Connect: the sending goroutine and the heartbeat *)

TakeFrame ==
  /\ send = "run"
  /\ outbound # <<>>
  /\ inSend' = <<Head(outbound)>>
  /\ outbound' = Tail(outbound)
  /\ send' = "sending"
  /\ UNCHANGED <<once, inflight, rsVars, handlerVars, gone, stream, recv, held, wire,
                 clientVars, replacer, pings>>

(* stream.Send returns once flow control lets the frame through, or fails. *)
Sent ==
  /\ send = "sending"
  /\ inSend' = <<>>
  /\ IF stream = "down"
     THEN send' = "ended" /\ UNCHANGED wire
     ELSE /\ send' = "run"
          /\ wire' = [r \in Requests |->
                        IF r = inSend[1].id THEN Append(wire[r], inSend[1]) ELSE wire[r]]
  /\ UNCHANGED <<outbound, once, inflight, rsVars, handlerVars, gone, stream, recv, held,
                 clientVars, replacer, pings>>

SendExits ==
  /\ send = "run"
  /\ sessDone \/ stream = "down"
  /\ send' = "ended"
  /\ UNCHANGED <<outbound, once, inflight, rsVars, handlerVars, gone, stream, recv, held,
                 inSend, wire, clientVars, replacer, pings>>

(* A tick: the Ping is skipped when the queue is full. *)
Heartbeat ==
  /\ pings > 0
  /\ Room
  /\ outbound' = Append(outbound, PingFrame)
  /\ pings' = pings - 1
  /\ UNCHANGED <<once, inflight, rsVars, handlerVars, gone, stream, recv, held, sendVars,
                 clientVars, replacer>>

HeartbeatExits ==
  /\ pings > 0
  /\ sessDone \/ stream = "down"
  /\ pings' = 0
  /\ UNCHANGED <<outbound, once, inflight, rsVars, handlerVars, gone, stream, recv, held,
                 sendVars, clientVars, replacer>>

(* The client half-closes the stream, or the connection is lost. *)
StreamFails ==
  /\ \/ stream = "up" /\ stream' \in {"eof", "down"}
     \/ stream = "eof" /\ stream' = "down"
  /\ UNCHANGED <<outbound, once, inflight, rsVars, handlerVars, gone, recv, held, sendVars,
                 clientVars, replacer, pings>>

-----------------------------------------------------------------------------
HandlerStep(r) ==
  \/ Forward(r) \/ ForwardFails(r) \/ ForwardCancelled(r) \/ AwaitHeaders(r)
  \/ TakeChunk(r) \/ Cancelled(r) \/ SeeDone(r) \/ EndOfBody(r) \/ FinishRequest(r)

ClientFrame(r) ==
  ReceiveStart(r) \/ ReceiveBody(r) \/ \E how \in {"end", "error"} : ReceiveEnd(r, how)

ReceiverStep == Deliver \/ Discard \/ StreamEnds \/ CloseDone \/ FailAll \/ ConnectReturns

Next ==
  \/ \E r \in Requests : \/ TryStart(r) \/ HandlerStep(r) \/ ChunkWritten(r)
                          \/ ReadBody(r) \/ BodyReadFails(r)
                          \/ BrowserGone(r) \/ ClientFrame(r)
  \/ ReceiverStep
  \/ Replace \/ ReplaceFailAll
  \/ TakeFrame \/ Sent \/ SendExits
  \/ Heartbeat \/ HeartbeatExits
  \/ StreamFails

Spec == Init /\ [][Next]_vars

(* Goroutines are scheduled, and a call on a lost stream returns.  A browser
   reads what it is sent or goes away, in finite time, but need not send the rest
   of its request: nothing limits the time of r.Body.Read.  A client need not read
   the stream, nor send anything. *)
Fairness ==
  /\ \A r \in Requests : WF_vars(HandlerStep(r) \/ ChunkWritten(r))
  /\ WF_vars(ReceiverStep)
  /\ WF_vars(ReplaceFailAll)
  /\ WF_vars(TakeFrame \/ SendExits \/ (stream = "down" /\ Sent))

FairSpec == Spec /\ Fairness

-----------------------------------------------------------------------------
FirstChunks(n) == [i \in 1..n |-> i]

HeldFor(r) == held # <<>> /\ held[1].id = r

HeldChunk(r) ==
  IF HeldFor(r) /\ held[1].chunk > 0 THEN <<held[1].chunk>> ELSE <<>>

(* What has reached the edge of r's body and is not lost: written, being
   written, queued, or in the receiver's hands. *)
Relayed(r) == received[r] \o writing[r] \o body[r] \o HeldChunk(r)

(* net/http ends the response cleanly when a handler returns with the browser
   still there. *)
SeesEnd(r) == pc[r] = "returned" /\ r \notin gone

(* Through the receiver, the queue and the handler a response body keeps its
   order and loses nothing: to a browser that stays, what is relayed is a prefix
   of the body, and all of it that the client sent while the request is in the
   map; and a response that the client ended is whole when the handler returns,
   although select may see done before the chunks queued in front of it. *)
BodyConserved ==
  \A r \in Requests :
    /\ r \notin gone => Relayed(r) = FirstChunks(Len(Relayed(r)))
    /\ r \in inflight /\ (pc[r] # "returning" \/ r \notin gone) => Len(Relayed(r)) = chunks[r]
    /\ SeesEnd(r) /\ hdr[r] = "ok" /\ cause[r] = "end" => Len(received[r]) = chunks[r]

(* No handler returns to a live browser without having written a header, which
   net/http would turn into a bogus 200. *)
NoBogus200 == \A r \in Requests : SeesEnd(r) => hdr[r] # "none"

(* The i-th frame of a request, as the client expects them. *)
RequestFrame(r, i) ==
  [id   |-> r,
   kind |-> CASE i = 1                        -> "RequestStart"
              [] i \in 2 .. BodyFrames[r] + 1 -> "RequestBody"
              [] i = BodyFrames[r] + 2        -> "RequestEnd"
              [] OTHER                        -> "CancelRequest",
   n    |-> i]

(* The client is sent RequestStart, the chunks of the body in order, RequestEnd,
   and CancelRequest only after these, none twice and none left out, however
   handlers, heartbeat and cancellation share the queue. *)
RequestOrder ==
  \A r \in Requests :
    /\ Len(wire[r]) <= BodyFrames[r] + 3
    /\ \A i \in DOMAIN wire[r] : wire[r][i] = RequestFrame(r, i)

(* The handler has been given a reason to return: its browser has gone, or the
   response is over and the request was forwarded.  The reason does not go away. *)
MustReturn(r) ==
  /\ pc[r] # "returned"
  /\ r \in gone \/ (cause[r] # "none" /\ pc[r] \notin {"idle", "fwd", "read"})

(* The browser's going away, or the end of the response once the request was
   forwarded, is always followed by the return of the handler: none stays for ever
   with such a reason. *)
HandlersLeave == \A r \in Requests : []<>~MustReturn(r)

(* The receiver waits on a request whose handler has left, whose done no one can
   close any more and whose channel is full. *)
Stuck ==
  held # <<>> /\ LET r == held[1].id IN
    /\ pc[r] = "returned" /\ cause[r] = "none"
    /\ IF held[1].chunk = 0 THEN start[r] ELSE Len(body[r]) = BodyDepth

(* The receiver waits on a request whose handler waits for room in the outbound
   queue, and reads no response before the whole request is forwarded. *)
Jammed == held # <<>> /\ pc[held[1].id] = "fwd" /\ ~Room

(* Likewise, on a request whose handler waits for its browser to send the rest of
   the body. *)
SlowUpload == held # <<>> /\ pc[held[1].id] = "read"

(* The receiver gets past every frame in its hands, unless it waits in one of these
   three ways for ever, which it may even when the stream is lost, as only the
   receiver or a newer Connect call would shut the session down. *)
ReceiverFreed == []<>(held = <<>>) \/ <>[](Stuck \/ Jammed \/ SlowUpload)
=============================================================================
