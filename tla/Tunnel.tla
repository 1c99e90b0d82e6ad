------------------------------- MODULE Tunnel -------------------------------
(***************************************************************************)
(* The whole tunnel for plain HTTP requests: the edge's data plane         *)
(* (EdgeStream) and a client's session (ClientSession) joined over one     *)
(* gRPC stream.  What was environment in either module is the other one    *)
(* here; what remains outside are the browsers, the application's          *)
(* handlers, and the network, which may fail for each side at a different  *)
(* time.                                                                   *)
(*                                                                         *)
(* stream.Send and the Recv that takes its frame are one step, which shows *)
(* the back pressure of flow control at its tightest: frames in transit    *)
(* are frames still in the sender's queue.  A frame sent by a side that    *)
(* has not yet noticed the loss of the stream is lost.                     *)
(***************************************************************************)
EXTENDS EdgeStream

CONSTANTS
  NoOne, Receiver,  \* as in ClientSession
  MaxWrites         \* MaxWrites[r]: bound, calls of Write by the handler

ASSUME TunnelAssumption ==
  /\ NoOne \notin Requests /\ Receiver \notin Requests /\ NoOne # Receiver
  /\ MaxWrites \in [Requests -> Nat]
  /\ \A r \in Requests : MaxWrites[r] <= MaxChunks

VARIABLES cstream, loop, cur, fed, cinflight, ctxDone, wclosed, rclosed, sendMu, app, exit, todo,
          wroteHeader, sendErr, writes, got, bodyEnd, sent

Client == INSTANCE ClientSession
            WITH stream <- cstream, recv <- loop, inflight <- cinflight, pc <- app

clientState == <<cstream, loop, cur, fed, cinflight, ctxDone, wclosed, rclosed, sendMu, app, exit,
                 todo, wroteHeader, sendErr, writes, got, bodyEnd, sent>>
tunnelVars  == <<vars, clientState>>

TunnelInit == Init /\ Client!Init

-----------------------------------------------------------------------------
(* The edge by itself, and its browsers.  Heartbeats end with the first notice of a
   loss: bound. *)
EdgeAlone ==
  /\ \/ \E r \in Requests : TryStart(r) \/ ReadBody(r) \/ HandlerStep(r) \/ ChunkWritten(r)
     \/ ReceiverStep \/ TakeFrame \/ SendExits
     \/ stream = "up" /\ cstream = "up" /\ Heartbeat
     \/ HeartbeatExits
  /\ UNCHANGED clientState

(* The client by itself. *)
ClientAlone ==
  /\ \/ \E r \in Requests : Client!HandlerStep(r) \/ Client!ReadChunk(r)
     \/ Client!BodyWriteFails \/ Client!StreamEnds \/ Client!CloseReadEnds
     \/ Client!ReceiverLocks
  /\ UNCHANGED vars

(* A frame of the edge reaches the receive loop. *)
Takes(r, kind) ==
  \/ kind = "RequestStart" /\ Client!RequestStart(r)
  \/ kind = "RequestBody" /\ Client!RequestBody(r)
  \/ kind = "RequestEnd" /\ Client!RequestEnd(r)
  \/ kind = "CancelRequest" /\ Client!CancelRequest(r)
  \/ kind = "Ping" /\ Client!Ping

EdgeSends ==
  /\ Sent
  /\ \/ stream = "up" /\ Takes(inSend[1].id, inSend[1].kind)
     \/ (stream = "down" \/ cstream = "down") /\ UNCHANGED clientState

(* A frame of the client reaches the receiving goroutine. *)
Receives(r, kind) ==
  \/ kind = "ResponseStart" /\ ReceiveStart(r)
  \/ kind = "ResponseBody" /\ ReceiveBody(r)
  \/ kind = "ResponseEnd" /\ ReceiveEnd(r, "end")
  \/ kind = "ResponseError" /\ ReceiveEnd(r, "error")

ClientSends(r) ==
  /\ Client!HandlerSends(r)
  /\ \/ cstream = "up" /\ Receives(r, Head(todo[r]))
     \/ (stream = "down" \/ cstream = "down") /\ UNCHANGED vars

(* The answer to a Ping, which the edge ignores. *)
PongSent ==
  /\ Client!ReceiverSends
  /\ \/ stream = "down" \/ cstream = "down"
     \/ recv = "recv" /\ held = <<>>
  /\ UNCHANGED vars

(* One side notices that the stream is lost.  What it does then, and what the
   other does when it notices too, no longer depends on each other: bound.  A
   stream that has carried a heartbeat is not lost: bound. *)
Loss ==
  /\ stream = "up" /\ cstream = "up" /\ pings = MaxPings
  /\ \/ StreamFails /\ stream' = "down" /\ UNCHANGED clientState
     \/ Client!StreamFails /\ UNCHANGED vars

(* A browser leaves, or breaks its body off. *)
Leaves(r) == (BrowserGone(r) \/ BodyReadFails(r)) /\ UNCHANGED clientState

Progress ==
  \/ EdgeAlone \/ ClientAlone \/ EdgeSends \/ PongSent
  \/ \E r \in Requests : ClientSends(r)

TunnelNext == Progress \/ Loss \/ \E r \in Requests : Leaves(r)

TunnelSpec == TunnelInit /\ [][TunnelNext]_tunnelVars

-----------------------------------------------------------------------------
(* The application's handler takes a request body for complete only when the
   browser's body was read to its end: one that broke off at the edge, in the
   tunnel or in the clean-up reaches the handler as an error, or never ends. *)
UploadTruthful ==
  \A r \in Requests :
    /\ Len(got[r]) < sentFrames[r] \/ got[r] = <<>>
    /\ got[r] = FirstChunks(Len(got[r]))
    /\ bodyEnd[r] = "eof" => sentFrames[r] = LastFrame(r) + 1 /\ Len(got[r]) = BodyFrames[r]

(* What the browser gets of a response body is what the handler wrote, in order;
   and all of it when the handler returned and the edge was told so, wherever the
   end of the response overtakes its chunks. *)
DownloadTruthful ==
  \A r \in Requests :
    /\ received[r] = FirstChunks(Len(received[r])) /\ Len(received[r]) <= writes[r]
    /\ SeesEnd(r) /\ hdr[r] = "ok" /\ cause[r] = "end" => Len(received[r]) = writes[r]

AtRest ==
  /\ \A r \in Requests : pc[r] = "returned" /\ app[r] \in {"none", "done"}
  /\ held = <<>>
  /\ loop \in {"recv", "returned"}

(* Every goroutine waits for another one: the edge's handler to queue more of the
   request, the sender for the client's loop, the loop for the application to
   read, the application for its frame to be taken, the receiver for room in the
   queue of a response that its handler does not read yet. *)
WaitCycle ==
  /\ Jammed
  /\ send = "sending"
  /\ loop = "send" \/ (loop = "write" /\ app[cur] = "send")

Told(r, kind) == \E i \in DOMAIN wire[r] : wire[r][i].kind = kind

(* The application waits for its context, or for the rest of a body, and the
   edge's handler has left without a word: while it forwarded the body nothing
   is sent, and later CancelRequest is dropped when the queue is full. *)
Forgotten(r) ==
  /\ pc[r] = "returned" /\ ~Told(r, "CancelRequest")
  /\ \/ app[r] = "waiting"
     \/ app[r] = "reading" /\ ~Told(r, "RequestEnd")

(* The application waits for its context though the browser is still there. *)
Idles(r) == app[r] = "waiting" /\ pc[r] # "returned"

(* What the other side of the stream takes: the client's loop a frame of the edge,
   the edge's receiver, when its hands are free, a frame of the client. *)
Expects(r, kind) ==
  CASE kind = "RequestStart"  -> fed[r] = 0
    [] kind = "RequestBody"   -> fed[r] \in 1..BodyFrames[r]
    [] kind = "RequestEnd"    -> fed[r] = BodyFrames[r] + 1
    [] kind = "CancelRequest" -> fed[r] = BodyFrames[r] + 2
    [] OTHER                  -> TRUE

Accepts(r, kind) ==
  /\ wire[r] # <<>>
  /\ CASE kind = "ResponseStart" -> reply[r] = "start"
       [] kind = "ResponseBody"  -> reply[r] = "body" /\ chunks[r] < MaxChunks
       [] OTHER                  -> reply[r] # "over"

(* While the stream is up neither side sends a frame that the other would not
   expect next. *)
FramesFit ==
  stream = "up" /\ cstream = "up" =>
    /\ send = "sending" => Expects(inSend[1].id, inSend[1].kind)
    /\ \A r \in Requests : sendMu = r => Accepts(r, Head(todo[r]))

(* What a goroutine waits for: a ServeHTTP handler, for room in the queue or for
   a frame of the response; *)
EdgeWaits(r) ==
  \/ pc[r] = "fwd" /\ ~Room
  \/ pc[r] = "headers" /\ ~start[r] /\ cause[r] = "none"
  \/ pc[r] = "stream" /\ body[r] = <<>> /\ cause[r] = "none"
  \/ pc[r] = "returned"

(* the edge's receiver, for a frame, or for room in a response's channel; *)
ReceiverWaits ==
  held # <<>> =>
    /\ cause[held[1].id] = "none"
    /\ IF held[1].chunk = 0 THEN start[held[1].id] ELSE Len(body[held[1].id]) = BodyDepth

(* its sender, for a frame, or for the client's loop; *)
SenderWaits ==
  IF send = "sending"
  THEN ~(loop = "recv" /\ Expects(inSend[1].id, inSend[1].kind))
  ELSE outbound = <<>>

(* one of the client's goroutines, for the mutex, or for the edge's receiver; *)
SendWaits(g) ==
  IF sendMu = g
  THEN ~(held = <<>> /\ (g \in Requests => Accepts(g, Head(todo[g]))))
  ELSE sendMu # NoOne

(* the client's loop, for a frame, or for a handler to read; *)
LoopWaits ==
  \/ loop = "recv"
  \/ loop = "write" /\ app[cur] # "reading" /\ ~Client!Broken(cur)
  \/ loop = "send" /\ SendWaits(Receiver)

(* an application's handler, for its body or its context. *)
AppWaits(r) ==
  \/ app[r] \in {"none", "done"}
  \/ app[r] = "reading" /\ ~Client!Broken(r)
  \/ app[r] = "waiting" /\ r \notin ctxDone
  \/ app[r] = "send" /\ SendWaits(r)

AllWait ==
  /\ ReceiverWaits /\ SenderWaits /\ LoopWaits
  /\ \A r \in Requests : EdgeWaits(r) /\ AppWaits(r)

KnownWait ==
  \/ AtRest \/ WaitCycle \/ Stuck
  \/ \E r \in Requests : Forgotten(r) \/ Idles(r)

(* The wait cycle while the channel of the held response is full and the pipe that
   the loop writes to is whole: neither side has noticed anything wrong. *)
Deadlock ==
  /\ stream = "up" /\ cstream = "up"
  /\ WaitCycle /\ ReceiverWaits
  /\ loop = "write" => ~Client!Broken(cur)
  /\ held[1].id \notin gone

(* Only the loss of the stream or the browser's leaving ends it: no other request,
   heartbeat or step of the application does. *)
DeadlockStays == [][Deadlock /\ ~Loss /\ ~Leaves(held[1].id) => Deadlock']_tunnelVars

(* When no step is possible every goroutine waits as said above. *)
StoppedWaits == stream = "up" /\ cstream = "up" /\ ~ENABLED Progress => AllWait

(* Goroutines that all wait do so in one of the known ways. *)
WaitsKnown == stream = "up" /\ cstream = "up" /\ AllWait => KnownWait

(* While the stream is up nothing stops for good but what is over: the whole tunnel
   is at rest, or one of the code's known waits holds, the wait cycle of a large
   request and a large response, a receiver left alone with a browser's response
   (Stuck), or a handler of the application that nobody tells of a browser's
   leaving. *)
Standstill == StoppedWaits /\ WaitsKnown
=============================================================================
