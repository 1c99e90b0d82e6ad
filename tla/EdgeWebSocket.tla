---------------------------- MODULE EdgeWebSocket ----------------------------
(***************************************************************************)
(* One WebSocket upgrade through the edge (serveWebSocket in               *)
(* server/server.go): the HTTP handler up to the hijack, the relay loop    *)
(* and the browser reader after it, and the session's receiving goroutine, *)
(* which it shares with every other request of the session.                *)
(*                                                                         *)
(* The tunnel client is the environment and follows handleWebSocket of     *)
(* tunnel/client.go: it answers with ResponseStart 101 and then WsData and *)
(* WsClose, with a refusal (ResponseStart, body, ResponseEnd), or with     *)
(* ResponseError.  The session may be shut down at any step.  A browser    *)
(* that lets a write run into wsWriteTimeout is one that has gone.         *)
(* Payloads are numbered, so that loss and reordering show.                *)
(***************************************************************************)
EXTENDS Integers, Sequences, SequencesExt

CONSTANTS
  OutboundDepth,  \* sessionOutboundQueueDepth (16)
  BodyDepth,      \* responseBodyQueueDepth (4)
  WsDepth,        \* wsInboundQueueDepth (4)
  MaxUp,          \* bound: payloads from the browser
  MaxDown         \* bound: payloads, or body chunks, from the client

ASSUME WebSocketAssumption ==
  /\ {OutboundDepth, BodyDepth, WsDepth} \subseteq Nat \ {0}
  /\ {MaxUp, MaxDown} \subseteq Nat

VARIABLES
  once,        \* session.once and done: "open", "closing" (done closed) or "closed"
  outbound,    \* session.outbound: this request's frames <<kind, number>>
  send,        \* the session's sending goroutine: "run" or "ended"
  wire,        \* frames handed to stream.Send
  inflight,    \* the request is in session.inflight
  inWsMap,     \* the request is in session.wsMap
  start,       \* responseState.start holds the answer: "none", "101" or "refused"
  bodyLen,     \* chunks in responseState.body
  done,        \* responseState.done is closed
  fromClient,  \* wsState.fromClient
  wsDone,      \* wsState.done is closed
  pc,          \* where the handler is
  status,      \* what the browser was answered
  writing,     \* the payload being written to the browser, if any
  toBrowser,   \* payloads written to the browser
  conn,        \* the hijacked connection: "none", "open" or "closed"
  gone,        \* the browser went away
  reader,      \* where the goroutine that reads from the browser is
  up,          \* payloads read from the browser
  held,        \* the frame the receiving goroutine is delivering, if any
  client,      \* the client's turn: "start", "refused", "ws" or "over"
  down         \* payloads or body chunks the client has sent

sessVars    == <<once, send, wire>>
rsVars      == <<start, bodyLen, done>>
wsVars      == <<fromClient, wsDone>>
relayVars   == <<writing, toBrowser>>
readerVars  == <<reader, up>>
clientVars  == <<held, client, down>>
vars == <<sessVars, outbound, inflight, inWsMap, rsVars, wsVars, pc, status, relayVars, conn, gone,
          readerVars, clientVars>>

Init ==
  /\ once = "open" /\ send = "run" /\ outbound = <<>> /\ wire = <<>>
  /\ inflight = FALSE /\ inWsMap = FALSE
  /\ start = "none" /\ bodyLen = 0 /\ done = FALSE
  /\ fromClient = <<>> /\ wsDone = FALSE
  /\ pc = "idle" /\ status = "none"
  /\ writing = <<>> /\ toBrowser = <<>>
  /\ conn = "none" /\ gone = FALSE
  /\ reader = "none" /\ up = 0
  /\ held = <<>> /\ client = "start" /\ down = 0

sessDone == once # "open"
Room     == Len(outbound) < OutboundDepth

(* Faulty versions of definitions below, each a plausible slip in the code. *)
WsClosed_Kept       == wsDone
AfterClose_Again    == "sendClose"
AfterReadError_Done == "done"
Dispatched_Lossy(n) == <<n>>
AwaitEnds_Deaf      == done

(* A frame of this request; payloads have a number. *)
Enqueue(kind, n) == Room /\ outbound' = Append(outbound, <<kind, n>>)

-----------------------------------------------------------------------------
(* serveWebSocket up to the answer of the client *)

TryStart ==
  /\ pc = "idle"
  /\ inflight' = TRUE
  /\ pc' = "putWS"
  /\ UNCHANGED <<sessVars, outbound, inWsMap, rsVars, wsVars, status, relayVars, conn, gone,
                 readerVars, clientVars>>

PutWS ==
  /\ pc = "putWS"
  /\ inWsMap' = TRUE
  /\ pc' = "fwdStart"
  /\ UNCHANGED <<sessVars, outbound, inflight, rsVars, wsVars, status, relayVars, conn, gone,
                 readerVars, clientVars>>

(* forwardRequest of a request without a body. *)
Forward ==
  /\ \/ pc = "fwdStart" /\ Enqueue("RequestStart", 0) /\ pc' = "fwdEnd"
     \/ pc = "fwdEnd" /\ Enqueue("RequestEnd", 0) /\ pc' = "await"
  /\ UNCHANGED <<sessVars, inflight, inWsMap, rsVars, wsVars, status, relayVars, conn, gone,
                 readerVars, clientVars>>

ForwardFails ==
  /\ pc \in {"fwdStart", "fwdEnd"}
  /\ \/ sessDone /\ status' = "502"
     \/ gone /\ UNCHANGED status
  /\ pc' = "delWS"
  /\ UNCHANGED <<sessVars, outbound, inflight, inWsMap, rsVars, wsVars, relayVars, conn, gone,
                 readerVars, clientVars>>

(* The client's answer: an upgrade, or a refusal of which only the header is
   passed on. *)
Answered ==
  /\ pc = "await"
  /\ start # "none"
  /\ start' = "none"
  /\ IF start = "101"
     THEN pc' = "hijack" /\ UNCHANGED status
     ELSE pc' = "delWS" /\ status' = "refused"
  /\ UNCHANGED <<sessVars, outbound, inflight, inWsMap, bodyLen, done, wsVars, relayVars, conn,
                 gone, readerVars, clientVars>>

AwaitEnds == done \/ sessDone

(* responseState.err, responseState.done or session.done, without a second look
   at start: a 502. *)
AwaitFails ==
  /\ pc = "await"
  /\ AwaitEnds
  /\ status' = "502"
  /\ pc' = "delWS"
  /\ UNCHANGED <<sessVars, outbound, inflight, inWsMap, rsVars, wsVars, relayVars, conn, gone,
                 readerVars, clientVars>>

(* The browser goes before the answer: CancelRequest, best effort. *)
AwaitCancelled ==
  /\ pc = "await"
  /\ gone
  /\ \/ Enqueue("CancelRequest", 0)
     \/ (sessDone \/ ~Room) /\ UNCHANGED outbound
  /\ pc' = "delWS"
  /\ UNCHANGED <<sessVars, inflight, inWsMap, rsVars, wsVars, status, relayVars, conn, gone,
                 readerVars, clientVars>>

-----------------------------------------------------------------------------
(* The hijack and the relay *)

(* Hijack gives the connection; or the writer is no Hijacker (HTTP/2) and the
   browser is told so; or Hijack fails. *)
Hijack ==
  /\ pc = "hijack"
  /\ \/ conn' = "open" /\ pc' = "handshake" /\ UNCHANGED status
     \/ status' \in {"505", status} /\ pc' = "delWS" /\ UNCHANGED conn
  /\ UNCHANGED <<sessVars, outbound, inflight, inWsMap, rsVars, wsVars, relayVars, gone,
                 readerVars, clientVars>>

(* The 101 is written and flushed, and the reader started, with or without bytes
   the browser sent before the hijack; or writing fails. *)
Handshake ==
  /\ pc = "handshake"
  /\ \/ /\ status' = "101" /\ pc' = "relay"
        /\ \/ reader' = "read" /\ UNCHANGED up
           \/ up < MaxUp /\ up' = up + 1 /\ reader' = "sendBuffered"
     \/ gone /\ pc' = "unwind" /\ UNCHANGED <<status, readerVars>>
  /\ UNCHANGED <<sessVars, outbound, inflight, inWsMap, rsVars, wsVars, relayVars, conn, gone,
                 clientVars>>

TakePayload ==
  /\ pc = "relay"
  /\ fromClient # <<>>
  /\ writing' = <<Head(fromClient)>>
  /\ fromClient' = Tail(fromClient)
  /\ pc' = "write"
  /\ UNCHANGED <<sessVars, outbound, inflight, inWsMap, rsVars, wsDone, status, toBrowser, conn,
                 gone, readerVars, clientVars>>

(* conn.Write succeeds, or fails on a browser that has gone. *)
WriteEnds ==
  /\ pc = "write"
  /\ \/ toBrowser' = toBrowser \o writing /\ writing' = <<>> /\ pc' = "relay"
     \/ gone /\ pc' = "unwind" /\ UNCHANGED relayVars
  /\ UNCHANGED <<sessVars, outbound, inflight, inWsMap, rsVars, wsVars, status, conn, gone,
                 readerVars, clientVars>>

Interrupted == wsDone \/ reader = "done" \/ sessDone

(* select may see the end before the payloads queued in front of it.  (After a
   hijack net/http no longer cancels r.Context() when the browser goes.) *)
RelayEnds ==
  /\ pc = "relay"
  /\ Interrupted
  /\ pc' = "unwind"
  /\ UNCHANGED <<sessVars, outbound, inflight, inWsMap, rsVars, wsVars, status, relayVars, conn,
                 gone, readerVars, clientVars>>

WsClosed == TRUE

(* The deferred ws.close and conn.Close, registered only after a hijack. *)
Unwind ==
  /\ pc = "unwind"
  /\ wsDone' = WsClosed
  /\ conn' = "closed"
  /\ pc' = "delWS"
  /\ UNCHANGED <<sessVars, outbound, inflight, inWsMap, rsVars, fromClient, status, relayVars, gone,
                 readerVars, clientVars>>

(* The deferred delWS, then finishRequest. *)
DelWS ==
  /\ pc = "delWS"
  /\ inWsMap' = FALSE
  /\ pc' = "finish"
  /\ UNCHANGED <<sessVars, outbound, inflight, rsVars, wsVars, status, relayVars, conn, gone,
                 readerVars, clientVars>>

FinishRequest ==
  /\ pc = "finish"
  /\ inflight' = FALSE
  /\ pc' = "returned"
  /\ UNCHANGED <<sessVars, outbound, inWsMap, rsVars, wsVars, status, relayVars, conn, gone,
                 readerVars, clientVars>>

-----------------------------------------------------------------------------
(* The goroutine that reads from the browser.  sendFrame waits for room in the
   queue or for the end of the session. *)

AfterReadError == "sendClose"

AfterClose == "done"

(* conn.Read: a payload, or the error that comes with a browser that has gone or
   a connection the handler has closed. *)
ReadBrowser ==
  /\ reader = "read"
  /\ \/ conn = "open" /\ up < MaxUp /\ up' = up + 1 /\ reader' = "send"
     \/ (gone \/ conn = "closed") /\ reader' = AfterReadError /\ UNCHANGED up
  /\ UNCHANGED <<sessVars, outbound, inflight, inWsMap, rsVars, wsVars, pc, status, relayVars, conn,
                 gone, clientVars>>

(* The error of the first send, of the buffered bytes, is ignored. *)
ReaderSends ==
  /\ \/ /\ reader = "sendBuffered" /\ reader' = "read"
        /\ \/ Enqueue("WsData", up)
           \/ sessDone /\ UNCHANGED outbound
     \/ reader = "send" /\ Enqueue("WsData", up) /\ reader' = "read"
     \/ reader = "sendClose" /\ Enqueue("WsClose", 0) /\ reader' = AfterClose
     \/ reader \in {"send", "sendClose"} /\ sessDone /\ reader' = "done" /\ UNCHANGED outbound
  /\ UNCHANGED <<sessVars, inflight, inWsMap, rsVars, wsVars, pc, status, relayVars, conn, gone, up,
                 clientVars>>

BrowserGone ==
  /\ ~gone
  /\ pc # "idle"
  /\ gone' = TRUE
  /\ UNCHANGED <<sessVars, outbound, inflight, inWsMap, rsVars, wsVars, pc, status, relayVars, conn,
                 readerVars, clientVars>>

-----------------------------------------------------------------------------
(* The session: its sending goroutine, its receiving goroutine, its end *)

HandToSend ==
  /\ outbound # <<>>
  /\ wire' = Append(wire, Head(outbound))
  /\ outbound' = Tail(outbound)

(* select may take another frame after done is closed. *)
SendFrame ==
  /\ send = "run"
  /\ HandToSend
  /\ UNCHANGED <<once, send, inflight, inWsMap, rsVars, wsVars, pc, status, relayVars, conn, gone,
                 readerVars, clientVars>>

SendExits ==
  /\ send = "run"
  /\ sessDone
  /\ send' = "ended"
  /\ UNCHANGED <<once, wire, outbound, inflight, inWsMap, rsVars, wsVars, pc, status, relayVars,
                 conn, gone, readerVars, clientVars>>

(* The stream is lost: its context is done, or Send fails.  A frame that Send fails on
   may or may not have reached the client, and counts as sent. *)
StreamLost ==
  /\ send = "run"
  /\ send' = "ended"
  /\ HandToSend \/ UNCHANGED <<wire, outbound>>
  /\ UNCHANGED <<once, inflight, inWsMap, rsVars, wsVars, pc, status, relayVars, conn, gone,
                 readerVars, clientVars>>

(* handleClientFrame: a frame for a request that is still known is delivered. *)
Receiving(kind, n, known) ==
  /\ held = <<>>
  /\ wire # <<>>          \* the client has the RequestStart
  /\ held' = IF known THEN <<<<kind, n>>>> ELSE <<>>
  /\ UNCHANGED <<sessVars, outbound, inflight, inWsMap, rsVars, wsVars, pc, status, relayVars, conn,
                 gone, readerVars>>

ReceiveStart ==
  /\ client = "start"
  /\ \E kind \in {"101", "refused"} :
       /\ Receiving(kind, 0, inflight)
       /\ client' = IF kind = "101" THEN "ws" ELSE "refused"
  /\ UNCHANGED down

ReceivePayload ==
  /\ client \in {"ws", "refused"}
  /\ down < MaxDown
  /\ down' = down + 1
  /\ IF client = "ws"
     THEN Receiving("data", down + 1, inWsMap)
     ELSE Receiving("body", down + 1, inflight)
  /\ UNCHANGED client

(* ResponseEnd or ResponseError closes responseState.done, WsClose wsState.done. *)
ReceiveEnd ==
  /\ held = <<>> /\ wire # <<>>
  /\ client # "over"
  /\ client' = "over"
  /\ IF client = "ws"
     THEN wsDone' = (wsDone \/ inWsMap) /\ UNCHANGED done
     ELSE done' = (done \/ inflight) /\ UNCHANGED wsDone
  /\ UNCHANGED <<sessVars, outbound, inflight, inWsMap, start, bodyLen, fromClient, pc, status,
                 relayVars, conn, gone, readerVars, held, down>>

Dispatched(n) == Append(fromClient, n)

(* The frame's channel has room. *)
Deliver ==
  /\ held # <<>>
  /\ LET kind == held[1][1]
     IN  \/ /\ kind \in {"101", "refused"}
            /\ start' = kind
            /\ UNCHANGED <<bodyLen, fromClient>>
         \/ /\ kind = "body"
            /\ bodyLen < BodyDepth
            /\ bodyLen' = bodyLen + 1
            /\ UNCHANGED <<start, fromClient>>
         \/ /\ kind = "data"
            /\ Len(fromClient) < WsDepth
            /\ fromClient' = Dispatched(held[1][2])
            /\ UNCHANGED <<start, bodyLen>>
  /\ held' = <<>>
  /\ UNCHANGED <<sessVars, outbound, inflight, inWsMap, done, wsDone, pc, status, relayVars, conn,
                 gone, readerVars, client, down>>

(* The frame's done channel is closed. *)
Discard ==
  /\ held # <<>>
  /\ IF held[1][1] = "data" THEN wsDone ELSE done
  /\ held' = <<>>
  /\ UNCHANGED <<sessVars, outbound, inflight, inWsMap, rsVars, wsVars, pc, status, relayVars, conn,
                 gone, readerVars, client, down>>

(* session.shutdown, by a newer Connect call or by the receiving goroutine. *)
CloseDone ==
  /\ once = "open"
  /\ once' = "closing"
  /\ UNCHANGED <<send, wire, outbound, inflight, inWsMap, rsVars, wsVars, pc, status, relayVars, conn,
                 gone, readerVars, clientVars>>

FailAll ==
  /\ once = "closing"
  /\ once' = "closed"
  /\ done' = (done \/ inflight)
  /\ wsDone' = (wsDone \/ inWsMap)
  /\ inflight' = FALSE /\ inWsMap' = FALSE
  /\ UNCHANGED <<send, wire, outbound, start, bodyLen, fromClient, pc, status, relayVars, conn, gone,
                 readerVars, clientVars>>

-----------------------------------------------------------------------------
HandlerStep ==
  \/ PutWS \/ Forward \/ ForwardFails \/ Answered \/ AwaitFails \/ AwaitCancelled
  \/ Hijack \/ Handshake \/ TakePayload \/ WriteEnds \/ RelayEnds
  \/ Unwind \/ DelWS \/ FinishRequest

Next ==
  \/ TryStart \/ HandlerStep
  \/ ReadBrowser \/ ReaderSends \/ BrowserGone
  \/ SendFrame \/ SendExits \/ StreamLost
  \/ ReceiveStart \/ ReceivePayload \/ ReceiveEnd \/ Deliver \/ Discard
  \/ CloseDone \/ FailAll

Spec == Init /\ [][Next]_vars

(* Goroutines are scheduled; a write to the browser ends within wsWriteTimeout,
   a read of a lost connection ends, a client that has not lost the stream reads
   it, and Recv fails on a lost one, which shuts the session down. *)
Fairness ==
  /\ WF_vars(HandlerStep)
  /\ WF_vars(ReadBrowser \/ ReaderSends)
  /\ WF_vars(SendFrame \/ SendExits)
  /\ WF_vars(Deliver \/ Discard)
  /\ WF_vars(FailAll)
  /\ WF_vars(send = "ended" /\ held = <<>> /\ CloseDone)

FairSpec == Spec /\ Fairness

-----------------------------------------------------------------------------
(* The variables have their types, and no channel holds more than its depth. *)
TypeOK ==
  /\ once \in {"open", "closing", "closed"} /\ send \in {"run", "ended"}
  /\ Len(outbound) <= OutboundDepth
  /\ {inflight, inWsMap, done, wsDone, gone} \subseteq BOOLEAN
  /\ start \in {"none", "101", "refused"}
  /\ bodyLen \in 0..BodyDepth
  /\ fromClient \in Seq(1..MaxDown) /\ Len(fromClient) <= WsDepth
  /\ pc \in {"idle", "putWS", "fwdStart", "fwdEnd", "await", "hijack", "handshake", "relay",
             "write", "unwind", "delWS", "finish", "returned"}
  /\ status \in {"none", "101", "refused", "502", "505"}
  /\ Len(writing) <= 1 /\ toBrowser \in Seq(1..MaxDown)
  /\ conn \in {"none", "open", "closed"}
  /\ reader \in {"none", "sendBuffered", "read", "send", "sendClose", "done"}
  /\ up \in 0..MaxUp /\ down \in 0..MaxDown
  /\ Len(held) <= 1
  /\ client \in {"start", "refused", "ws", "over"}

FirstPayloads(n) == [i \in 1..n |-> i]

HeldData == IF held # <<>> /\ held[1][1] = "data" THEN <<held[1][2]>> ELSE <<>>

Downstream == toBrowser \o writing \o fromClient \o HeldData

Outgoing == wire \o outbound

(* What the client is sent: the request, the payloads in the browser's order, and
   one frame at most that ends them. *)
Upstream ==
  \A i \in DOMAIN Outgoing :
    CASE i = 1 -> Outgoing[i][1] = "RequestStart"
      [] i = 2 -> Outgoing[i][1] = "RequestEnd"
      [] i > 2 -> \/ Outgoing[i] = <<"WsData", i - 2>>
                  \/ i = Len(Outgoing) /\ Outgoing[i][1] \in {"WsClose", "CancelRequest"}

(* Both directions of an upgraded connection are relayed in order and without
   gaps: each side gets a prefix of what the other sent, and nothing is missing
   on the way while the relay is at work.  Towards the client this is claimed
   while the session is up: on one that was shut down the buffered bytes may be
   dropped and later ones still sent. *)
BytesInOrder ==
  /\ toBrowser = FirstPayloads(Len(toBrowser))
  /\ ~wsDone => Downstream = FirstPayloads(Len(Downstream))
  /\ pc \in {"relay", "write"} /\ inWsMap => Len(Downstream) = down
  /\ ~sessDone => Upstream
  /\ ~sessDone /\ reader = "read" => Len(Outgoing) = up + 2

(* The client is sent RequestStart first, and nothing after WsClose or
   CancelRequest, although two goroutines feed the queue. *)
FramesInOrder ==
  \A i, j \in DOMAIN Outgoing :
    i < j => /\ Outgoing[i][1] \notin {"WsClose", "CancelRequest"}
             /\ Outgoing[j][1] # "RequestStart"

(* The handler returns once the browser, the client or the session has ended. *)
HandlerLeaves ==
  pc # "idle" /\ (gone \/ wsDone \/ done \/ sessDone) ~> pc = "returned"

Told == \E i \in DOMAIN wire : wire[i][1] = "WsClose"

(* After an upgrade the client is told when the browser goes or the edge gives
   the connection up, unless the session ends. *)
LossReported ==
  status = "101" /\ (gone \/ pc = "returned") ~> Told \/ sessDone

(* The handler has returned without the deferred ws.close of the hijacked case,
   and the request is out of both maps: nothing will close the done channels. *)
Abandoned == pc = "returned" /\ conn = "none"

(* The receiver gets past every frame, unless its request is abandoned. *)
ReceiverFreed == held # <<>> ~> held = <<>> \/ Abandoned
==============================================================================
