--------------------------- MODULE ClientWebSocket ---------------------------
(***************************************************************************)
(* One WebSocket upgrade in the tunnel client (handleWebSocket in          *)
(* tunnel/client.go): the goroutine that plays the request against the     *)
(* local http.Server over a net.Pipe and then relays, the one that reads   *)
(* from that pipe, and the receive loop of runSession, which feeds the     *)
(* inbound channel and is the only one to close it.                        *)
(*                                                                         *)
(* The local handler (the backend) and the edge are the environment.  The  *)
(* edge sends WsData once it has the 101, then WsClose, in the order       *)
(* EdgeWebSocket shows (FramesInOrder).  The stream may be lost, and Run's *)
(* context cancelled, at any step.  Payloads are numbered.                 *)
(***************************************************************************)
EXTENDS Integers, Sequences

CONSTANTS
  InboundDepth,  \* capacity of the inbound channel (16)
  MaxUp,         \* bound: payloads from the edge
  MaxDown        \* bound: payloads, or body chunks, from the backend

ASSUME InboundAssumption ==
  InboundDepth \in Nat \ {0} /\ {MaxUp, MaxDown} \subseteq Nat

VARIABLES
  stream,     \* "up" or "down"
  runCtx,     \* Run's context is done
  recv,       \* the receive loop: "recv", "dispatch" or "returned"
  inMap,      \* the channel is in wsInbound
  inbound,    \* the channel's buffer
  closes,     \* how often the channel was closed; twice would panic
  fed,        \* payloads received from the edge
  edge,       \* the edge's turn: "start", "data" or "over"
  pc,         \* where handleWebSocket is
  writing,    \* the payload being written to the backend, if any
  toBackend,  \* payloads the backend has read
  pipe,       \* clientConn: "open" or "closed"
  backend,    \* the backend's end of the pipe: "open" or "closed"
  reader,     \* where the goroutine that reads from the backend is
  ahead,      \* br holds bytes that came with the 101
  down,       \* payloads or chunks read from the backend
  sent        \* kinds of the frames sent to the edge

loopVars    == <<recv, fed, edge>>
chanVars    == <<inMap, inbound, closes>>
relayVars   == <<writing, toBackend>>
readerVars  == <<reader, ahead, down>>
envVars     == <<stream, runCtx, backend>>
vars == <<envVars, loopVars, chanVars, pc, relayVars, pipe, readerVars, sent>>

Init ==
  /\ stream = "up" /\ runCtx = FALSE
  /\ recv = "recv" /\ fed = 0 /\ edge = "start"
  /\ inMap = FALSE /\ inbound = <<>> /\ closes = 0
  /\ pc = "none" /\ writing = <<>> /\ toBackend = <<>>
  /\ pipe = "open" /\ backend = "open"
  /\ reader = "none" /\ ahead = FALSE /\ down = 0
  /\ sent = <<>>

(* Faulty versions of definitions below, each a plausible slip in the code. *)
StillOpen_Blind         == TRUE
Dispatch_Overwrites     == inbound' = <<fed>>
AfterAnswer_Unchecked(kind) == "relay"
OnReadError_Quiet       == "done"
GivesUp_Never           == FALSE

-----------------------------------------------------------------------------
(* The receive loop of runSession *)

Receiving == recv = "recv" /\ stream = "up"

RequestStart ==
  /\ Receiving
  /\ edge = "start"
  /\ edge' = "data"
  /\ inMap' = TRUE
  /\ pc' = "request"
  /\ UNCHANGED <<envVars, recv, fed, inbound, closes, relayVars, pipe, readerVars, sent>>

Upgraded == sent # <<>> /\ sent[1] = "101"

WsData ==
  /\ Receiving
  /\ edge = "data" /\ Upgraded
  /\ fed < MaxUp
  /\ fed' = fed + 1
  /\ recv' = IF inMap THEN "dispatch" ELSE "recv"
  /\ UNCHANGED <<envVars, edge, chanVars, pc, relayVars, pipe, readerVars, sent>>

Room == Len(inbound) < InboundDepth

Dispatch == inbound' = Append(inbound, fed)

(* dispatchWSInbound: the channel has room. *)
DispatchWSInbound ==
  /\ recv = "dispatch"
  /\ Room
  /\ Dispatch
  /\ recv' = "recv"
  /\ UNCHANGED <<envVars, fed, edge, inMap, closes, pc, relayVars, pipe, readerVars, sent>>

StillOpen == inMap

(* WsClose takes the channel out of the map and closes it. *)
WsClose ==
  /\ Receiving
  /\ edge = "data" /\ Upgraded
  /\ edge' = "over"
  /\ closes' = IF StillOpen THEN closes + 1 ELSE closes
  /\ inMap' = FALSE
  /\ UNCHANGED <<envVars, recv, fed, inbound, pc, relayVars, pipe, readerVars, sent>>

(* The deferred clean-up closes every channel in the map, and leaves it there. *)
CleanUp ==
  /\ closes' = IF StillOpen THEN closes + 1 ELSE closes
  /\ recv' = "returned"

GivesUp == runCtx

(* stream.Recv fails, or Run's context ends a dispatch that found no room. *)
SessionEnds ==
  /\ \/ recv = "recv" /\ stream = "down"
     \/ recv = "dispatch" /\ GivesUp
  /\ CleanUp
  /\ UNCHANGED <<envVars, fed, edge, inMap, inbound, pc, relayVars, pipe, readerVars, sent>>

-----------------------------------------------------------------------------
(* handleWebSocket *)

(* send appends to what the edge gets, or fails once the stream is lost. *)
Send(kind, ok, failed) ==
  \/ stream = "up" /\ sent' = Append(sent, kind) /\ ok
  \/ stream = "down" /\ failed /\ UNCHANGED sent

AfterAnswer(kind) == IF kind = "101" THEN "relay" ELSE "refuse"

(* The request is played against the backend: it fails and ResponseError is
   sent, or the backend's answer is passed on. *)
Answer ==
  /\ pc = "request"
  /\ \/ Send("ResponseError", pc' = "exit", pc' = "exit")
     \/ \E kind \in {"101", "refused"} :
          Send(kind, pc' = AfterAnswer(kind), pc' = "exit")
  /\ reader' = IF pc' = "relay" THEN "read" ELSE reader
  /\ ahead' \in IF pc' = "relay" THEN BOOLEAN ELSE {FALSE}
  /\ UNCHANGED <<envVars, loopVars, chanVars, relayVars, pipe, down>>

(* A refusal: its body, then ResponseEnd. *)
Refuse ==
  /\ pc = "refuse"
  /\ \/ /\ down < MaxDown
        /\ down' = down + 1
        /\ Send("ResponseBody", UNCHANGED pc, pc' = "exit")
     \/ Send("ResponseEnd", pc' = "exit", pc' = "exit") /\ UNCHANGED down
  /\ UNCHANGED <<envVars, loopVars, chanVars, relayVars, pipe, reader, ahead>>

TakePayload ==
  /\ pc = "relay"
  /\ inbound # <<>>
  /\ writing' = <<Head(inbound)>>
  /\ inbound' = Tail(inbound)
  /\ pc' = "write"
  /\ UNCHANGED <<envVars, loopVars, inMap, closes, toBackend, pipe, readerVars, sent>>

(* clientConn.Write: the backend reads the payload. *)
PayloadRead ==
  /\ pc = "write"
  /\ backend = "open"
  /\ toBackend' = toBackend \o writing
  /\ writing' = <<>>
  /\ pc' = "relay"
  /\ UNCHANGED <<envVars, loopVars, chanVars, pipe, readerVars, sent>>

WriteFails ==
  /\ pc = "write"
  /\ backend = "closed"
  /\ pc' = "exit"
  /\ UNCHANGED <<envVars, loopVars, chanVars, relayVars, pipe, readerVars, sent>>

InboundOver == closes > 0 /\ inbound = <<>>

(* The channel is closed and empty: close the pipe and wait for the reader. *)
InboundCloses ==
  /\ pc = "relay"
  /\ InboundOver
  /\ pipe' = "closed"
  /\ pc' = "closing"
  /\ UNCHANGED <<envVars, loopVars, chanVars, relayVars, readerVars, sent>>

(* The reader has finished, or (in the relay) Run's context is done. *)
RelayEnds ==
  /\ \/ pc \in {"relay", "closing"} /\ reader = "done"
     \/ pc = "relay" /\ runCtx
  /\ pc' = "exit"
  /\ UNCHANGED <<envVars, loopVars, chanVars, relayVars, pipe, readerVars, sent>>

(* The deferred clientConn.Close, then done, which unregisters the channel. *)
Exit ==
  /\ pc = "exit"
  /\ pipe' = "closed"
  /\ inMap' = FALSE
  /\ pc' = "done"
  /\ UNCHANGED <<envVars, loopVars, inbound, closes, relayVars, readerVars, sent>>

-----------------------------------------------------------------------------
(* The goroutine that reads from the backend *)

OnReadError == "sendClose"

(* br.Read returns buffered bytes first, whatever became of the pipe. *)
ReadBuffered ==
  /\ reader = "read"
  /\ ahead
  /\ ahead' = FALSE
  /\ reader' = "send"
  /\ UNCHANGED <<envVars, loopVars, chanVars, pc, relayVars, pipe, down, sent>>

ReadBackend ==
  /\ reader = "read"
  /\ ~ahead
  /\ pipe = "open" /\ backend = "open"
  /\ down < MaxDown
  /\ down' = down + 1
  /\ reader' = "send"
  /\ UNCHANGED <<envVars, loopVars, chanVars, pc, relayVars, pipe, ahead, sent>>

ReadFails ==
  /\ reader = "read"
  /\ ~ahead
  /\ pipe = "closed" \/ backend = "closed"
  /\ reader' = OnReadError
  /\ UNCHANGED <<envVars, loopVars, chanVars, pc, relayVars, pipe, ahead, down, sent>>

ReaderSends ==
  /\ \/ reader = "send" /\ Send("WsData", reader' = "read", reader' = "done")
     \/ reader = "sendClose" /\ Send("WsClose", reader' = "done", reader' = "done")
  /\ UNCHANGED <<envVars, loopVars, chanVars, pc, relayVars, pipe, ahead, down>>

-----------------------------------------------------------------------------
(* The environment *)

StreamLost ==
  /\ stream = "up"
  /\ stream' = "down"
  /\ UNCHANGED <<runCtx, backend, loopVars, chanVars, pc, relayVars, pipe, readerVars, sent>>

(* The stream does not outlive Run's context, nor runSession, whose deferred
   conn.Close ends it. *)
StreamClosed ==
  /\ runCtx \/ recv = "returned"
  /\ StreamLost

CtxDone ==
  /\ ~runCtx
  /\ runCtx' = TRUE
  /\ UNCHANGED <<stream, backend, loopVars, chanVars, pc, relayVars, pipe, readerVars, sent>>

BackendCloses ==
  /\ reader # "none"
  /\ backend = "open"
  /\ backend' = "closed"
  /\ UNCHANGED <<stream, runCtx, loopVars, chanVars, pc, relayVars, pipe, readerVars, sent>>

Loop    == DispatchWSInbound \/ SessionEnds
Handler == TakePayload \/ WriteFails \/ InboundCloses \/ RelayEnds \/ Exit
Reader  == ReadBuffered \/ ReadFails \/ ReaderSends

Next ==
  \/ RequestStart \/ WsData \/ WsClose \/ Loop
  \/ Answer \/ Refuse \/ PayloadRead \/ Handler
  \/ ReadBackend \/ Reader
  \/ StreamLost \/ CtxDone \/ BackendCloses

Spec == Init /\ [][Next]_vars

(* The goroutines run.  Nothing is assumed of the backend (Answer, Refuse,
   PayloadRead, ReadBackend), and of the edge only that it takes the frames
   sent to it while the stream is up. *)
FairSpec ==
  /\ Spec
  /\ WF_vars(Loop) /\ WF_vars(Handler) /\ WF_vars(Reader) /\ WF_vars(StreamClosed)

-----------------------------------------------------------------------------
(* Properties *)

Upto(n) == [i \in 1 .. n |-> i]

Kinds == {"101", "refused", "ResponseBody", "ResponseEnd", "ResponseError", "WsData", "WsClose"}

(* The values each variable may take; the channel stays within its capacity. *)
TypeOK ==
  /\ stream \in {"up", "down"} /\ runCtx \in BOOLEAN
  /\ recv \in {"recv", "dispatch", "returned"}
  /\ inMap \in BOOLEAN /\ closes \in Nat
  /\ inbound \in Seq(1 .. MaxUp) /\ Len(inbound) <= InboundDepth
  /\ fed \in 0 .. MaxUp /\ edge \in {"start", "data", "over"}
  /\ pc \in {"none", "request", "refuse", "relay", "write", "closing", "exit", "done"}
  /\ writing \in Seq(1 .. MaxUp) /\ toBackend \in Seq(1 .. MaxUp)
  /\ {pipe, backend} \subseteq {"open", "closed"}
  /\ reader \in {"none", "read", "send", "sendClose", "done"}
  /\ ahead \in BOOLEAN /\ down \in 0 .. MaxDown
  /\ sent \in Seq(Kinds)

(* The inbound channel is closed at most once and never sent on afterwards,
   though WsClose, the session's clean-up and the handler's own done all act
   on its map entry: either would panic and take the client down. *)
NoChannelPanic ==
  /\ closes <= 1
  /\ recv = "dispatch" => closes = 0

(* Until the handler unregisters or the session ends, the payloads received are
   exactly those read by the backend, being written and queued, in order. *)
PayloadsConserved ==
  pc # "done" /\ recv # "returned" =>
    toBackend \o writing \o inbound = Upto(IF recv = "dispatch" THEN fed - 1 ELSE fed)

Follows(first, kinds, last) ==
  \A i \in 2 .. Len(sent) :
    sent[1] = first => sent[i] \in kinds \/ (sent[i] = last /\ i = Len(sent))

(* The frames sent for one upgrade: a single ResponseError; or a 101, WsData
   and at most one WsClose, last; or a refusal, its body and ResponseEnd, last.
   The handler and the reader send concurrently. *)
AnswerProtocol ==
  /\ sent # <<>> => sent[1] \in {"101", "refused", "ResponseError"}
  /\ Follows("101", {"WsData"}, "WsClose")
  /\ Follows("refused", {"ResponseBody"}, "ResponseEnd")
  /\ Len(sent) > 1 => sent[1] # "ResponseError"

(* A backend that hangs up is reported to the edge by a WsClose unless the
   stream is lost first. *)
HangUpReported ==
  reader = "read" /\ backend = "closed" ~> stream = "down" \/ (sent # <<>> /\ sent[Len(sent)] = "WsClose")

(* The receive loop waits for room in the channel of a handler that has left or
   that the backend holds, and Run's context does not end. *)
Stalled == recv = "dispatch" /\ ~runCtx /\ pc \in {"done", "write"}

(* A lost stream makes runSession return, so that Run reconnects, unless the
   loop is stalled by this WebSocket. *)
LoopReturns == stream = "down" ~> recv = "returned" \/ Stalled
=============================================================================
