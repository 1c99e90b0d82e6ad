-------------------------- MODULE EdgeStreamProofs --------------------------
(***************************************************************************)
(* EdgeStream's safety, for any number of requests, any depth of the       *)
(* queues and bodies of any length: responses are relayed in order and     *)
(* whole, none that failed looks like an empty 200, a receiver that is     *)
(* stuck stays stuck, and an open response is on its way to its handler.   *)
(***************************************************************************)
EXTENDS EdgeStream, TLAPS

Holding(r) == HeldFor(r) /\ held[1].chunk > 0

Types ==
  /\ inflight \subseteq Requests
  /\ body \in [Requests -> Seq(Nat)]
  /\ received \in [Requests -> Seq(Nat)]
  /\ writing \in [Requests -> Seq(Nat)]
  /\ cause \in [Requests -> {"none", "end", "error"}]
  /\ pc \in [Requests -> HandlerStates]
  /\ sentFrames \in [Requests -> Nat]
  /\ hdr \in [Requests -> {"none", "ok", "502"}]
  /\ chunks \in [Requests -> Nat]
  /\ reply \in [Requests -> {"start", "body", "over"}]
  /\ held # <<>> => held = <<held[1]>> /\ held[1] \in [id : Requests, chunk : Nat]

(* Frames of a request exist only once its handler has started it. *)
Begun(i) == i \in Requests => pc[i] # "idle"

Queues ==
  /\ outbound \in Seq(Frames)
  /\ inSend # <<>> => inSend = <<inSend[1]>> /\ inSend[1] \in Frames
  /\ send = "sending" => inSend # <<>>
  /\ \A i \in DOMAIN outbound : Begun(outbound[i].id)
  /\ inSend # <<>> => Begun(inSend[1].id)
  /\ \A r \in Requests : wire[r] # <<>> => Begun(r)

(* What a handler that has not started, or has finished, leaves alone. *)
Untouched ==
  \A r \in Requests :
    /\ r \in inflight => pc[r] \notin {"idle", "returned"}
    /\ pc[r] = "idle" => /\ cause[r] = "none" /\ chunks[r] = 0 /\ ~HeldFor(r)
                         /\ body[r] = <<>> /\ received[r] = <<>> /\ writing[r] = <<>>

(* A handler's place tells what the browser got and whether done was closed. *)
Places ==
  \A r \in Requests :
    /\ pc[r] \notin {"write", "drainWrite"} => writing[r] = <<>>
    /\ pc[r] \in {"drain", "drainWrite"} => cause[r] # "none"
    /\ pc[r] \in {"stream", "write", "drain", "drainWrite"} => hdr[r] = "ok"
    /\ pc[r] \in {"returning", "returned"} /\ r \notin gone =>
         /\ hdr[r] # "none"
         /\ hdr[r] = "ok" => cause[r] # "none"

(* After the end of a response none of its frames is in the receiver's hands. *)
Ended ==
  \A r \in Requests :
    (r \in inflight /\ cause[r] # "none") \/ cause[r] = "end" => reply[r] = "over" /\ ~HeldFor(r)

(* How much of r's body has reached the queue, or is about to. *)
Queued(r) == Len(received[r]) + Len(writing[r]) + Len(body[r])

Reached(r) == IF Holding(r) THEN Queued(r) + 1 ELSE Queued(r)

InOrder(r) ==
  /\ \A i \in 1 .. Len(received[r]) : received[r][i] = i
  /\ \A i \in 1 .. Len(writing[r]) : writing[r][i] = Len(received[r]) + i
  /\ \A i \in 1 .. Len(body[r]) : body[r][i] = Len(received[r]) + Len(writing[r]) + i
  /\ Holding(r) => held[1].chunk = Queued(r) + 1

Whole ==
  \A r \in Requests :
    /\ r \notin gone => InOrder(r)
    /\ r \in inflight /\ (pc[r] # "returning" \/ r \notin gone) => Reached(r) = chunks[r]
    /\ cause[r] = "end" /\ r \notin gone => Reached(r) = chunks[r]
    /\ cause[r] = "end" /\ r \notin gone /\ hdr[r] = "ok" /\ pc[r] \in {"returning", "returned"}
         => body[r] = <<>>

Left(r) == pc[r] \in {"returning", "returned"}

(* What reached the browser of r is a prefix of what the client sent, even when
   the browser has gone. *)
DeliveredOf(r) ==
  /\ \A i \in 1 .. Len(received[r]) : received[r][i] = i
  /\ Len(received[r]) <= chunks[r]
  /\ ~Left(r) => InOrder(r) /\ Reached(r) <= chunks[r]

Delivered == \A r \in Requests : DeliveredOf(r)

Starts == start \in [Requests -> BOOLEAN]

Rest == Untouched /\ Places /\ Ended /\ Whole /\ Delivered

IInv == Types /\ Starts /\ Queues /\ Rest

(* The steps that leave responses alone. *)
Still == UNCHANGED <<inflight, body, cause, pc, sentFrames, hdr, received, writing, gone, held, reply, chunks>>

LEMMA InitIInv == Init => IInv
<1> SUFFICES ASSUME Init PROVE IInv
  OBVIOUS
<1>1. Types
  BY StreamAssumption DEF Init, Types, HandlerStates
<1>2. Queues
  BY DEF Init, Queues
<1>3. Untouched /\ Places /\ Ended
  BY DEF Init, Untouched, Places, Ended, HeldFor
<1>4. ASSUME NEW r \in Requests PROVE InOrder(r) /\ Reached(r) = 0 /\ Len(received[r]) = 0
  <2>1. Len(received[r]) = 0 /\ Len(writing[r]) = 0 /\ Len(body[r]) = 0 /\ ~Holding(r)
    BY DEF Init, Holding, HeldFor
  <2> QED
    BY <2>1 DEF InOrder, Reached, Queued
<1>5. Whole /\ Delivered
  BY <1>4 DEF Init, Whole, Delivered, DeliveredOf
<1>6. Starts
  BY DEF Init, Starts
<1> QED
  BY <1>1, <1>2, <1>3, <1>5, <1>6 DEF IInv, Rest

(* A sequence that counts on from where another ends continues it. *)
LEMMA Joined ==
  ASSUME NEW s \in Seq(Nat), NEW t \in Seq(Nat),
         \A i \in 1 .. Len(s) : s[i] = i,
         \A i \in 1 .. Len(t) : t[i] = Len(s) + i
  PROVE  \A i \in 1 .. Len(s \o t) : (s \o t)[i] = i
<1>1. Len(s \o t) = Len(s) + Len(t) /\ Len(s) \in Nat /\ Len(t) \in Nat
  OBVIOUS
<1> TAKE i \in 1 .. Len(s \o t)
<1>2. CASE i \in 1 .. Len(s)
  BY <1>2
<1>3. CASE i \notin 1 .. Len(s)
  <2>1. i \in 1 .. (Len(s) + Len(t))
    BY <1>1
  <2>2. \A m, n \in Nat : \A k \in 1 .. (m + n) :
          k \notin 1 .. m => k - m \in 1 .. n /\ m + (k - m) = k
    OBVIOUS
  <2>3. i - Len(s) \in 1 .. Len(t) /\ Len(s) + (i - Len(s)) = i
    BY <1>1, <1>3, <2>1, <2>2
  <2>4. (s \o t)[i] = t[i - Len(s)]
    BY <1>3
  <2> QED
    BY <2>3, <2>4
<1> QED
  BY <1>2, <1>3

-----------------------------------------------------------------------------
(* Steps of the sending goroutine, the heartbeat and the stream, and shutdown
   before it fails the requests. *)
Aside ==
  \/ StreamEnds \/ CloseDone \/ ConnectReturns \/ Replace
  \/ TakeFrame \/ Sent \/ SendExits \/ Heartbeat \/ HeartbeatExits \/ StreamFails
  \/ UNCHANGED vars

LEMMA AsideIsStill == Aside => Still
BY DEF Aside, Still, StreamEnds, CloseDone, ConnectReturns, Replace, TakeFrame, Sent, SendExits,
       Heartbeat, HeartbeatExits, StreamFails, vars, rsVars, handlerVars, clientVars, sendVars

(* Every step is one of a handler, of the receiver, a failAll, or aside. *)
LEMMA StepCases ==
  ASSUME [Next]_vars
  PROVE  \/ \E r \in Requests :
              \/ TryStart(r) \/ HandlerStep(r) \/ ChunkWritten(r) \/ BrowserGone(r)
              \/ ReadBody(r) \/ BodyReadFails(r) \/ ClientFrame(r)
         \/ Deliver \/ Discard \/ failAll \/ Aside
BY DEF Next, ReceiverStep, FailAll, ReplaceFailAll, Aside

LEMMA TypesStep == Types /\ [Next]_vars => Types'
<1> SUFFICES ASSUME Types, [Next]_vars PROVE Types'
  OBVIOUS
<1>1. ASSUME NEW r \in Requests, NEW l \in HandlerStates, pc' = [pc EXCEPT ![r] = l],
             hdr' = hdr \/ hdr' = [hdr EXCEPT ![r] = "ok"] \/ hdr' = [hdr EXCEPT ![r] = "502"],
             sentFrames' = sentFrames \/ sentFrames' = [sentFrames EXCEPT ![r] = @ + 1],
             inflight' \in {inflight, inflight \cup {r}, inflight \ {r}},
             UNCHANGED <<body, cause, received, writing, chunks, reply, held>>
      PROVE  Types'
  <2>1. pc' \in [Requests -> HandlerStates] /\ inflight' \subseteq Requests
    BY <1>1 DEF Types
  <2>2. hdr' \in [Requests -> {"none", "ok", "502"}]
    BY <1>1, Zenon DEF Types
  <2>3. sentFrames' \in [Requests -> Nat]
    <3>1. sentFrames \in [Requests -> Nat] /\ sentFrames[r] + 1 \in Nat
      BY DEF Types
    <3> QED
      BY <1>1, <3>1, Zenon
  <2> QED
    BY <1>1, <2>1, <2>2, <2>3, Zenon DEF Types
<1> USE DEF Goto, rsVars, handlerVars, clientVars, sendVars, connVars
<1>2. ASSUME NEW r \in Requests,
             TryStart(r) \/ ForwardFails(r) \/ ReadBody(r) \/ BodyReadFails(r) \/ ForwardCancelled(r)
      PROVE  Types'
  BY <1>1, <1>2, Zenon DEF TryStart, ForwardFails, ReadBody, BodyReadFails, ForwardCancelled,
              BadGateway, HandlerStates
<1>3. ASSUME NEW r \in Requests, Forward(r) \/ SeeDone(r) \/ EndOfBody(r) \/ FinishRequest(r) PROVE Types'
  BY <1>1, <1>3 DEF Forward, SeeDone, EndOfBody, FinishRequest, HandlerStates
<1>4. ASSUME NEW r \in Requests, AwaitHeaders(r) PROVE Types'
  <2>1. WriteHeader(r) \/ TakeErr(r)
    BY <1>4, Zenon DEF AwaitHeaders
  <2>2. UNCHANGED <<inflight, body, cause, sentFrames, received, writing, chunks, reply, held>>
    BY <1>4 DEF AwaitHeaders
  <2> QED
    BY <1>1, <2>1, <2>2 DEF WriteHeader, TakeErr, BadGateway, HandlerStates
<1>5. ASSUME NEW r \in Requests, NEW l \in HandlerStates, pc' = [pc EXCEPT ![r] = l],
             body' \in [Requests -> Seq(Nat)], received' \in [Requests -> Seq(Nat)],
             writing' \in [Requests -> Seq(Nat)],
             UNCHANGED <<inflight, cause, hdr, sentFrames, chunks, reply, held>>
      PROVE  Types'
  BY <1>5, Zenon DEF Types
<1>6. ASSUME NEW r \in Requests, TakeChunk(r) PROVE Types'
  <2>1. body \in [Requests -> Seq(Nat)] /\ body[r] \in Seq(Nat) /\ body[r] # <<>>
    BY <1>6 DEF TakeChunk, Types
  <2>2. <<Head(body[r])>> \in Seq(Nat) /\ Tail(body[r]) \in Seq(Nat)
    BY <2>1
  <2>3. body' \in [Requests -> Seq(Nat)] /\ writing' \in [Requests -> Seq(Nat)] /\ received' = received
    BY <1>6, <2>2, Zenon DEF TakeChunk, Types
  <2> QED
    BY <1>5, <1>6, <2>3, Zenon DEF TakeChunk, HandlerStates, Types
<1>7. ASSUME NEW r \in Requests, ChunkWritten(r) PROVE Types'
  <2>1. received[r] \in Seq(Nat) /\ writing[r] \in Seq(Nat)
    BY DEF Types
  <2>2. received[r] \o writing[r] \in Seq(Nat) /\ <<>> \in Seq(Nat)
    BY <2>1
  <2>3. received' \in [Requests -> Seq(Nat)] /\ writing' \in [Requests -> Seq(Nat)] /\ body' = body
    BY <1>7, <2>2, Zenon DEF ChunkWritten, Types
  <2> QED
    BY <1>5, <1>7, <2>3, Zenon DEF ChunkWritten, HandlerStates, Types
<1>8. ASSUME NEW r \in Requests, Cancelled(r) PROVE Types'
  <2>1. <<>> \in Seq(Nat)
    OBVIOUS
  <2>2. writing' \in [Requests -> Seq(Nat)] /\ UNCHANGED <<body, received>>
    BY <1>8, <2>1, Zenon DEF Cancelled, Types
  <2> QED
    BY <1>5, <1>8, <2>2, Zenon DEF Cancelled, HandlerStates, Types
<1>9. ASSUME NEW r \in Requests, ReceiveStart(r) \/ ReceiveBody(r) PROVE Types'
  <2>1. ASSUME NEW n \in Nat, Hold(r, n)
        PROVE  held' # <<>> => held' = <<held'[1]>> /\ held'[1] \in [id : Requests, chunk : Nat]
    BY <2>1 DEF Hold, Types
  <2>2. CASE ReceiveStart(r)
    <3>1. held' # <<>> => held' = <<held'[1]>> /\ held'[1] \in [id : Requests, chunk : Nat]
      BY <2>1, <2>2 DEF ReceiveStart
    <3> QED
      BY <2>2, <3>1 DEF ReceiveStart, Receiving, Types
  <2>3. CASE ReceiveBody(r)
    <3>1. chunks[r] + 1 \in Nat
      BY DEF Types
    <3>2. Hold(r, chunks[r] + 1)
      BY <2>3 DEF ReceiveBody
    <3>3. held' # <<>> => held' = <<held'[1]>> /\ held'[1] \in [id : Requests, chunk : Nat]
      BY <2>1, <3>1, <3>2
    <3> QED
      BY <2>3, <3>1, <3>3 DEF ReceiveBody, Receiving, Types
  <2> QED
    BY <1>9, <2>2, <2>3
<1>10. ASSUME NEW r \in Requests, NEW how \in {"end", "error"}, ReceiveEnd(r, how) PROVE Types'
  <2>1. cause' = cause \/ cause' = [cause EXCEPT ![r] = how]
    BY <1>10, Zenon DEF ReceiveEnd, Close
  <2>2. cause' \in [Requests -> {"none", "end", "error"}]
    BY <2>1, Zenon DEF Types
  <2> QED
    BY <1>10, <2>2, Zenon DEF ReceiveEnd, Receiving, Types
<1>11. CASE Deliver
  <2>1. body' = body \/ body' = [body EXCEPT ![held[1].id] = Append(@, held[1].chunk)]
    BY <1>11, Zenon DEF Deliver, DeliverBody
  <2>2. held # <<>>
    BY <1>11, Zenon DEF Deliver
  <2>3. held[1].id \in Requests /\ Append(body[held[1].id], held[1].chunk) \in Seq(Nat)
    BY <2>2 DEF Types
  <2>4. body' \in [Requests -> Seq(Nat)]
    BY <2>1, <2>3, Zenon DEF Types
  <2> QED
    BY <1>11, <2>4, Zenon DEF Deliver, Types
<1>12. CASE Discard
  BY <1>12 DEF Discard, Types
<1>13. CASE failAll
  <2>1. cause' \in [Requests -> {"none", "end", "error"}]
    BY <1>13 DEF failAll, Types
  <2> QED
    BY <1>13, <2>1 DEF failAll, Types
<1>14. CASE Aside
  BY <1>14, AsideIsStill DEF Still, Types
<1>15. ASSUME NEW r \in Requests, BrowserGone(r) PROVE Types'
  BY <1>15 DEF BrowserGone, Types
<1> QED
  BY <1>2, <1>3, <1>4, <1>6, <1>7, <1>8, <1>9, <1>10, <1>11, <1>12, <1>13, <1>14, <1>15, StepCases,
     Zenon DEF HandlerStep, ClientFrame

(* No handler goes back to where it has not started. *)
LEMMA NeverIdleAgain ==
  ASSUME Types, [Next]_vars, NEW r \in Requests, pc[r] # "idle"
  PROVE  pc'[r] # "idle"
<1> USE DEF Types, Goto
<1>1. ASSUME NEW q \in Requests,
             TryStart(q) \/ HandlerStep(q) \/ ChunkWritten(q) \/ ReadBody(q) \/ BodyReadFails(q)
      PROVE  \E l : l # "idle" /\ pc' = [pc EXCEPT ![q] = l]
  <2>1. CASE AwaitHeaders(q)
    <3>1. WriteHeader(q) \/ TakeErr(q)
      BY <2>1, Zenon DEF AwaitHeaders
    <3> QED
      BY <3>1, Zenon DEF WriteHeader, TakeErr, BadGateway
  <2>2. CASE \/ TryStart(q) \/ Forward(q) \/ ForwardFails(q)
             \/ ReadBody(q) \/ BodyReadFails(q) \/ ForwardCancelled(q)
    BY <2>2, Zenon DEF TryStart, Forward, ForwardFails, ReadBody, BodyReadFails, BadGateway, ForwardCancelled
  <2>3. CASE TakeChunk(q) \/ ChunkWritten(q) \/ Cancelled(q) \/ SeeDone(q) \/ EndOfBody(q) \/ FinishRequest(q)
    BY <2>3, Zenon DEF TakeChunk, ChunkWritten, Cancelled, SeeDone, EndOfBody, FinishRequest
  <2> QED
    BY <1>1, <2>1, <2>2, <2>3, Zenon DEF HandlerStep
<1>2. ASSUME NEW q \in Requests, BrowserGone(q) \/ ClientFrame(q) PROVE pc' = pc
  BY <1>2 DEF BrowserGone, ClientFrame, ReceiveStart, ReceiveBody, ReceiveEnd, Receiving, handlerVars
<1>3. Deliver \/ Discard \/ failAll \/ Aside => pc' = pc
  BY AsideIsStill DEF Deliver, Discard, failAll, Still, handlerVars
<1> QED
  BY <1>1, <1>2, <1>3, StepCases, Zenon

LEMMA QueuesStep == Types /\ Queues /\ [Next]_vars => Queues'
<1> SUFFICES ASSUME Types, Queues, [Next]_vars PROVE Queues'
  OBVIOUS
<1>1. \A i : Begun(i) => Begun(i)'
  BY NeverIdleAgain DEF Begun
<1> USE DEF Queues, sendVars, connVars
<1>2. ASSUME NEW f \in Frames, Begun(f.id), outbound' = Append(outbound, f), UNCHANGED sendVars
      PROVE  Queues'
  <2>1. outbound' \in Seq(Frames)
    BY <1>2
  <2>2. \A i \in DOMAIN outbound' : Begun(outbound'[i].id)
    BY <1>2
  <2> QED
    BY <1>1, <1>2, <2>1, <2>2
<1>3. CASE UNCHANGED <<outbound, send, inSend, wire>>
  BY <1>1, <1>3
<1>4. ASSUME NEW r \in Requests, Forward(r) PROVE Queues'
  <2>1. NewFrame(r, FrameOf(r)) \in Frames /\ NewFrame(r, FrameOf(r)).id = r
    BY DEF NewFrame, Frames, FrameOf, Types
  <2>2. Begun(r)
    BY <1>4 DEF Forward, Begun
  <2> QED
    BY <1>2, <1>4, <2>1, <2>2 DEF Forward
<1>5. ASSUME NEW r \in Requests, Cancelled(r) PROVE Queues'
  <2>1. NewFrame(r, "CancelRequest") \in Frames /\ NewFrame(r, "CancelRequest").id = r
    BY DEF NewFrame, Frames, Types
  <2>2. Begun(r)
    BY <1>5 DEF Cancelled, Begun
  <2> QED
    BY <1>2, <1>3, <1>5, <2>1, <2>2 DEF Cancelled, CancelRequest
<1>6. CASE Heartbeat
  <2>1. PingFrame \in Frames /\ PingFrame.id = NoRequest
    BY DEF Frames, PingFrame
  <2>2. Begun(NoRequest)
    BY StreamAssumption DEF Begun
  <2> QED
    BY <1>2, <1>6, <2>1, <2>2 DEF Heartbeat
<1>7. CASE TakeFrame
  <2>1. outbound # <<>> /\ inSend' = <<outbound[1]>> /\ outbound' = Tail(outbound)
    BY <1>7 DEF TakeFrame
  <2>2. outbound[1] \in Frames /\ Begun(outbound[1].id)
    BY <2>1
  <2>3. outbound' \in Seq(Frames) /\ \A i \in DOMAIN outbound' : Begun(outbound'[i].id)
    BY <2>1
  <2> QED
    BY <1>1, <1>7, <2>1, <2>2, <2>3 DEF TakeFrame
<1>8. CASE Sent
  <2>1. inSend # <<>> /\ inSend[1] \in Frames /\ Begun(inSend[1].id)
    BY <1>8 DEF Sent, Frames
  <2>2. CASE stream = "down"
    BY <1>1, <1>8, <2>2 DEF Sent
  <2>3. CASE stream # "down"
    <3>1. wire' = [r \in Requests |-> IF r = inSend[1].id THEN Append(wire[r], inSend[1]) ELSE wire[r]]
      BY <1>8, <2>3 DEF Sent
    <3>2. \A r \in Requests : wire'[r] # <<>> => Begun(r)
      BY <2>1, <3>1
    <3> QED
      BY <1>1, <1>8, <2>3, <3>2 DEF Sent
  <2> QED
    BY <2>2, <2>3
<1>9. CASE SendExits
  BY <1>1, <1>9 DEF SendExits
<1>10. ASSUME NEW r \in Requests,
              TryStart(r) \/ HandlerStep(r) \/ ChunkWritten(r) \/ ReadBody(r) \/ BodyReadFails(r),
              ~Forward(r), ~Cancelled(r)
       PROVE  UNCHANGED <<outbound, send, inSend, wire>>
  BY <1>10, Zenon DEF TryStart, HandlerStep, ChunkWritten, ReadBody, BodyReadFails, ForwardFails,
       ForwardCancelled, AwaitHeaders, TakeChunk, SeeDone, EndOfBody, FinishRequest
<1>11. ASSUME NEW r \in Requests, BrowserGone(r) \/ ClientFrame(r)
       PROVE  UNCHANGED <<outbound, send, inSend, wire>>
  BY <1>11 DEF BrowserGone, ClientFrame, ReceiveStart, ReceiveBody, ReceiveEnd, Receiving
<1>12. CASE Deliver \/ Discard \/ failAll
  BY <1>3, <1>12 DEF Deliver, Discard, failAll
<1>13. CASE Aside
  <2>1. CASE StreamEnds \/ CloseDone \/ ConnectReturns \/ Replace \/ HeartbeatExits \/ StreamFails \/ UNCHANGED vars
    BY <1>3, <2>1 DEF StreamEnds, CloseDone, ConnectReturns, Replace, HeartbeatExits, StreamFails, vars
  <2> QED
    BY <1>6, <1>7, <1>8, <1>9, <1>13, <2>1, Zenon DEF Aside
<1> HIDE DEF Queues
<1> QED
  BY <1>3, <1>4, <1>5, <1>10, <1>11, <1>12, <1>13, StepCases, Zenon

-----------------------------------------------------------------------------
(* The rest of the invariant, group of actions by group of actions. *)
Data == <<body, received, writing, held, chunks, reply, cause>>

LEMMA DataKept == ASSUME UNCHANGED Data, NEW r
                  PROVE  /\ HeldFor(r)' <=> HeldFor(r)
                         /\ InOrder(r)' <=> InOrder(r)
                         /\ Reached(r)' = Reached(r)
BY Zenon DEF Data, HeldFor, Reached, Queued, InOrder, Holding

(* What reached the browser of q stays as it is. *)
LEMMA DeliveredOn ==
  ASSUME NEW q, DeliveredOf(q), Left(q) => Left(q)',
         received'[q] = received[q], chunks'[q] = chunks[q], InOrder(q) => InOrder(q)',
         Reached(q) <= chunks[q] => Reached(q)' <= chunks[q]
  PROVE  DeliveredOf(q)'
<1>1. /\ \A i \in 1 .. Len(received'[q]) : received'[q][i] = i
      /\ Len(received'[q]) <= chunks'[q]
  BY DEF DeliveredOf
<1>2. ~Left(q)' => InOrder(q)' /\ Reached(q)' <= chunks'[q]
  BY DEF DeliveredOf
<1> QED
  BY <1>1, <1>2 DEF DeliveredOf

LEMMA DeliveredStays ==
  ASSUME Delivered, UNCHANGED Data, \A q \in Requests : Left(q) => Left(q)'
  PROVE  Delivered'
<1>1. UNCHANGED <<received, chunks>>
  BY DEF Data
<1>2. \A q \in Requests : (InOrder(q) => InOrder(q)') /\ Reached(q)' = Reached(q)
  BY DataKept
<1> QED
  BY <1>1, <1>2, DeliveredOn DEF Delivered

LEMMA StillStep == Rest /\ Still => Rest'
<1> SUFFICES ASSUME Rest, Still PROVE Rest'
  OBVIOUS
<1>1. UNCHANGED Data /\ UNCHANGED <<pc, hdr, gone, inflight>>
  BY DEF Still, Data
<1>2. Untouched'
  BY <1>1, DataKept DEF Data, Rest, Untouched
<1>3. Places'
  BY <1>1, Zenon DEF Data, Rest, Places
<1>4. Ended'
  BY <1>1, DataKept DEF Data, Rest, Ended
<1>5. Whole'
  BY <1>1, DataKept DEF Data, Rest, Whole
<1>6. Delivered'
  BY <1>1, DeliveredStays DEF Rest, Left
<1> QED
  BY <1>2, <1>3, <1>4, <1>5, <1>6 DEF Rest

LEMMA TryStartStep == ASSUME Types, Rest, NEW r \in Requests, TryStart(r) PROVE Rest'
<1>1. UNCHANGED Data /\ UNCHANGED <<hdr, gone>>
  BY DEF TryStart, Data, rsVars, connVars, clientVars
<1>2. pc[r] = "idle" /\ pc' = [pc EXCEPT ![r] = "fwd"] /\ inflight' = inflight \cup {r}
  BY DEF TryStart, Goto
<1>3. Reached(r) = 0 /\ chunks[r] = 0
  <2>1. /\ ~HeldFor(r) /\ chunks[r] = 0
        /\ body[r] = <<>> /\ received[r] = <<>> /\ writing[r] = <<>>
    BY <1>2 DEF Rest, Untouched
  <2> QED
    BY <2>1 DEF Reached, Queued, Holding
<1>4. Untouched' /\ Places' /\ Ended'
  <2>1. Untouched'
    BY <1>1, <1>2, DataKept DEF Types, Data, Rest, Untouched
  <2>2. Places'
    BY <1>1, <1>2, Zenon DEF Types, Data, Rest, Places
  <2>3. Ended'
    BY <1>1, <1>2, DataKept DEF Data, Rest, Untouched, Ended
  <2> QED
    BY <2>1, <2>2, <2>3
<1>5. Whole'
  BY <1>1, <1>2, <1>3, DataKept DEF Types, Data, Rest, Untouched, Whole
<1>6. Delivered'
  BY <1>1, <1>2, DeliveredStays, Zenon DEF Types, Rest, Left
<1> QED
  BY <1>4, <1>5, <1>6 DEF Rest

(* The handler of r goes on and leaves its response alone. *)
Moves(r) ==
  /\ UNCHANGED Data /\ UNCHANGED gone
  /\ \/ /\ pc[r] = "read" /\ pc' = [pc EXCEPT ![r] = "fwd"] /\ UNCHANGED <<hdr, inflight>>
     \/ /\ pc[r] = "fwd" /\ pc' = [pc EXCEPT ![r] = "read"] /\ UNCHANGED <<hdr, inflight>>
     \/ /\ pc[r] = "fwd" /\ pc' = [pc EXCEPT ![r] = "headers"] /\ UNCHANGED <<hdr, inflight>>
     \/ /\ pc[r] \in {"fwd", "read", "headers"} /\ pc' = [pc EXCEPT ![r] = "returning"]
        /\ hdr' = [hdr EXCEPT ![r] = "502"] /\ UNCHANGED inflight
     \/ /\ pc[r] \in {"fwd", "read"} /\ r \in gone /\ pc' = [pc EXCEPT ![r] = "returning"]
        /\ UNCHANGED <<hdr, inflight>>
     \/ /\ pc[r] = "headers" /\ pc' = [pc EXCEPT ![r] = "stream"]
        /\ hdr' = [hdr EXCEPT ![r] = "ok"] /\ UNCHANGED inflight
     \/ /\ pc[r] = "stream" /\ cause[r] # "none" /\ pc' = [pc EXCEPT ![r] = "drain"]
        /\ UNCHANGED <<hdr, inflight>>
     \/ /\ pc[r] = "drain" /\ body[r] = <<>> /\ pc' = [pc EXCEPT ![r] = "returning"]
        /\ UNCHANGED <<hdr, inflight>>
     \/ /\ pc[r] = "returning" /\ pc' = [pc EXCEPT ![r] = "returned"]
        /\ inflight' = inflight \ {r} /\ UNCHANGED hdr

LEMMA MovingActions ==
  ASSUME NEW r \in Requests,
         \/ Forward(r) \/ ForwardFails(r) \/ ReadBody(r) \/ BodyReadFails(r) \/ ForwardCancelled(r)
         \/ AwaitHeaders(r) \/ SeeDone(r) \/ EndOfBody(r) \/ FinishRequest(r)
  PROVE  Moves(r)
<1> USE DEF Moves, Data, Goto, rsVars, connVars, clientVars
<1>1. CASE Forward(r)
  BY <1>1, Zenon DEF Forward
<1>2. CASE ForwardFails(r) \/ ReadBody(r) \/ BodyReadFails(r) \/ ForwardCancelled(r)
  BY <1>2 DEF ForwardFails, ReadBody, BodyReadFails, ForwardCancelled, BadGateway
<1>3. CASE AwaitHeaders(r)
  <2>1. WriteHeader(r) \/ TakeErr(r)
    BY <1>3, Zenon DEF AwaitHeaders
  <2>2. pc[r] = "headers" /\ UNCHANGED Data /\ UNCHANGED <<inflight, gone>>
    BY <1>3, Zenon DEF AwaitHeaders
  <2> QED
    BY <2>1, <2>2, Zenon DEF WriteHeader, TakeErr, BadGateway
<1>4. CASE SeeDone(r) \/ EndOfBody(r) \/ FinishRequest(r)
  BY <1>4 DEF SeeDone, EndOfBody, Drained, FinishRequest
<1> QED
  BY <1>1, <1>2, <1>3, <1>4, Zenon

LEMMA MovesStep == ASSUME Types, Rest, NEW r \in Requests, Moves(r) PROVE Rest'
<1>1. Untouched'
  BY DataKept DEF Types, Data, Moves, Rest, Untouched
<1>2. Places'
  <2> SUFFICES ASSUME NEW q \in Requests
               PROVE  /\ pc'[q] \notin {"write", "drainWrite"} => writing[q] = <<>>
                      /\ pc'[q] \in {"drain", "drainWrite"} => cause[q] # "none"
                      /\ pc'[q] \in {"stream", "write", "drain", "drainWrite"} => hdr'[q] = "ok"
                      /\ pc'[q] \in {"returning", "returned"} /\ q \notin gone =>
                           /\ hdr'[q] # "none"
                           /\ hdr'[q] = "ok" => cause[q] # "none"
    BY Zenon DEF Places, Data, Moves
  <2>1. /\ pc[q] \notin {"write", "drainWrite"} => writing[q] = <<>>
        /\ pc[q] \in {"drain", "drainWrite"} => cause[q] # "none"
        /\ pc[q] \in {"stream", "write", "drain", "drainWrite"} => hdr[q] = "ok"
        /\ pc[q] \in {"returning", "returned"} /\ q \notin gone =>
             /\ hdr[q] # "none"
             /\ hdr[q] = "ok" => cause[q] # "none"
    BY DEF Rest, Places
  <2>2. CASE q # r
    <3>1. pc'[q] = pc[q] /\ hdr'[q] = hdr[q]
      BY <2>2, Zenon DEF Moves, Types
    <3> QED
      BY <2>1, <3>1, Zenon
  <2>3. CASE q = r
    <3>1. CASE pc[r] = "fwd"
      BY <2>1, <2>3, <3>1, Zenon DEF Moves, Types
    <3>2. CASE pc[r] = "read"
      BY <2>1, <2>3, <3>2, Zenon DEF Moves, Types
    <3>3. CASE pc[r] \notin {"fwd", "read"}
      BY <2>1, <2>3, <3>3, Zenon DEF Moves, Types
    <3> QED
      BY <3>1, <3>2, <3>3
  <2> QED
    BY <2>2, <2>3, Zenon
<1>3. Ended'
  <2>1. inflight' \subseteq inflight /\ UNCHANGED Data
    BY DEF Moves
  <2> SUFFICES ASSUME NEW q \in Requests, (q \in inflight /\ cause[q] # "none") \/ cause[q] = "end"
               PROVE  reply[q] = "over" /\ ~HeldFor(q)
    BY <2>1, DataKept DEF Ended, Data
  <2> QED
    BY DEF Ended, Rest
<1>4. Whole'
  <2>1. UNCHANGED Data /\ UNCHANGED gone
    BY Zenon DEF Moves
  <2> SUFFICES ASSUME NEW q \in Requests
               PROVE  /\ q \in inflight' /\ (pc'[q] # "returning" \/ q \notin gone) => Reached(q) = chunks[q]
                      /\ cause[q] = "end" /\ q \notin gone /\ hdr'[q] = "ok"
                           /\ pc'[q] \in {"returning", "returned"} => body[q] = <<>>
    BY <2>1, DataKept, Zenon DEF Rest, Whole, Data
  <2>2. /\ q \in inflight /\ (pc[q] # "returning" \/ q \notin gone) => Reached(q) = chunks[q]
        /\ cause[q] = "end" /\ q \notin gone /\ hdr[q] = "ok" /\ pc[q] \in {"returning", "returned"}
             => body[q] = <<>>
    BY DEF Rest, Whole
  <2>3. CASE q # r
    BY <2>2, <2>3, Zenon DEF Moves, Types
  <2>4. CASE q = r
    BY <2>2, <2>4 DEF Moves, Types
  <2> QED
    BY <2>3, <2>4
<1>5. Delivered'
  <2>1. ASSUME NEW q \in Requests, Left(q) PROVE Left(q)'
    <3>1. CASE q # r
      BY <2>1, <3>1 DEF Moves, Types, Left
    <3>2. CASE q = r
      BY <2>1, <3>2 DEF Moves, Types, Left
    <3> QED
      BY <3>1, <3>2
  <2> QED
    BY <2>1, DeliveredStays DEF Moves, Rest
<1> QED
  BY <1>1, <1>2, <1>3, <1>4, <1>5, Zenon DEF Rest

LEMMA BrowserGoneStep == ASSUME Rest, NEW r \in Requests, BrowserGone(r) PROVE Rest'
<1>1. UNCHANGED Data /\ UNCHANGED <<pc, hdr, inflight>> /\ gone' = gone \cup {r}
  BY Zenon DEF BrowserGone, Data, rsVars, handlerVars, connVars, clientVars
<1>2. Untouched'
  BY <1>1, DataKept, Zenon DEF Data, Rest, Untouched
<1>3. Places'
  BY <1>1, Zenon DEF Data, Rest, Places
<1>4. Ended'
  BY <1>1, DataKept, Zenon DEF Data, Rest, Ended
<1>5. Whole'
  BY <1>1, DataKept DEF Data, Rest, Whole
<1>6. Delivered'
  BY <1>1, DeliveredStays DEF Rest, Left
<1> QED
  BY <1>2, <1>3, <1>4, <1>5, <1>6 DEF Rest

(* What a step leaves alone of the response to q. *)
Kept(q) ==
  /\ body'[q] = body[q] /\ received'[q] = received[q] /\ writing'[q] = writing[q]
  /\ HeldFor(q) \/ HeldFor(q)' => held' = held

LEMMA ResponseKept == ASSUME NEW q, Kept(q)
                      PROVE  /\ HeldFor(q)' <=> HeldFor(q)
                             /\ InOrder(q)' <=> InOrder(q)
                             /\ Reached(q)' = Reached(q)
BY Zenon DEF Kept, HeldFor, Reached, Queued, InOrder, Holding

LEMMA DeliveredKept ==
  ASSUME NEW q, DeliveredOf(q), Kept(q), pc'[q] = pc[q], chunks'[q] = chunks[q]
  PROVE  DeliveredOf(q)'
<1>1. received'[q] = received[q] /\ (Left(q) => Left(q)')
  BY DEF Kept, Left
<1>2. (InOrder(q) => InOrder(q)') /\ Reached(q)' = Reached(q)
  BY ResponseKept
<1> QED
  BY <1>1, <1>2, DeliveredOn

LEMMA CancelledStep == ASSUME Types, Rest, NEW r \in Requests, Cancelled(r) PROVE Rest'
<1>1. /\ pc[r] \in {"headers", "stream", "write", "drainWrite"} /\ r \in gone
      /\ writing' = [writing EXCEPT ![r] = <<>>] /\ pc' = [pc EXCEPT ![r] = "returning"]
      /\ UNCHANGED <<inflight, body, cause, hdr, received, gone, held, reply, chunks>>
  BY DEF Cancelled, Goto, rsVars, connVars, clientVars
<1>2. \A q \in Requests \ {r} : Kept(q)
  BY <1>1 DEF Kept, Types
<1>3. \A q : HeldFor(q)' <=> HeldFor(q)
  BY <1>1 DEF HeldFor
<1>4. Untouched' /\ Places' /\ Ended'
  <2>1. Untouched'
    BY <1>1, <1>3 DEF Types, Rest, Untouched
  <2>2. Places'
    BY <1>1, Zenon DEF Types, Rest, Places
  <2>3. Ended'
    BY <1>1, <1>3, Zenon DEF Rest, Ended
  <2> QED
    BY <2>1, <2>2, <2>3
<1>5. Whole'
  BY <1>1, <1>2, ResponseKept, Zenon DEF Types, Rest, Whole
<1>6. ASSUME NEW q \in Requests PROVE DeliveredOf(q)'
  <2>1. CASE q = r
    <3>1. Left(q)' /\ received'[q] = received[q] /\ chunks'[q] = chunks[q]
      BY <1>1, <2>1 DEF Left, Types
    <3> QED
      BY <3>1 DEF Rest, Delivered, DeliveredOf
  <2>2. CASE q # r
    <3>1. pc'[q] = pc[q] /\ chunks'[q] = chunks[q] /\ Kept(q)
      BY <1>1, <1>2, <2>2 DEF Types
    <3> QED
      BY <3>1, DeliveredKept DEF Rest, Delivered
  <2> QED
    BY <2>1, <2>2
<1> QED
  BY <1>4, <1>5, <1>6 DEF Rest, Delivered

LEMMA DiscardStep == ASSUME Types, Rest, Discard PROVE Rest'
<1>1. /\ held # <<>> /\ cause[held[1].id] # "none" /\ held' = <<>>
      /\ UNCHANGED <<inflight, body, cause, pc, hdr, received, writing, gone, reply, chunks>>
  BY DEF Discard, Unblocked, rsVars, handlerVars, clientVars
<1>2. \A q : ~HeldFor(q)'
  BY <1>1 DEF HeldFor
<1>3. Untouched' /\ Places' /\ Ended'
  <2>1. Untouched'
    BY <1>1, <1>2, Zenon DEF Rest, Untouched
  <2>2. Places'
    BY <1>1 DEF Rest, Places
  <2>3. Ended'
    BY <1>1, <1>2 DEF Rest, Ended
  <2> QED
    BY <2>1, <2>2, <2>3, Zenon
<1>4. \A q \in Requests : HeldFor(q) => q \notin inflight /\ cause[q] # "end"
  BY <1>1 DEF Rest, Ended, HeldFor
<1>5. \A q \in Requests : ~HeldFor(q) => Reached(q)' = Reached(q)
  BY <1>1, <1>2, Zenon DEF Reached, Holding, Queued
<1>6. \A q \in Requests : InOrder(q) => InOrder(q)'
  BY <1>1, <1>2, Zenon DEF InOrder, Holding, Queued
<1>7. Whole'
  BY <1>1, <1>4, <1>5, <1>6, Zenon DEF Rest, Whole
<1>8. ASSUME NEW q \in Requests PROVE DeliveredOf(q)'
  <2>1. Reached(q) <= chunks[q] => Reached(q)' <= chunks[q]
    <3>1. Queued(q) \in Nat /\ chunks[q] \in Nat
      BY DEF Queued, Types
    <3>2. Reached(q)' = Queued(q)
      BY <1>1, <1>2, Zenon DEF Reached, Holding, Queued
    <3>3. Reached(q) = Queued(q) \/ Reached(q) = Queued(q) + 1
      BY DEF Reached
    <3> QED
      BY <3>1, <3>2, <3>3
  <2>2. UNCHANGED <<received, chunks>> /\ (Left(q) => Left(q)')
    BY <1>1 DEF Left
  <2> QED
    BY <1>6, <2>1, <2>2, DeliveredOn DEF Rest, Delivered
<1> QED
  BY <1>3, <1>7, <1>8, Zenon DEF Rest, Delivered

LEMMA FailAllStep == ASSUME Types, Rest, failAll PROVE Rest'
<1>1. /\ \A q \in Requests : cause'[q] = IF q \in inflight /\ cause[q] = "none" THEN "error" ELSE cause[q]
      /\ inflight' = {}
      /\ UNCHANGED <<body, pc, hdr, received, writing, gone, held, reply, chunks>>
  BY DEF failAll, handlerVars, clientVars
<1>2. \A q \in Requests : Kept(q)
  BY <1>1 DEF Kept
<1>3. \A q \in Requests : /\ HeldFor(q)' <=> HeldFor(q)
                          /\ InOrder(q)' <=> InOrder(q)
                          /\ Reached(q)' = Reached(q)
  BY <1>2, ResponseKept
<1>4. \A q \in Requests : /\ cause'[q] = "end" <=> cause[q] = "end"
                          /\ cause[q] # "none" => cause'[q] # "none"
                          /\ q \notin inflight => cause'[q] = cause[q]
  BY <1>1, Zenon
<1>5. Untouched'
  BY <1>1, <1>3, <1>4 DEF Rest, Untouched
<1>6. Places'
  BY <1>1, <1>4, Zenon DEF Rest, Places
<1>7. Ended'
  BY <1>1, <1>3, <1>4 DEF Rest, Ended
<1>8. Whole'
  BY <1>1, <1>3, <1>4, Zenon DEF Rest, Whole
<1>9. \A q \in Requests : DeliveredOf(q)'
  BY <1>1, <1>2, DeliveredKept DEF Rest, Delivered
<1> QED
  BY <1>5, <1>6, <1>7, <1>8, <1>9 DEF Rest, Delivered

LEMMA TakeChunkStep == ASSUME Types, Rest, NEW r \in Requests, TakeChunk(r) PROVE Rest'
<1>1. /\ pc[r] \in {"stream", "drain"} /\ body[r] # <<>>
      /\ writing' = [writing EXCEPT ![r] = <<Head(body[r])>>]
      /\ body' = [body EXCEPT ![r] = Tail(@)]
      /\ pc' = [pc EXCEPT ![r] = IF pc[r] = "stream" THEN "write" ELSE "drainWrite"]
      /\ UNCHANGED <<inflight, cause, hdr, received, gone, held, reply, chunks>>
  BY DEF TakeChunk, Goto, connVars, clientVars
<1>2. \A q \in Requests \ {r} : Kept(q)
  BY <1>1 DEF Kept, Types
<1>3. \A q : (HeldFor(q)' <=> HeldFor(q)) /\ (Holding(q)' <=> Holding(q))
  BY <1>1, Zenon DEF HeldFor, Holding
<1>4. Untouched' /\ Places' /\ Ended'
  <2>1. Untouched'
    BY <1>1, <1>3, Zenon DEF Types, Rest, Untouched
  <2>2. Places'
    BY <1>1, Zenon DEF Types, Rest, Places
  <2>3. Ended'
    BY <1>1, <1>3, Zenon DEF Rest, Ended
  <2> QED
    BY <2>1, <2>2, <2>3
<1>5. /\ writing[r] = <<>> /\ writing'[r] = <<body[r][1]>> /\ received'[r] = received[r]
      /\ Len(body'[r]) = Len(body[r]) - 1
      /\ \A i \in 1 .. Len(body'[r]) : body'[r][i] = body[r][i + 1]
      /\ Len(body[r]) \in Nat \ {0} /\ Len(received[r]) \in Nat
  <2>1. body[r] \in Seq(Nat) /\ received[r] \in Seq(Nat) /\ body[r] # <<>>
    BY <1>1 DEF Types
  <2>2. /\ writing'[r] = <<Head(body[r])>> /\ received'[r] = received[r]
        /\ body'[r] = Tail(body[r])
    BY <1>1 DEF Types
  <2>3. writing[r] = <<>>
    BY <1>1 DEF Rest, Places
  <2>4. /\ Head(body[r]) = body[r][1] /\ Len(Tail(body[r])) = Len(body[r]) - 1
        /\ \A i \in 1 .. Len(Tail(body[r])) : Tail(body[r])[i] = body[r][i + 1]
        /\ Len(body[r]) \in Nat \ {0} /\ Len(received[r]) \in Nat
    BY <2>1
  <2> QED
    BY <2>2, <2>3, <2>4
<1>6. Queued(r)' = Queued(r)
  <2>1. Len(writing[r]) = 0 /\ Len(writing'[r]) = 1
    BY <1>5
  <2>2. /\ Len(body[r]) = Len(body'[r]) + 1 /\ Len(body'[r]) \in Nat
        /\ Len(received'[r]) = Len(received[r]) /\ Len(received[r]) \in Nat
    BY <1>5
  <2>3. \A m, n \in Nat : m + 1 + n = m + 0 + (n + 1)
    OBVIOUS
  <2> QED
    BY <2>1, <2>2, <2>3, Zenon DEF Queued
<1>7. Reached(r)' = Reached(r)
  BY <1>3, <1>6 DEF Reached
<1>8. InOrder(r) => InOrder(r)'
  <2> SUFFICES ASSUME InOrder(r) PROVE InOrder(r)'
    BY Zenon
  <2>1. Holding(r)' => held'[1].chunk = Queued(r)' + 1
    BY <1>1, <1>3, <1>6, Zenon DEF InOrder
  <2>2. /\ Len(writing[r]) = 0 /\ Len(writing'[r]) = 1 /\ writing'[r][1] = body[r][1]
        /\ Len(received'[r]) = Len(received[r]) /\ Len(received[r]) \in Nat
    BY <1>5
  <2>3. \A i \in 1 .. Len(body[r]) : body[r][i] = Len(received[r]) + i
    BY <2>2 DEF InOrder
  <2>4. \A i \in 1 .. Len(writing'[r]) : writing'[r][i] = Len(received'[r]) + i
    <3>1. 1 \in 1 .. Len(body[r]) /\ \A i \in 1 .. 1 : i = 1
      BY <1>5
    <3> QED
      BY <2>2, <2>3, <3>1
  <2>5. ASSUME NEW i \in 1 .. Len(body'[r])
        PROVE  body'[r][i] = Len(received'[r]) + Len(writing'[r]) + i
    <3>1. i + 1 \in 1 .. Len(body[r]) /\ body'[r][i] = body[r][i + 1]
      BY <1>5
    <3>2. body'[r][i] = Len(received[r]) + (i + 1) /\ i \in Nat
      BY <2>3, <3>1
    <3>3. \A m, n \in Nat : m + (n + 1) = m + 1 + n
      OBVIOUS
    <3>4. body'[r][i] = Len(received[r]) + 1 + i
      BY <2>2, <3>2, <3>3, Zenon
    <3> QED
      BY <2>2, <3>4, Zenon
  <2>6. \A i \in 1 .. Len(received'[r]) : received'[r][i] = i
    BY <1>5 DEF InOrder
  <2> QED
    BY <2>1, <2>4, <2>5, <2>6, Zenon DEF InOrder
<1>9. \A q \in Requests : Reached(q)' = Reached(q) /\ (InOrder(q) => InOrder(q)')
  BY <1>2, <1>7, <1>8, ResponseKept, Zenon
<1>10. Whole'
  BY <1>1, <1>9, Zenon DEF Types, Rest, Whole
<1>11. ASSUME NEW q \in Requests PROVE DeliveredOf(q)'
  <2>1. Left(q) => Left(q)'
    BY <1>1, Zenon DEF Types, Left
  <2> QED
    BY <1>1, <1>9, <2>1, DeliveredOn DEF Rest, Delivered
<1> QED
  BY <1>4, <1>10, <1>11 DEF Rest, Delivered

LEMMA ChunkWrittenStep == ASSUME Types, Rest, NEW r \in Requests, ChunkWritten(r) PROVE Rest'
<1>1. /\ pc[r] \in {"write", "drainWrite"}
      /\ received' = [received EXCEPT ![r] = @ \o writing[r]]
      /\ writing' = [writing EXCEPT ![r] = <<>>]
      /\ pc' = [pc EXCEPT ![r] = IF pc[r] = "write" THEN "stream" ELSE "drain"]
      /\ UNCHANGED <<inflight, body, cause, hdr, gone, held, reply, chunks>>
  BY Zenon DEF ChunkWritten, Goto, rsVars, connVars, clientVars
<1>2. \A q \in Requests \ {r} : Kept(q)
  BY <1>1, Zenon DEF Kept, Types
<1>3. \A q : (HeldFor(q)' <=> HeldFor(q)) /\ (Holding(q)' <=> Holding(q))
  BY <1>1, Zenon DEF HeldFor, Holding
<1>4. Untouched' /\ Places' /\ Ended'
  <2>1. Untouched'
    BY <1>1, <1>3, Zenon DEF Types, Rest, Untouched
  <2>2. Places'
    BY <1>1, Zenon DEF Types, Rest, Places
  <2>3. Ended'
    BY <1>1, <1>3, Zenon DEF Rest, Ended
  <2> QED
    BY <2>1, <2>2, <2>3
<1>5. /\ writing'[r] = <<>> /\ body'[r] = body[r] /\ received'[r] = received[r] \o writing[r]
      /\ received[r] \in Seq(Nat) /\ writing[r] \in Seq(Nat) /\ body[r] \in Seq(Nat)
  BY <1>1, Zenon DEF Types
<1>6. /\ Len(received'[r]) = Len(received[r]) + Len(writing[r])
      /\ Len(writing'[r]) = 0 /\ Len(body'[r]) = Len(body[r])
      /\ Len(received[r]) \in Nat /\ Len(writing[r]) \in Nat /\ Len(body[r]) \in Nat
  BY <1>5
<1>7. Queued(r)' = Queued(r)
  BY <1>6 DEF Queued
<1>8. Reached(r)' = Reached(r)
  BY <1>3, <1>7 DEF Reached
<1>9. InOrder(r) => InOrder(r)'
  <2> SUFFICES ASSUME InOrder(r) PROVE InOrder(r)'
    BY Zenon
  <2>1. Holding(r)' => held'[1].chunk = Queued(r)' + 1
    BY <1>1, <1>3, <1>7 DEF InOrder
  <2>2. \A i \in 1 .. Len(received'[r]) : received'[r][i] = i
    BY <1>5, Joined, Zenon DEF InOrder
  <2>3. \A i \in 1 .. Len(body[r]) : body[r][i] = Len(received'[r]) + Len(writing'[r]) + i
    <3>1. \A i \in 1 .. Len(body[r]) : body[r][i] = Len(received[r]) + Len(writing[r]) + i
      BY Zenon DEF InOrder
    <3>2. Len(received'[r]) + Len(writing'[r]) = Len(received[r]) + Len(writing[r])
      BY <1>6
    <3> QED
      BY <3>1, <3>2, Zenon
  <2>4. Len(writing'[r]) = 0
    BY <1>6, Zenon
  <2> QED
    <3>1. \A i \in 1 .. Len(writing'[r]) : writing'[r][i] = Len(received'[r]) + i
      BY <2>4
    <3>2. \A i \in 1 .. Len(body'[r]) : body'[r][i] = Len(received'[r]) + Len(writing'[r]) + i
      BY <1>5, <2>3, Zenon
    <3> QED
      BY <2>1, <2>2, <3>1, <3>2, Zenon DEF InOrder
<1>10. \A q \in Requests : Reached(q)' = Reached(q) /\ (InOrder(q) => InOrder(q)')
  BY <1>2, <1>8, <1>9, ResponseKept, Zenon
<1>11. Whole'
  BY <1>1, <1>10 DEF Types, Rest, Whole
<1>12. ASSUME NEW q \in Requests PROVE DeliveredOf(q)'
  <2>1. CASE q = r
    <3>1. ~Left(r)
      BY <1>1 DEF Left
    <3>2. InOrder(r)' /\ Reached(r)' <= chunks[r] /\ chunks[r] \in Nat /\ chunks'[r] = chunks[r]
      BY <1>1, <1>8, <1>9, <3>1 DEF Rest, Delivered, DeliveredOf, Types
    <3> DEFINE n == Len(received'[r])
    <3>3. Reached(r)' = Queued(r)' \/ Reached(r)' = Queued(r)' + 1
      BY DEF Reached
    <3>4. Queued(r)' = n + 0 + Len(body[r])
      BY <1>5, <1>6 DEF Queued
    <3>5. n \in Nat /\ Len(body[r]) \in Nat
      <4>1. \A t, u \in Seq(Nat) : Len(t \o u) \in Nat /\ Len(t) \in Nat
        OBVIOUS
      <4> QED
        BY <1>5, <4>1, Zenon
    <3>6. Len(received'[r]) <= chunks'[r]
      <4>1. \A x, y, z \in Nat : (x + 0 + y <= z => x <= z) /\ (x + 0 + y + 1 <= z => x <= z)
        OBVIOUS
      <4>2. n + 0 + Len(body[r]) <= chunks[r] \/ n + 0 + Len(body[r]) + 1 <= chunks[r]
        BY <3>2, <3>3, <3>4, Zenon
      <4> QED
        BY <3>2, <3>5, <4>1, <4>2, Zenon
    <3> HIDE DEF n
    <3> QED
      BY <2>1, <3>2, <3>6, Zenon DEF DeliveredOf, InOrder
  <2>2. CASE q # r
    <3>1. pc'[q] = pc[q] /\ chunks'[q] = chunks[q] /\ Kept(q)
      BY <1>1, <1>2, <2>2, Zenon DEF Types
    <3> QED
      BY <3>1, DeliveredKept DEF Rest, Delivered
  <2> QED
    BY <2>1, <2>2
<1> QED
  BY <1>4, <1>11, <1>12 DEF Rest, Delivered

LEMMA DeliverStep == ASSUME Types, Rest, Deliver PROVE Rest'
<1>1. /\ held # <<>> /\ held' = <<>>
      /\ UNCHANGED <<inflight, cause, pc, hdr, received, writing, gone, reply, chunks>>
  BY Zenon DEF Deliver, handlerVars, clientVars
<1> PICK r \in Requests, n \in Nat : r = held[1].id /\ n = held[1].chunk
  BY <1>1 DEF Types
<1>2. HeldFor(r) /\ r = held[1].id /\ n = held[1].chunk
  BY <1>1 DEF HeldFor
<1>3. \A q : ~HeldFor(q)' /\ ~Holding(q)'
  BY <1>1 DEF HeldFor, Holding
<1>4. /\ n = 0 => body' = body
      /\ n > 0 => body' = [body EXCEPT ![r] = Append(@, n)]
  <2>1. \/ n = 0 /\ body' = body
        \/ n > 0 /\ body' = [body EXCEPT ![r] = Append(@, n)]
    BY <1>2, Zenon DEF Deliver, DeliverBody
  <2> QED
    BY <2>1
<1>5. \A q \in Requests \ {r} : body'[q] = body[q] /\ ~HeldFor(q)
  BY <1>2, <1>4 DEF Types, HeldFor
<1>6. Untouched' /\ Places' /\ Ended'
  <2>1. Untouched'
    BY <1>1, <1>2, <1>3, <1>5, Zenon DEF Rest, Untouched
  <2>2. Places'
    BY <1>1, Zenon DEF Rest, Places
  <2>3. Ended'
    BY <1>1, <1>3, Zenon DEF Rest, Ended
  <2> QED
    BY <2>1, <2>2, <2>3
<1>7. ASSUME NEW q \in Requests \ {r}
      PROVE  (InOrder(q)' <=> InOrder(q)) /\ Reached(q)' = Reached(q)
  <2>1. Kept(q)
    BY <1>1, <1>3, <1>5, Zenon DEF Kept
  <2> QED
    BY <2>1, ResponseKept, Zenon
<1>8. Reached(r)' = Reached(r) /\ (InOrder(r) => InOrder(r)')
  <2>1. CASE n = 0
    <3>1. ~Holding(r) /\ ~Holding(r)' /\ UNCHANGED <<body, received, writing>>
      BY <1>1, <1>2, <1>3, <1>4, <2>1 DEF Holding
    <3> QED
      BY <3>1, Zenon DEF Reached, Queued, InOrder
  <2>2. CASE n > 0
    <3>1. /\ body[r] \in Seq(Nat) /\ body'[r] = Append(body[r], n) /\ Holding(r)
          /\ Len(received[r]) \in Nat /\ Len(writing[r]) \in Nat
          /\ received'[r] = received[r] /\ writing'[r] = writing[r]
      BY <1>1, <1>2, <1>4, <2>2 DEF Types, Holding
    <3>2. Len(body[r]) \in Nat /\ Len(body'[r]) = Len(body[r]) + 1
      BY <3>1
    <3> DEFINE a == Len(received[r])
               b == Len(writing[r])
               c == Len(body[r])
    <3>3. a \in Nat /\ b \in Nat /\ c \in Nat
      BY <3>1, <3>2
    <3>4. a + b + (c + 1) = a + b + c + 1
      <4> HIDE DEF a, b, c
      <4> QED
        BY <3>3
    <3>5. Reached(r)' = Reached(r)
      <4>1. Queued(r) = a + b + c
        BY Zenon DEF Queued
      <4>2. Reached(r) = Queued(r) + 1 /\ Reached(r)' = Queued(r)'
        BY <1>3, <3>1, Zenon DEF Reached
      <4>3. Queued(r)' = a + b + (c + 1)
        BY <3>1, <3>2 DEF Queued
      <4> HIDE DEF a, b, c
      <4> QED
        BY <3>4, <4>1, <4>2, <4>3
    <3>6. ASSUME InOrder(r), NEW i \in 1 .. Len(body'[r])
          PROVE  body'[r][i] = Len(received[r]) + Len(writing[r]) + i
      <4>1. CASE i \in 1 .. Len(body[r])
        <5>1. body'[r][i] = body[r][i]
          BY <3>1, <4>1
        <5> QED
          BY <3>6, <4>1, <5>1, Zenon DEF InOrder
      <4>2. CASE i = Len(body[r]) + 1
        <5>1. body'[r][i] = n
          BY <3>1, <4>2
        <5>2. n = a + b + c + 1
          <6>1. n = Queued(r) + 1
            BY <1>2, <3>1, <3>6 DEF InOrder
          <6> QED
            BY <6>1, Zenon DEF Queued
        <5>3. i = c + 1
          BY <4>2
        <5>4. body'[r][i] = a + b + i
          <6> HIDE DEF a, b, c
          <6> QED
            BY <3>4, <5>1, <5>2, <5>3
        <5> QED
          BY <5>4, Zenon
      <4>3. i \in 1 .. Len(body[r]) \/ i = Len(body[r]) + 1
        BY <3>2
      <4> QED
        BY <4>1, <4>2, <4>3, Zenon
    <3>7. ASSUME InOrder(r) PROVE InOrder(r)'
      <4>1. /\ \A i \in 1 .. Len(received'[r]) : received'[r][i] = i
            /\ \A i \in 1 .. Len(writing'[r]) : writing'[r][i] = Len(received'[r]) + i
        BY <3>1, <3>7, Zenon DEF InOrder
      <4>2. \A i \in 1 .. Len(body'[r]) : body'[r][i] = Len(received'[r]) + Len(writing'[r]) + i
        BY <3>1, <3>6, <3>7, Zenon
      <4> QED
        BY <1>3, <4>1, <4>2, Zenon DEF InOrder
    <3> QED
      BY <3>5, <3>7, Zenon
  <2> QED
    BY <2>1, <2>2
<1>9. cause[r] # "end"
  BY <1>2, Zenon DEF Rest, Ended
<1>10. Whole'
  <2> SUFFICES ASSUME NEW q \in Requests
               PROVE  /\ q \notin gone => InOrder(q)'
                      /\ q \in inflight /\ (pc[q] # "returning" \/ q \notin gone) => Reached(q)' = chunks[q]
                      /\ cause[q] = "end" /\ q \notin gone => Reached(q)' = chunks[q]
                      /\ cause[q] = "end" /\ q \notin gone /\ hdr[q] = "ok"
                           /\ pc[q] \in {"returning", "returned"} => body'[q] = <<>>
    BY <1>1, Zenon DEF Whole
  <2>1. CASE q = r
    BY <1>8, <1>9, <2>1, Zenon DEF Rest, Whole
  <2>2. CASE q # r
    BY <1>5, <1>7, <2>2, Zenon DEF Rest, Whole
  <2> QED
    BY <2>1, <2>2, Zenon
<1>11. ASSUME NEW q \in Requests PROVE DeliveredOf(q)'
  <2>1. UNCHANGED <<received, chunks>> /\ (Left(q) => Left(q)')
    BY <1>1, Zenon DEF Left
  <2>2. Reached(q)' = Reached(q) /\ (InOrder(q) => InOrder(q)')
    BY <1>7, <1>8
  <2> QED
    BY <2>1, <2>2, DeliveredOn DEF Rest, Delivered
<1> QED
  BY <1>6, <1>10, <1>11 DEF Rest, Delivered

LEMMA ReceiveStartStep == ASSUME Types, Queues, Rest, NEW r \in Requests, ReceiveStart(r) PROVE Rest'
<1>1. /\ held = <<>> /\ reply[r] = "start" /\ reply' = [reply EXCEPT ![r] = "body"]
      /\ held' = IF r \in inflight THEN <<[id |-> r, chunk |-> 0]>> ELSE held
      /\ UNCHANGED <<inflight, body, cause, pc, hdr, received, writing, gone, chunks>>
  BY DEF ReceiveStart, Receiving, Hold, Lookup, handlerVars
<1>2. pc[r] # "idle"
  BY DEF ReceiveStart, Receiving, Queues, Begun
<1>3. \A q : ~HeldFor(q) /\ (HeldFor(q)' => q = r /\ r \in inflight)
  BY <1>1 DEF HeldFor
<1>4. \A q : ~Holding(q) /\ ~Holding(q)'
  BY <1>1 DEF HeldFor, Holding
<1>5. ~(r \in inflight /\ cause[r] # "none") /\ cause[r] # "end"
  BY <1>1 DEF Rest, Ended
<1>6. Untouched' /\ Places' /\ Ended'
  <2>1. Untouched'
    BY <1>1, <1>2, <1>3 DEF Rest, Untouched
  <2>2. Places'
    BY <1>1, Zenon DEF Rest, Places
  <2>3. Ended'
    BY <1>1, <1>3, <1>5 DEF Types, Rest, Ended
  <2> QED
    BY <2>1, <2>2, <2>3, Zenon
<1>7. \A q \in Requests : Reached(q)' = Reached(q) /\ (InOrder(q)' <=> InOrder(q))
  BY <1>1, <1>4, Zenon DEF Reached, Queued, InOrder
<1>8. Whole'
  BY <1>1, <1>7 DEF Rest, Whole
<1>9. ASSUME NEW q \in Requests PROVE DeliveredOf(q)'
  BY <1>1, <1>7, DeliveredOn, Zenon DEF Rest, Delivered, Left
<1> QED
  BY <1>6, <1>8, <1>9, Zenon DEF Rest, Delivered

LEMMA ReceiveBodyStep == ASSUME Types, Queues, Rest, NEW r \in Requests, ReceiveBody(r) PROVE Rest'
<1>1. /\ held = <<>> /\ reply[r] = "body" /\ chunks' = [chunks EXCEPT ![r] = @ + 1]
      /\ held' = IF r \in inflight THEN <<[id |-> r, chunk |-> chunks[r] + 1]>> ELSE held
      /\ UNCHANGED <<inflight, body, cause, pc, hdr, received, writing, gone, reply>>
  BY Zenon DEF ReceiveBody, Receiving, Hold, Lookup, handlerVars
<1>2. pc[r] # "idle"
  BY Zenon DEF ReceiveBody, Receiving, Queues, Begun
<1>3. \A q : ~HeldFor(q) /\ ~Holding(q) /\ (HeldFor(q)' => q = r /\ r \in inflight)
  BY <1>1, Zenon DEF HeldFor, Holding
<1>4. ~(r \in inflight /\ cause[r] # "none") /\ cause[r] # "end"
  BY <1>1, Zenon DEF Rest, Ended
<1>5. Untouched' /\ Places' /\ Ended'
  <2>1. Untouched'
    BY <1>1, <1>2, <1>3 DEF Types, Rest, Untouched
  <2>2. Places'
    BY <1>1 DEF Rest, Places
  <2>3. Ended'
    BY <1>1, <1>3, <1>4, Zenon DEF Rest, Ended
  <2> QED
    BY <2>1, <2>2, <2>3, Zenon
<1>6. ASSUME NEW q \in Requests \ {r}
      PROVE  (InOrder(q)' <=> InOrder(q)) /\ Reached(q)' = Reached(q)
  <2>1. Kept(q)
    BY <1>1, <1>3, Zenon DEF Kept
  <2> QED
    BY <2>1, ResponseKept, Zenon
<1>7. Queued(r)' = Queued(r) /\ Reached(r) = Queued(r)
  BY <1>1, <1>3, Zenon DEF Queued, Reached
<1>8. chunks[r] \in Nat /\ chunks'[r] = chunks[r] + 1 /\ \A q \in Requests \ {r} : chunks'[q] = chunks[q]
  BY <1>1, Zenon DEF Types
<1>9. /\ r \notin inflight => (InOrder(r) => InOrder(r)') /\ Reached(r)' = Queued(r)
      /\ r \in inflight => /\ Reached(r)' = Queued(r) + 1
                           /\ InOrder(r) /\ Queued(r) = chunks[r] => InOrder(r)'
                           /\ pc[r] # "returning" \/ r \notin gone => Queued(r) = chunks[r]
  <2>1. CASE r \notin inflight
    <3>1. held' = held
      BY <1>1, <2>1
    <3>2. InOrder(r) => InOrder(r)'
      BY <1>1, <3>1, Zenon DEF InOrder, Holding, HeldFor, Queued
    <3>3. ~Holding(r)'
      BY <1>3, <3>1, Zenon DEF Holding, HeldFor
    <3> QED
      BY <1>7, <2>1, <3>2, <3>3, Zenon DEF Reached
  <2>2. CASE r \in inflight
    <3>1. Holding(r)' /\ held'[1].chunk = chunks[r] + 1
      BY <1>1, <1>8, <2>2 DEF Holding, HeldFor
    <3>2. Reached(r)' = Queued(r) + 1
      BY <1>7, <3>1, Zenon DEF Reached
    <3>3. pc[r] # "returning" \/ r \notin gone => Queued(r) = chunks[r]
      BY <1>7, <2>2 DEF Rest, Whole
    <3>4. ASSUME InOrder(r), Queued(r) = chunks[r] PROVE InOrder(r)'
      <4>1. held'[1].chunk = Queued(r)' + 1
        BY <1>7, <3>1, <3>4
      <4> QED
        BY <1>1, <3>4, <4>1, Zenon DEF InOrder
    <3> QED
      BY <2>2, <3>2, <3>3, <3>4, Zenon
  <2> QED
    BY <2>1, <2>2, Zenon
<1>10. Whole'
  <2> SUFFICES ASSUME NEW q \in Requests
               PROVE  /\ q \notin gone => InOrder(q)'
                      /\ q \in inflight /\ (pc[q] # "returning" \/ q \notin gone) => Reached(q)' = chunks'[q]
                      /\ cause[q] = "end" /\ q \notin gone => Reached(q)' = chunks'[q]
                      /\ cause[q] = "end" /\ q \notin gone /\ hdr[q] = "ok"
                           /\ pc[q] \in {"returning", "returned"} => body[q] = <<>>
    BY <1>1, Zenon DEF Whole
  <2>1. CASE q = r
    <3>1. q \notin gone => InOrder(r)
      BY <2>1, Zenon DEF Rest, Whole
    <3>2. q \in inflight /\ (pc[q] # "returning" \/ q \notin gone) => Reached(q)' = chunks'[q]
      BY <1>8, <1>9, <2>1, Zenon
    <3>3. q \notin gone => InOrder(q)'
      BY <1>9, <2>1, <3>1, Zenon
    <3> QED
      BY <1>4, <2>1, <3>2, <3>3, Zenon
  <2>2. CASE q # r
    BY <1>6, <1>8, <2>2 DEF Rest, Whole
  <2> QED
    BY <2>1, <2>2, Zenon
<1>11. ASSUME NEW q \in Requests PROVE DeliveredOf(q)'
  <2>1. CASE q = r
    <3>1. /\ \A i \in 1 .. Len(received[r]) : received[r][i] = i
          /\ Len(received[r]) <= chunks[r]
          /\ ~Left(r) => InOrder(r) /\ Reached(r) <= chunks[r]
      BY DEF Rest, Delivered, DeliveredOf
    <3>2. Len(received[r]) \in Nat /\ Queued(r) \in Nat
      BY DEF Queued, Types
    <3>3. Len(received'[r]) <= chunks'[r]
      BY <1>1, <1>8, <3>1, <3>2
    <3>4. ASSUME ~Left(r) PROVE InOrder(r)' /\ Reached(r)' <= chunks'[r]
      <4>1. InOrder(r) /\ Queued(r) <= chunks[r] /\ pc[r] # "returning"
        BY <1>7, <3>1, <3>4, Zenon DEF Left
      <4>2. InOrder(r)'
        BY <1>9, <4>1, Zenon
      <4>3. Reached(r)' = Queued(r) \/ Reached(r)' = Queued(r) + 1
        BY <1>9, Zenon
      <4> QED
        BY <1>8, <3>2, <4>1, <4>2, <4>3
    <3>5. Left(r)' <=> Left(r)
      BY <1>1, Zenon DEF Left
    <3> QED
      BY <1>1, <2>1, <3>1, <3>3, <3>4, <3>5, Zenon DEF DeliveredOf
  <2>2. CASE q # r
    <3>1. received'[q] = received[q] /\ chunks'[q] = chunks[q] /\ (Left(q) => Left(q)')
      BY <1>1, <1>8, <2>2 DEF Left
    <3> QED
      BY <1>6, <2>2, <3>1, DeliveredOn, Zenon DEF Rest, Delivered
  <2> QED
    BY <2>1, <2>2, Zenon
<1> QED
  BY <1>5, <1>10, <1>11 DEF Rest, Delivered

LEMMA ReceiveEndStep ==
  ASSUME Types, Queues, Rest, NEW r \in Requests, NEW how \in {"end", "error"}, ReceiveEnd(r, how)
  PROVE  Rest'
<1>1. /\ held = <<>> /\ reply' = [reply EXCEPT ![r] = "over"]
      /\ UNCHANGED <<inflight, body, pc, hdr, received, writing, gone, held, chunks>>
  BY DEF ReceiveEnd, Receiving, handlerVars
<1>2. IF r \in inflight /\ cause[r] = "none" THEN cause' = [cause EXCEPT ![r] = how] ELSE cause' = cause
  BY DEF ReceiveEnd, Close, Lookup
<1>3. pc[r] # "idle"
  BY DEF ReceiveEnd, Receiving, Queues, Begun
<1>4. \A q : ~HeldFor(q) /\ ~HeldFor(q)'
  BY <1>1 DEF HeldFor
<1>5. \A q \in Requests : (InOrder(q)' <=> InOrder(q)) /\ Reached(q)' = Reached(q)
  <2>1. \A q \in Requests : Kept(q)
    BY <1>1, Zenon DEF Kept
  <2> QED
    BY <2>1, ResponseKept, Zenon
<1>6. ASSUME NEW q \in Requests
      PROVE  /\ q # r => cause'[q] = cause[q]
             /\ cause[q] # "none" => cause'[q] = cause[q]
             /\ cause'[q] # cause[q] => q = r /\ q \in inflight
  BY <1>2, Zenon DEF Types
<1>7. Untouched' /\ Places' /\ Ended'
  <2>1. Untouched'
    BY <1>1, <1>3, <1>4, <1>6, Zenon DEF Rest, Untouched
  <2>2. Places'
    BY <1>1, <1>6, Zenon DEF Rest, Places
  <2>3. Ended'
    BY <1>1, <1>4, <1>6, Zenon DEF Types, Rest, Ended
  <2> QED
    BY <2>1, <2>2, <2>3
<1>8. Whole'
  <2> SUFFICES ASSUME NEW q \in Requests
               PROVE  /\ q \notin gone => InOrder(q)
                      /\ q \in inflight /\ (pc[q] # "returning" \/ q \notin gone) => Reached(q) = chunks[q]
                      /\ cause'[q] = "end" /\ q \notin gone => Reached(q) = chunks[q]
                      /\ cause'[q] = "end" /\ q \notin gone /\ hdr[q] = "ok"
                           /\ pc[q] \in {"returning", "returned"} => body[q] = <<>>
    BY <1>1, <1>5 DEF Whole
  <2>1. CASE cause'[q] = cause[q]
    BY <2>1, Zenon DEF Rest, Whole
  <2>2. CASE cause'[q] # cause[q]
    <3>1. q \in inflight /\ cause[q] = "none"
      BY <1>6, <2>2, Zenon
    <3>2. ~(pc[q] \in {"returning", "returned"} /\ q \notin gone /\ hdr[q] = "ok")
      BY <3>1, Zenon DEF Rest, Places
    <3> QED
      BY <3>1, <3>2, Zenon DEF Rest, Whole
  <2> QED
    BY <2>1, <2>2, Zenon
<1>9. ASSUME NEW q \in Requests PROVE DeliveredOf(q)'
  BY <1>1, <1>5, DeliveredOn DEF Rest, Delivered, Left
<1> QED
  BY <1>7, <1>8, <1>9, Zenon DEF Rest, Delivered

-----------------------------------------------------------------------------
LEMMA StartsStep == Starts /\ [Next]_vars => Starts'
<1> SUFFICES ASSUME Starts, [Next]_vars PROVE Starts'
  OBVIOUS
<1> USE DEF Starts, rsVars
<1>1. ASSUME NEW r \in Requests, AwaitHeaders(r) PROVE Starts'
  BY <1>1, Zenon DEF AwaitHeaders, WriteHeader, TakeErr
<1>2. CASE Deliver
  BY <1>2, Zenon DEF Deliver
<1>3. ASSUME NEW r \in Requests, ~AwaitHeaders(r),
             \/ TryStart(r) \/ HandlerStep(r) \/ ChunkWritten(r) \/ BrowserGone(r)
             \/ ReadBody(r) \/ BodyReadFails(r)
      PROVE  start' = start
  BY <1>3, Zenon DEF TryStart, HandlerStep, Forward, ForwardFails, ForwardCancelled, TakeChunk, Cancelled,
              SeeDone, EndOfBody, FinishRequest, ChunkWritten, BrowserGone, ReadBody, BodyReadFails
<1>4. ASSUME NEW r \in Requests, ClientFrame(r) PROVE start' = start
  BY <1>4, Zenon DEF ClientFrame, ReceiveStart, ReceiveBody, ReceiveEnd, Receiving
<1>5. Discard \/ failAll \/ Aside => start' = start
  BY Zenon DEF Discard, failAll, Aside, StreamEnds, CloseDone, ConnectReturns, Replace, TakeFrame, Sent,
         SendExits, Heartbeat, HeartbeatExits, StreamFails, vars
<1> HIDE DEF Starts
<1>6. start' = start => Starts'
  BY DEF Starts
<1> QED
  BY <1>1, <1>2, <1>3, <1>4, <1>5, <1>6, StepCases, Zenon

LEMMA IInvStep == IInv /\ [Next]_vars => IInv'
<1> SUFFICES ASSUME IInv, [Next]_vars PROVE IInv'
  OBVIOUS
<1>1. Types /\ Queues /\ Rest
  BY DEF IInv
<1>2. Types' /\ Queues' /\ Starts'
  BY <1>1, TypesStep, QueuesStep, StartsStep DEF IInv
<1>3. ASSUME NEW r \in Requests,
             TryStart(r) \/ HandlerStep(r) \/ ChunkWritten(r) \/ ReadBody(r) \/ BodyReadFails(r)
      PROVE  Rest'
  BY <1>1, <1>3, TryStartStep, MovingActions, MovesStep, CancelledStep, TakeChunkStep,
     ChunkWrittenStep, Zenon DEF HandlerStep
<1>4. ASSUME NEW r \in Requests, BrowserGone(r) \/ ClientFrame(r) PROVE Rest'
  BY <1>1, <1>4, BrowserGoneStep, ReceiveStartStep, ReceiveBodyStep, ReceiveEndStep, Zenon
     DEF ClientFrame
<1>5. Deliver \/ Discard \/ failAll \/ Aside => Rest'
  BY <1>1, DeliverStep, DiscardStep, FailAllStep, AsideIsStill, StillStep
<1>6. Rest'
  BY <1>3, <1>4, <1>5, StepCases, Zenon
<1> QED
  BY <1>2, <1>6 DEF IInv

(* IInv holds in every reachable state. *)
THEOREM StreamInvariance == Spec => []IInv
BY InitIInv, IInvStep, PTL DEF Spec

(* A handler answers every browser that stays, with the client's header or an
   error of its own, on every path through ServeHTTP. *)
THEOREM NeverBogus200 == Spec => []NoBogus200
<1>1. IInv => NoBogus200
  BY DEF IInv, Rest, Places, NoBogus200, SeesEnd
<1> QED
  BY StreamInvariance, <1>1, PTL

LEMMA RelayedIs ==
  ASSUME Types, NEW r \in Requests
  PROVE  /\ Len(Relayed(r)) = Reached(r)
         /\ InOrder(r) => Relayed(r) = FirstChunks(Len(Relayed(r)))
<1> DEFINE a == received[r]
           b == received[r] \o writing[r]
           c == b \o body[r]
<1>1. a \in Seq(Nat) /\ writing[r] \in Seq(Nat) /\ body[r] \in Seq(Nat)
  BY DEF Types
<1>2. b \in Seq(Nat) /\ c \in Seq(Nat)
  BY <1>1
<1>3. Len(b) = Len(a) + Len(writing[r]) /\ Len(c) = Len(b) + Len(body[r])
  BY <1>1, <1>2
<1>4. Len(c) = Queued(r)
  BY <1>3 DEF Queued
<1>5. HeldChunk(r) = IF Holding(r) THEN <<held[1].chunk>> ELSE <<>>
  BY Zenon DEF HeldChunk, Holding
<1>6. Holding(r) => held[1].chunk \in Nat
  BY Zenon DEF Types, Holding, HeldFor
<1>7. HeldChunk(r) \in Seq(Nat) /\ Len(HeldChunk(r)) = IF Holding(r) THEN 1 ELSE 0
  BY <1>5, <1>6
<1>8. Relayed(r) = c \o HeldChunk(r)
  BY DEF Relayed
<1>9. Len(Relayed(r)) = Reached(r) /\ Relayed(r) \in Seq(Nat)
  <2> HIDE DEF c
  <2>0. \A s, t \in Seq(Nat) : s \o t \in Seq(Nat) /\ Len(s \o t) = Len(s) + Len(t) /\ Len(s) \in Nat
    OBVIOUS
  <2>1. Relayed(r) \in Seq(Nat) /\ Len(Relayed(r)) = Len(c) + Len(HeldChunk(r)) /\ Len(c) \in Nat
    BY <1>2, <1>7, <1>8, <2>0, Zenon
  <2>2. Queued(r) \in Nat /\ Len(Relayed(r)) = Queued(r) + Len(HeldChunk(r))
    BY <1>4, <2>1
  <2>3. CASE Holding(r)
    <3>1. Len(HeldChunk(r)) = 1 /\ Reached(r) = Queued(r) + 1
      BY <1>7, <2>3, Zenon DEF Reached
    <3> QED
      BY <2>1, <2>2, <3>1
  <2>4. CASE ~Holding(r)
    <3>1. Len(HeldChunk(r)) = 0 /\ Reached(r) = Queued(r)
      BY <1>7, <2>4, Zenon DEF Reached
    <3> QED
      BY <2>1, <2>2, <3>1
  <2> QED
    BY <2>3, <2>4
<1>10. ASSUME InOrder(r) PROVE Relayed(r) = FirstChunks(Len(Relayed(r)))
  <2>1. \A i \in 1 .. Len(b) : b[i] = i
    BY <1>1, <1>10, Joined, Zenon DEF InOrder
  <2>2. \A i \in 1 .. Len(body[r]) : body[r][i] = Len(b) + i
    BY <1>3, <1>10, Zenon DEF InOrder
  <2>3. \A i \in 1 .. Len(c) : c[i] = i
    <3> HIDE DEF b
    <3> QED
      BY <1>1, <1>2, <2>1, <2>2, Joined, Zenon
  <2>4. \A i \in 1 .. Len(HeldChunk(r)) : HeldChunk(r)[i] = Len(c) + i
    <3>1. Holding(r) => held[1].chunk = Len(c) + 1
      BY <1>4, <1>10 DEF InOrder
    <3> HIDE DEF c
    <3> QED
      BY <1>5, <1>7, <3>1
  <2>5. \A i \in 1 .. Len(Relayed(r)) : Relayed(r)[i] = i
    <3> HIDE DEF c
    <3> QED
      BY <1>2, <1>7, <1>8, <2>3, <2>4, Joined
  <2>6. ASSUME NEW s \in Seq(Nat), \A i \in 1 .. Len(s) : s[i] = i PROVE s = FirstChunks(Len(s))
    BY <2>6 DEF FirstChunks
  <2> QED
    BY <1>9, <2>5, <2>6
<1> QED
  BY <1>9, <1>10

(* Whatever the depth of the queues, the number of requests and the length of
   bodies, ServeHTTP relays responses in order and whole. *)
THEOREM BodiesConserved == Spec => []BodyConserved
<1>1. IInv => BodyConserved
  <2> SUFFICES ASSUME IInv, NEW r \in Requests
               PROVE  /\ r \notin gone => Relayed(r) = FirstChunks(Len(Relayed(r)))
                      /\ r \in inflight /\ (pc[r] # "returning" \/ r \notin gone)
                           => Len(Relayed(r)) = chunks[r]
                      /\ SeesEnd(r) /\ hdr[r] = "ok" /\ cause[r] = "end"
                           => Len(received[r]) = chunks[r]
    BY Zenon DEF BodyConserved
  <2>1. r \notin gone => Relayed(r) = FirstChunks(Len(Relayed(r)))
    BY RelayedIs, Zenon DEF IInv, Rest, Whole
  <2>2. r \in inflight /\ (pc[r] # "returning" \/ r \notin gone) => Len(Relayed(r)) = chunks[r]
    BY RelayedIs DEF IInv, Rest, Whole
  <2>3. ASSUME SeesEnd(r), hdr[r] = "ok", cause[r] = "end" PROVE Len(received[r]) = chunks[r]
    <3>1. body[r] = <<>> /\ writing[r] = <<>> /\ ~HeldFor(r) /\ Reached(r) = chunks[r]
      BY <2>3 DEF IInv, Rest, Whole, Places, Ended, SeesEnd
    <3>2. Len(received[r]) \in Nat /\ Len(writing[r]) = 0 /\ Len(body[r]) = 0
      BY <3>1 DEF IInv, Types
    <3> QED
      BY <3>1, <3>2 DEF Reached, Queued, Holding
  <2> QED
    BY <2>1, <2>2, <2>3
<1> QED
  BY StreamInvariance, <1>1, PTL

-----------------------------------------------------------------------------
(* A stuck receiver stays stuck: the handler that would read has left, the map
   no longer has the request that ResponseEnd or failAll would close, and the
   receiver takes no other frame, nor sees the stream end. *)
THEOREM StuckForGood == Spec => [][Stuck => Stuck']_vars
<1>1. ASSUME IInv, [Next]_vars, Stuck PROVE Stuck'
  <2> PICK r \in Requests, n \in Nat : r = held[1].id /\ n = held[1].chunk
    BY <1>1 DEF IInv, Types, Stuck
  <2>1. /\ held # <<>> /\ pc[r] = "returned" /\ cause[r] = "none" /\ r \notin inflight
        /\ n = 0 => start[r]
        /\ n # 0 => Len(body[r]) = BodyDepth
    BY <1>1, Zenon DEF IInv, Rest, Stuck, Untouched
  <2>2. ASSUME /\ held' = held /\ pc'[r] = pc[r] /\ cause'[r] = cause[r]
               /\ body'[r] = body[r] /\ start'[r] = start[r]
        PROVE  Stuck'
    BY <2>1, <2>2, Zenon DEF Stuck
  <2>3. ASSUME NEW q \in Requests,
               \/ TryStart(q) \/ HandlerStep(q) \/ ChunkWritten(q) \/ BrowserGone(q)
               \/ ReadBody(q) \/ BodyReadFails(q)
        PROVE  Stuck'
    <3>1. CASE \/ Forward(q) \/ ForwardFails(q) \/ ReadBody(q) \/ BodyReadFails(q) \/ ForwardCancelled(q)
               \/ AwaitHeaders(q) \/ SeeDone(q) \/ EndOfBody(q) \/ FinishRequest(q)
      <4>1. Moves(q)
        BY <3>1, MovingActions, Zenon
      <4>2. held' = held /\ cause' = cause /\ body' = body
        BY <4>1, Zenon DEF Moves, Data
      <4>3. q # r
        BY <2>1, <4>1, Zenon DEF Moves
      <4>4. pc'[r] = pc[r]
        BY <1>1, <4>1, <4>3 DEF Moves, IInv, Types
      <4>5. start' = start \/ start' = [start EXCEPT ![q] = FALSE]
        <5>1. CASE AwaitHeaders(q)
          BY <5>1, Zenon DEF AwaitHeaders, WriteHeader, TakeErr
        <5>2. CASE ~AwaitHeaders(q)
          BY <3>1, <5>2, Zenon DEF Forward, ForwardFails, ReadBody, BodyReadFails, ForwardCancelled, SeeDone, EndOfBody,
                            FinishRequest, rsVars
        <5> QED
          BY <5>1, <5>2
      <4>6. start'[r] = start[r]
        BY <1>1, <4>3, <4>5, Zenon DEF IInv, Starts
      <4> QED
        BY <2>2, <4>2, <4>4, <4>6
    <3>2. CASE TakeChunk(q)
      <4>1. q # r /\ held' = held /\ cause' = cause /\ start' = start
        BY <2>1, <3>2, Zenon DEF TakeChunk, connVars
      <4>2. pc'[r] = pc[r] /\ body'[r] = body[r]
        BY <1>1, <3>2, <4>1, Zenon DEF TakeChunk, Goto, IInv, Types
      <4> QED
        BY <2>2, <4>1, <4>2, Zenon
    <3>3. CASE TryStart(q) \/ ChunkWritten(q) \/ Cancelled(q) \/ BrowserGone(q)
      <4>1. held' = held /\ UNCHANGED rsVars
        BY <3>3, Zenon DEF TryStart, ChunkWritten, Cancelled, BrowserGone, connVars
      <4>2. pc'[r] = pc[r]
        BY <1>1, <2>1, <3>3 DEF TryStart, ChunkWritten, Cancelled, BrowserGone, Goto, handlerVars, IInv, Types
      <4> QED
        BY <2>2, <4>1, <4>2 DEF rsVars
    <3> QED
      BY <2>3, <3>1, <3>2, <3>3, Zenon DEF HandlerStep
  <2>4. ASSUME NEW q \in Requests PROVE ~ClientFrame(q)
    BY <2>1, Zenon DEF ClientFrame, ReceiveStart, ReceiveBody, ReceiveEnd, Receiving
  <2>5. ~Deliver
    <3>1. Deliver => (n = 0 /\ ~start[r]) \/ (n > 0 /\ Len(body[r]) < BodyDepth)
      BY Zenon DEF Deliver
    <3>2. n # 0 => ~(Len(body[r]) < BodyDepth)
      BY <2>1, StreamAssumption
    <3>3. n > 0 => n # 0
      OBVIOUS
    <3> QED
      BY <2>1, <3>1, <3>2, <3>3, Zenon
  <2>6. ~Discard
    BY <2>1, Zenon DEF Discard, Unblocked
  <2>7. CASE failAll
    BY <2>1, <2>2, <2>7, Zenon DEF failAll, handlerVars
  <2>8. CASE Aside
    <3>1. start' = start
      BY <2>8, Zenon DEF Aside, StreamEnds, CloseDone, ConnectReturns, Replace, TakeFrame, Sent, SendExits,
           Heartbeat, HeartbeatExits, StreamFails, vars, rsVars
    <3> QED
      BY <2>2, <2>8, <3>1, AsideIsStill, Zenon DEF Still
  <2> QED
    BY <1>1, <2>3, <2>4, <2>5, <2>6, <2>7, <2>8, StepCases, Zenon
<1> QED
  BY StreamInvariance, <1>1, PTL DEF Spec

-----------------------------------------------------------------------------
(* What a response has come to: while it is open its request is in the map and
   its header, once received, is on its way to the handler. *)
HeldStart(r) == HeldFor(r) /\ held[1].chunk = 0

AnswersOf(r) ==
  /\ pc[r] \notin {"idle", "returned"} /\ cause[r] = "none" => r \in inflight
  /\ reply[r] # "start" => pc[r] # "idle"
  /\ reply[r] = "over" /\ r \in inflight => cause[r] # "none"
  /\ reply[r] = "start" => ~start[r] /\ body[r] = <<>> /\ ~HeldFor(r)
  /\ HeldStart(r) => ~start[r] /\ body[r] = <<>>
  /\ cause[r] = "none" /\ pc[r] \in {"fwd", "read", "headers"} /\ reply[r] = "body" => start[r] \/ HeldStart(r)

Answers == \A r \in Requests : AnswersOf(r)

LEMMA InitAnswers == Init => Answers
<1> SUFFICES ASSUME Init, NEW r \in Requests PROVE AnswersOf(r)
  BY Zenon DEF Answers
<1>1. /\ pc[r] = "idle" /\ cause[r] = "none" /\ reply[r] = "start" /\ start[r] = FALSE
      /\ body[r] = <<>> /\ held = <<>>
  BY DEF Init
<1>2. ~HeldFor(r) /\ ~HeldStart(r)
  BY <1>1, Zenon DEF HeldFor, HeldStart
<1> QED
  BY <1>1, <1>2 DEF AnswersOf

(* A step that leaves the response of q alone. *)
Apart(q) ==
  /\ pc'[q] = pc[q] /\ cause'[q] = cause[q] /\ reply'[q] = reply[q]
  /\ start'[q] = start[q] /\ body'[q] = body[q] /\ (q \in inflight' <=> q \in inflight)

LEMMA ApartAnswers ==
  ASSUME NEW q \in Requests, AnswersOf(q), Apart(q),
         UNCHANGED held \/ ~(HeldFor(q) \/ HeldFor(q)')
  PROVE  AnswersOf(q)'
<1>1. (HeldFor(q)' <=> HeldFor(q)) /\ (HeldStart(q)' <=> HeldStart(q))
  BY Zenon DEF HeldFor, HeldStart
<1> QED
  BY <1>1, Zenon DEF AnswersOf, Apart

LEMMA AnswersStep == IInv /\ Answers /\ [Next]_vars => Answers'
<1> SUFFICES ASSUME IInv, Answers, [Next]_vars PROVE Answers'
  OBVIOUS
<1> USE DEF rsVars, handlerVars, clientVars, sendVars, connVars
<1>0. Types /\ Starts /\ Queues /\ \A q \in Requests : AnswersOf(q)
  BY DEF IInv, Answers
<1>1. ASSUME NEW r \in Requests, TryStart(r) PROVE Answers'
  <2> SUFFICES ASSUME NEW q \in Requests PROVE AnswersOf(q)'
    BY Zenon DEF Answers
  <2>1. CASE q # r
    BY <1>0, <1>1, <2>1, ApartAnswers, Zenon DEF TryStart, Goto, Types, Apart
  <2>2. CASE q = r
    BY <1>0, <1>1, <2>2 DEF TryStart, Goto, Types, AnswersOf, HeldStart, HeldFor
  <2> QED
    BY <2>1, <2>2
<1>2. ASSUME NEW r \in Requests, Moves(r), start' = start \/ start' = [start EXCEPT ![r] = FALSE],
             pc'[r] \in {"fwd", "read", "headers"} => start' = start
      PROVE  Answers'
  <2> SUFFICES ASSUME NEW q \in Requests PROVE AnswersOf(q)'
    BY DEF Answers
  <2>1. UNCHANGED <<cause, reply, body, held>>
    BY <1>2 DEF Moves, Data
  <2>2. CASE q # r
    <3>1. Apart(q)
      BY <1>0, <1>2, <2>1, <2>2, Zenon DEF Moves, Types, Starts, Apart
    <3> QED
      BY <1>0, <2>1, <3>1, ApartAnswers, Zenon
  <2>3. CASE q = r
    <3>1. /\ pc[r] # "idle" /\ pc'[r] # "idle"
          /\ pc'[r] \in {"fwd", "read", "headers"} => pc[r] \in {"fwd", "read", "headers"} /\ start'[r] = start[r]
          /\ start'[r] => start[r]
          /\ r \in inflight' => r \in inflight
          /\ pc'[r] # "returned" => inflight' = inflight
          /\ pc[r] # "returned"
      BY <1>0, <1>2 DEF Moves, Types, Starts
    <3>2. (HeldFor(q)' <=> HeldFor(q)) /\ (HeldStart(q)' <=> HeldStart(q))
      BY <2>1, Zenon DEF HeldFor, HeldStart
    <3> QED
      BY <1>0, <2>1, <2>3, <3>1, <3>2, Zenon DEF AnswersOf
  <2> QED
    BY <2>2, <2>3
<1>3. ASSUME NEW r \in Requests,
             \/ Forward(r) \/ ForwardFails(r) \/ ReadBody(r) \/ BodyReadFails(r) \/ ForwardCancelled(r)
             \/ AwaitHeaders(r) \/ SeeDone(r) \/ EndOfBody(r) \/ FinishRequest(r)
      PROVE  Answers'
  <2>1. Moves(r)
    BY <1>3, MovingActions
  <2>2. start' = start \/ (start' = [start EXCEPT ![r] = FALSE] /\ pc' = [pc EXCEPT ![r] = "stream"])
    <3>1. CASE AwaitHeaders(r)
      <4>1. WriteHeader(r) \/ TakeErr(r)
        BY <3>1, Zenon DEF AwaitHeaders
      <4> QED
        BY <4>1, Zenon DEF WriteHeader, TakeErr, Goto
    <3>2. CASE ~AwaitHeaders(r)
      BY <1>3, <3>2, Zenon DEF Forward, ForwardFails, ReadBody, BodyReadFails, ForwardCancelled,
                  SeeDone, EndOfBody, FinishRequest
    <3> QED
      BY <3>1, <3>2
  <2>3. pc'[r] \in {"fwd", "read", "headers"} => start' = start
    BY <1>0, <2>2 DEF Types
  <2> QED
    BY <1>2, <2>1, <2>2, <2>3, Zenon
<1>4. ASSUME NEW r \in Requests, NEW l \in HandlerStates \ {"idle", "returned", "fwd", "read", "headers"},
             pc[r] \notin {"idle", "returned"}, pc' = [pc EXCEPT ![r] = l],
             \A q \in Requests : q # r => body'[q] = body[q],
             body[r] # <<>> \/ body' = body,
             UNCHANGED <<inflight, cause, reply, start, held>>
      PROVE  Answers'
  <2> SUFFICES ASSUME NEW q \in Requests PROVE AnswersOf(q)'
    BY DEF Answers
  <2>1. CASE q # r
    BY <1>0, <1>4, <2>1, ApartAnswers DEF Types, Apart
  <2>2. CASE q = r
    <3>1. (HeldFor(q)' <=> HeldFor(q)) /\ (HeldStart(q)' <=> HeldStart(q))
      BY <1>4, Zenon DEF HeldFor, HeldStart
    <3>2. pc'[q] = l
      BY <1>0, <1>4, <2>2, Zenon DEF Types
    <3>3. AnswersOf(q) /\ pc[q] \notin {"idle", "returned"} /\ (body'[q] = body[q] \/ body[q] # <<>>)
      BY <1>0, <1>4, <2>2
    <3> QED
      BY <1>4, <3>1, <3>2, <3>3, Zenon DEF AnswersOf
  <2> QED
    BY <2>1, <2>2
<1>5. ASSUME NEW r \in Requests, TakeChunk(r) PROVE Answers'
  <2> DEFINE l == IF pc[r] = "stream" THEN "write" ELSE "drainWrite"
  <2>1. l \in HandlerStates \ {"idle", "returned", "fwd", "read", "headers"}
    BY DEF HandlerStates
  <2>2. pc' = [pc EXCEPT ![r] = l] /\ pc[r] \notin {"idle", "returned"} /\ body[r] # <<>>
    BY <1>5 DEF TakeChunk, Goto
  <2>3. \A q \in Requests : q # r => body'[q] = body[q]
    BY <1>0, <1>5 DEF TakeChunk, Types
  <2>4. UNCHANGED <<inflight, cause, reply, start, held>>
    BY <1>5, Zenon DEF TakeChunk
  <2> HIDE DEF l
  <2> QED
    BY <1>4, <2>1, <2>2, <2>3, <2>4, Zenon
<1>6. ASSUME NEW r \in Requests, ChunkWritten(r) \/ Cancelled(r) PROVE Answers'
  <2>1. \E l \in HandlerStates \ {"idle", "returned", "fwd", "read", "headers"} : pc' = [pc EXCEPT ![r] = l]
    BY <1>6, Zenon DEF ChunkWritten, Cancelled, Goto, HandlerStates
  <2>2. UNCHANGED <<inflight, cause, reply, start, held, body>> /\ pc[r] \notin {"idle", "returned"}
    BY <1>6, Zenon DEF ChunkWritten, Cancelled
  <2> QED
    BY <1>4, <2>1, <2>2, Zenon
<1>7. ASSUME NEW r \in Requests, ReceiveStart(r) \/ ReceiveBody(r) PROVE Answers'
  <2> SUFFICES ASSUME NEW q \in Requests PROVE AnswersOf(q)'
    BY DEF Answers
  <2>1. UNCHANGED <<pc, inflight, cause, start, body>> /\ held = <<>> /\ pc[r] # "idle"
    BY <1>0, <1>7 DEF ReceiveStart, ReceiveBody, Receiving, Queues, Begun
  <2>2. /\ reply[r] # "over" /\ reply' = [reply EXCEPT ![r] = "body"]
        /\ reply[r] = "start" \/ reply[r] = "body"
    BY <1>0, <1>7 DEF ReceiveStart, ReceiveBody, Types
  <2>3. /\ ~HeldFor(q) /\ (q # r => ~HeldFor(q)')
        /\ reply[r] = "start" => (HeldStart(r)' <=> r \in inflight)
        /\ reply[r] = "body" => ~HeldStart(r)'
    BY <1>0, <1>7, <2>1 DEF ReceiveStart, ReceiveBody, Hold, Lookup, HeldFor, HeldStart, Types
  <2>4. CASE q # r
    <3>1. Apart(q)
      BY <1>0, <2>1, <2>2, <2>4 DEF Apart, Types
    <3> QED
      BY <1>0, <2>3, <2>4, <3>1, ApartAnswers, Zenon
  <2>5. CASE q = r
    <3>1. reply'[r] = "body"
      BY <1>0, <2>2 DEF Types
    <3>2. AnswersOf(r) /\ ~HeldStart(r)
      BY <1>0, <2>3, <2>5 DEF HeldStart
    <3> QED
      BY <2>1, <2>2, <2>3, <2>5, <3>1, <3>2, Zenon DEF AnswersOf
  <2> QED
    BY <2>4, <2>5
<1>8. ASSUME NEW r \in Requests, NEW how \in {"end", "error"}, ReceiveEnd(r, how) PROVE Answers'
  <2> SUFFICES ASSUME NEW q \in Requests PROVE AnswersOf(q)'
    BY Zenon DEF Answers
  <2>1. UNCHANGED <<pc, inflight, start, body, held>> /\ held = <<>> /\ pc[r] # "idle"
    BY <1>0, <1>8, Zenon DEF ReceiveEnd, Receiving, Queues, Begun
  <2>2. /\ reply' = [reply EXCEPT ![r] = "over"]
        /\ r \in inflight => cause'[r] # "none"
        /\ cause[r] # "none" => cause'[r] # "none"
        /\ \A p \in Requests : p # r => cause'[p] = cause[p]
    BY <1>0, <1>8, Zenon DEF ReceiveEnd, Close, Lookup, Types
  <2>3. ~HeldFor(q)' /\ ~HeldStart(q)'
    BY <2>1 DEF HeldFor, HeldStart
  <2>4. CASE q # r
    <3>1. Apart(q)
      BY <1>0, <2>1, <2>2, <2>4 DEF Apart, Types
    <3> QED
      BY <1>0, <2>1, <3>1, ApartAnswers
  <2>5. CASE q = r
    <3>1. reply'[r] = "over"
      BY <1>0, <2>2 DEF Types
    <3>2. AnswersOf(r)
      BY <1>0
    <3> QED
      BY <2>1, <2>2, <2>3, <2>5, <3>1, <3>2, Zenon DEF AnswersOf
  <2> QED
    BY <2>4, <2>5
<1>9. CASE Deliver
  <2> SUFFICES ASSUME NEW q \in Requests PROVE AnswersOf(q)'
    BY Zenon DEF Answers
  <2>1. PICK r \in Requests : held # <<>> /\ held[1].id = r
    BY <1>0, <1>9, Zenon DEF Deliver, Types
  <2>2. UNCHANGED <<pc, inflight, cause, reply>> /\ held' = <<>>
    BY <1>9 DEF Deliver
  <2>3. ~HeldFor(q)' /\ ~HeldStart(q)' /\ (q # r => ~HeldFor(q)) /\ HeldFor(r)
    BY <2>1, <2>2 DEF HeldFor, HeldStart
  <2>4. \/ held[1].chunk = 0 /\ start' = [start EXCEPT ![r] = TRUE] /\ body' = body
        \/ /\ held[1].chunk # 0 /\ start' = start
           /\ \A p \in Requests : p # r => body'[p] = body[p]
    <3>1. held[1].chunk \in Nat /\ body \in [Requests -> Seq(Nat)]
      BY <1>0, <2>1, Zenon DEF Types
    <3>2. \/ held[1].chunk = 0 /\ start' = [start EXCEPT ![r] = TRUE] /\ body' = body
          \/ held[1].chunk > 0 /\ start' = start /\ body' = [body EXCEPT ![r] = Append(@, held[1].chunk)]
      BY <1>9, <2>1, Zenon DEF Deliver, DeliverBody
    <3>3. held[1].chunk > 0 => held[1].chunk # 0
      BY <3>1
    <3> QED
      BY <3>1, <3>2, <3>3, Zenon
  <2>5. CASE q # r
    <3>1. Apart(q)
      BY <1>0, <2>2, <2>4, <2>5, Zenon DEF Apart, Types, Starts
    <3> QED
      BY <1>0, <2>3, <2>5, <3>1, ApartAnswers
  <2>6. CASE q = r
    <3>1. AnswersOf(r) /\ (held[1].chunk = 0 => start'[r]) /\ (held[1].chunk # 0 => ~HeldStart(r) /\ start' = start)
      BY <1>0, <2>4 DEF Starts, HeldStart
    <3> QED
      BY <2>2, <2>3, <2>6, <3>1, Zenon DEF AnswersOf
  <2> QED
    BY <2>5, <2>6
<1>10. CASE Discard
  <2> SUFFICES ASSUME NEW q \in Requests PROVE AnswersOf(q)'
    BY DEF Answers
  <2>1. UNCHANGED <<pc, inflight, cause, reply, start, body>> /\ held' = <<>>
    BY <1>10, Zenon DEF Discard
  <2>2. ~HeldFor(q)' /\ ~HeldStart(q)' /\ (HeldFor(q) => cause[q] # "none")
    BY <1>10, <2>1 DEF Discard, Unblocked, HeldFor, HeldStart
  <2>3. AnswersOf(q) /\ (HeldStart(q) => HeldFor(q))
    BY <1>0 DEF HeldStart
  <2> QED
    BY <2>1, <2>2, <2>3, Zenon DEF AnswersOf
<1>11. CASE failAll
  <2> SUFFICES ASSUME NEW q \in Requests PROVE AnswersOf(q)'
    BY DEF Answers
  <2>1. UNCHANGED <<pc, reply, start, body, held>> /\ inflight' = {}
    BY <1>11, Zenon DEF failAll
  <2>2. cause'[q] = "none" => cause[q] = "none" /\ q \notin inflight
    BY <1>11 DEF failAll
  <2>3. (HeldFor(q)' <=> HeldFor(q)) /\ (HeldStart(q)' <=> HeldStart(q)) /\ AnswersOf(q) /\ q \notin inflight'
    BY <1>0, <2>1 DEF HeldFor, HeldStart
  <2> QED
    BY <2>1, <2>2, <2>3, Zenon DEF AnswersOf
<1>12. CASE Aside
  <2> SUFFICES ASSUME NEW q \in Requests PROVE AnswersOf(q)'
    BY DEF Answers
  <2>1. UNCHANGED start
    BY <1>12, Zenon DEF Aside, StreamEnds, CloseDone, ConnectReturns, Replace, TakeFrame, Sent, SendExits,
                 Heartbeat, HeartbeatExits, StreamFails, vars
  <2>2. Apart(q) /\ UNCHANGED held
    BY <1>12, <2>1, AsideIsStill DEF Still, Apart
  <2> QED
    BY <1>0, <2>2, ApartAnswers, Zenon
<1>13. ASSUME NEW r \in Requests, BrowserGone(r) PROVE Answers'
  <2> SUFFICES ASSUME NEW q \in Requests PROVE AnswersOf(q)'
    BY DEF Answers
  <2>1. Apart(q) /\ UNCHANGED held
    BY <1>13, Zenon DEF BrowserGone, Apart
  <2> QED
    BY <1>0, <2>1, ApartAnswers, Zenon
<1> QED
  BY <1>1, <1>3, <1>5, <1>6, <1>7, <1>8, <1>9, <1>10, <1>11, <1>12, <1>13, StepCases,
     Zenon DEF HandlerStep, ClientFrame

(* A response that is open has its request in the map, and a header that was
   received reaches the handler that waits for it, unless the response ends. *)
THEOREM AnswersArrive == Spec => []Answers
<1>1. Init => IInv /\ Answers
  BY InitIInv, InitAnswers
<1>2. IInv /\ Answers /\ [Next]_vars => IInv' /\ Answers'
  BY IInvStep, AnswersStep
<1> QED
  BY <1>1, <1>2, PTL DEF Spec
=============================================================================
