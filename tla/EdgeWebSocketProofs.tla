------------------------- MODULE EdgeWebSocketProofs -------------------------
(***************************************************************************)
(* The frames the edge sends for a WebSocket are in order, although the    *)
(* handler and the browser's reader feed one queue, and both directions    *)
(* are relayed without gaps, for every depth of the queues and any number  *)
(* of payloads.                                                            *)
(***************************************************************************)
EXTENDS EdgeWebSocket, TLAPS

Frames == {"RequestStart", "RequestEnd", "CancelRequest", "WsData", "WsClose"} \X Nat

Types == wire \in Seq(Frames) /\ outbound \in Seq(Frames) /\ up \in Nat

Before == {"idle", "putWS", "fwdStart", "fwdEnd", "await", "hijack", "handshake"}

(* The handler, or the reader it has started, may still send. *)
Live == pc \in Before \/ reader \in {"sendBuffered", "read", "send", "sendClose"}

NoLast(s) == \A i \in 1 .. Len(s) : s[i][1] \notin {"WsClose", "CancelRequest"}

Ordered(s) ==
  \A i, j \in 1 .. Len(s) :
    i < j => s[i][1] \notin {"WsClose", "CancelRequest"} /\ s[j][1] # "RequestStart"

IInv ==
  /\ Types
  /\ pc \in {"idle", "putWS", "fwdStart"} => Outgoing = <<>>
  /\ pc \in Before => reader = "none"
  /\ Live => NoLast(Outgoing)
  /\ Ordered(Outgoing)

-----------------------------------------------------------------------------
LEMMA InitIInv == Init => IInv
<1> SUFFICES ASSUME Init PROVE IInv
  OBVIOUS
<1>1. Outgoing = <<>> /\ Len(Outgoing) = 0
  BY DEF Init, Outgoing
<1>2. Types
  BY DEF Init, Types
<1>3. NoLast(Outgoing) /\ Ordered(Outgoing)
  BY <1>1, \A i \in 1 .. 0 : FALSE DEF NoLast, Ordered
<1> QED
  BY <1>1, <1>2, <1>3, Zenon DEF Init, IInv, Before

(* One more frame in the queue. *)
LEMMA Queued ==
  ASSUME Types, NEW f \in Frames, outbound' = Append(outbound, f), UNCHANGED wire,
         NoLast(Outgoing), Ordered(Outgoing), f[1] = "RequestStart" => Outgoing = <<>>
  PROVE  /\ wire' \in Seq(Frames) /\ outbound' \in Seq(Frames)
         /\ Ordered(Outgoing)'
         /\ f[1] \notin {"WsClose", "CancelRequest"} => NoLast(Outgoing)'
<1>1. ASSUME NEW w \in Seq(Frames), NEW o \in Seq(Frames) PROVE w \o Append(o, f) = Append(w \o o, f)
  OBVIOUS
<1>2. Outgoing' = Append(Outgoing, f) /\ Outgoing \in Seq(Frames)
  BY <1>1 DEF Outgoing, Types
<1> HIDE DEF Outgoing
<1>3. ASSUME NEW s \in Seq(Frames)
      PROVE  /\ Len(s) \in Nat /\ Len(Append(s, f)) = Len(s) + 1
             /\ \A i \in 1 .. Len(s) : Append(s, f)[i] = s[i]
             /\ Append(s, f)[Len(s) + 1] = f
             /\ s = <<>> => Len(s) = 0
  OBVIOUS
<1> DEFINE n == Len(Outgoing)
<1>4. /\ n \in Nat /\ Len(Outgoing') = n + 1 /\ Outgoing'[n + 1] = f
      /\ \A i \in 1 .. n : Outgoing'[i] = Outgoing[i]
      /\ Outgoing = <<>> => n = 0
  BY <1>2, <1>3, Zenon
<1> HIDE DEF n
<1>5. /\ \A i \in 1 .. n : Outgoing'[i][1] \notin {"WsClose", "CancelRequest"}
      /\ \A i, j \in 1 .. n : i < j => Outgoing'[j][1] # "RequestStart"
  BY <1>4 DEF NoLast, Ordered, n
<1>6. Ordered(Outgoing)'
  <2> SUFFICES ASSUME NEW i \in 1 .. n + 1, NEW j \in 1 .. n + 1, i < j
               PROVE  Outgoing'[i][1] \notin {"WsClose", "CancelRequest"} /\ Outgoing'[j][1] # "RequestStart"
    BY <1>4 DEF Ordered
  <2>1. i \in 1 .. n
    BY <1>4
  <2>2. CASE j = n + 1
    BY <1>4, <1>5, <2>1, <2>2
  <2>3. CASE j # n + 1
    <3>1. j \in 1 .. n
      BY <1>4, <2>3
    <3> QED
      BY <1>5, <2>1, <3>1, Zenon
  <2> QED
    BY <2>2, <2>3, Zenon
<1>7. f[1] \notin {"WsClose", "CancelRequest"} => NoLast(Outgoing)'
  <2> SUFFICES ASSUME f[1] \notin {"WsClose", "CancelRequest"}, NEW i \in 1 .. n + 1
               PROVE  Outgoing'[i][1] \notin {"WsClose", "CancelRequest"}
    BY <1>4 DEF NoLast
  <2>1. i \in 1 .. n \/ i = n + 1
    BY <1>4
  <2> QED
    BY <1>4, <1>5, <2>1, Zenon
<1>8. wire' \in Seq(Frames) /\ outbound' \in Seq(Frames)
  BY DEF Types
<1> QED
  BY <1>6, <1>7, <1>8, Zenon

(* Steps that send nothing and leave the handler and its reader no more to say. *)
Silent ==
  \/ TryStart \/ PutWS \/ ForwardFails \/ Answered \/ AwaitFails \/ Hijack \/ Handshake \/ TakePayload
  \/ WriteEnds \/ RelayEnds \/ Unwind \/ DelWS \/ FinishRequest \/ ReadBrowser \/ BrowserGone
  \/ SendExits \/ ReceiveStart \/ ReceivePayload \/ ReceiveEnd \/ Deliver \/ Discard
  \/ CloseDone \/ FailAll

LEMMA SilentIs ==
  ASSUME Silent \/ UNCHANGED vars
  PROVE  /\ UNCHANGED <<wire, outbound>>
         /\ pc' \in {"idle", "putWS", "fwdStart"} => pc \in {"idle", "putWS", "fwdStart"}
         /\ pc' = "fwdEnd" => pc = "fwdEnd"
         /\ pc' \in {"await", "hijack", "handshake"} => pc \in {"await", "hijack", "handshake"}
         /\ pc' \in Before => pc \in Before
         /\ Handshake \/ ReadBrowser \/ UNCHANGED <<reader, up>>
<1> USE DEF sessVars, rsVars, wsVars, relayVars, readerVars, clientVars
<1>1. UNCHANGED <<wire, outbound>>
  BY Zenon DEF Silent, TryStart, PutWS, ForwardFails, Answered, AwaitFails, Hijack, Handshake, TakePayload, WriteEnds,
     RelayEnds, Unwind, DelWS, FinishRequest, ReadBrowser, BrowserGone, SendExits, ReceiveStart, ReceivePayload,
     ReceiveEnd, Receiving, Deliver, Discard, CloseDone, FailAll, vars
<1>2. /\ pc' \in {"idle", "putWS", "fwdStart"} => pc \in {"idle", "putWS", "fwdStart"}
      /\ pc' = "fwdEnd" => pc = "fwdEnd"
      /\ pc' \in {"await", "hijack", "handshake"} => pc \in {"await", "hijack", "handshake"}
  BY Zenon DEF Silent, TryStart, PutWS, ForwardFails, Answered, AwaitFails, Hijack, Handshake, TakePayload, WriteEnds,
     RelayEnds, Unwind, DelWS, FinishRequest, ReadBrowser, BrowserGone, SendExits, ReceiveStart, ReceivePayload,
     ReceiveEnd, Receiving, Deliver, Discard, CloseDone, FailAll, vars
<1>3. pc' \in Before => pc \in Before
  BY <1>2, Zenon DEF Before
<1>4. Handshake \/ ReadBrowser \/ UNCHANGED <<reader, up>>
  BY Zenon DEF Silent, TryStart, PutWS, ForwardFails, Answered, AwaitFails, Hijack, Handshake, TakePayload, WriteEnds,
     RelayEnds, Unwind, DelWS, FinishRequest, ReadBrowser, BrowserGone, SendExits, ReceiveStart, ReceivePayload,
     ReceiveEnd, Receiving, Deliver, Discard, CloseDone, FailAll, vars
<1> QED
  BY <1>1, <1>2, <1>3, <1>4, Zenon

LEMMA SilentStep ==
  ASSUME IInv, Silent \/ UNCHANGED vars
  PROVE  IInv'
<1> USE DEF sessVars, rsVars, wsVars, relayVars, readerVars, clientVars
<1>1. /\ up' \in Nat
      /\ Live' => Live
      /\ pc' \in Before => reader' = reader
  <2>1. CASE Handshake
    BY <2>1 DEF Handshake, IInv, Types, Live, Before
  <2>2. CASE ReadBrowser
    BY <2>2 DEF ReadBrowser, IInv, Types, Live, Before, AfterReadError
  <2>3. CASE UNCHANGED <<reader, up>>
    BY <2>3, SilentIs, Zenon DEF IInv, Types, Live
  <2> QED
    BY <2>1, <2>2, <2>3, SilentIs, Zenon
<1>2. Outgoing' = Outgoing
  BY SilentIs, Zenon DEF Outgoing
<1> QED
  BY <1>1, <1>2, SilentIs, Zenon DEF IInv, Types, NoLast, Ordered

(* What the sending goroutine takes from the queue, it sends. *)
LEMMA FrameSent ==
  ASSUME Types, SendFrame \/ StreamLost
  PROVE  /\ wire' \in Seq(Frames) /\ outbound' \in Seq(Frames) /\ Outgoing' = Outgoing
         /\ UNCHANGED <<pc, reader, up>>
<1>1. \/ wire' = Append(wire, Head(outbound)) /\ outbound' = Tail(outbound) /\ outbound # <<>>
      \/ UNCHANGED <<wire, outbound>>
  BY Zenon DEF SendFrame, StreamLost, HandToSend
<1>2. ASSUME NEW w \in Seq(Frames), NEW o \in Seq(Frames), o # <<>>
      PROVE  /\ Append(w, Head(o)) \in Seq(Frames) /\ Tail(o) \in Seq(Frames)
             /\ Append(w, Head(o)) \o Tail(o) = w \o o
  BY <1>2
<1>3. wire' \in Seq(Frames) /\ outbound' \in Seq(Frames) /\ Outgoing' = Outgoing
  BY <1>1, <1>2, Zenon DEF Types, Outgoing
<1>4. UNCHANGED <<pc, reader, up>>
  BY Zenon DEF SendFrame, StreamLost, readerVars
<1> QED
  BY <1>3, <1>4, Zenon

LEMMA Step == IInv /\ [Next]_vars => IInv'
<1> SUFFICES ASSUME IInv, [Next]_vars PROVE IInv'
  OBVIOUS
<1> USE DEF sessVars, rsVars, wsVars, relayVars, readerVars, clientVars
<1>1. \A n \in Nat : {<<"RequestStart", n>>, <<"RequestEnd", n>>, <<"CancelRequest", n>>, <<"WsData", n>>,
                      <<"WsClose", n>>} \subseteq Frames
  BY DEF Frames
<1>2. Types
  BY DEF IInv
<1>3. CASE Forward
  <2>1. Live /\ reader = "none" /\ UNCHANGED <<wire, reader, up>> /\ pc' \in {"fwdEnd", "await"}
    BY <1>3, Zenon DEF Forward, IInv, Live, Before
  <2>2. PICK kind \in {"RequestStart", "RequestEnd"} :
           outbound' = Append(outbound, <<kind, 0>>) /\ (kind = "RequestStart" => pc = "fwdStart")
    BY <1>3 DEF Forward, Enqueue
  <2>3. <<kind, 0>> \in Frames /\ <<kind, 0>>[1] = kind
    BY <1>1, Zenon
  <2>4. Types' /\ Ordered(Outgoing)' /\ NoLast(Outgoing)'
    BY <1>2, <2>1, <2>2, <2>3, Queued, Zenon DEF IInv, Types
  <2> QED
    BY <2>1, <2>4, Zenon DEF IInv
<1>4. CASE AwaitCancelled
  <2>1. Live /\ reader = "none" /\ UNCHANGED <<wire, reader, up>> /\ pc' = "delWS"
    BY <1>4, Zenon DEF AwaitCancelled, IInv, Live, Before
  <2>2. outbound' = Append(outbound, <<"CancelRequest", 0>>) \/ UNCHANGED outbound
    BY <1>4 DEF AwaitCancelled, Enqueue
  <2>3. <<"CancelRequest", 0>> \in Frames /\ <<"CancelRequest", 0>>[1] = "CancelRequest"
    BY <1>1, Zenon
  <2>4. CASE UNCHANGED outbound
    <3>1. Types' /\ Outgoing' = Outgoing
      BY <2>1, <2>4, Zenon DEF IInv, Types, Outgoing
    <3>2. Ordered(Outgoing)'
      BY <3>1, Zenon DEF IInv, Ordered
    <3>3. ~Live' /\ pc' \notin Before /\ pc' \notin {"idle", "putWS", "fwdStart"}
      BY <2>1, Zenon DEF Live, Before
    <3> QED
      BY <3>1, <3>2, <3>3, Zenon DEF IInv
  <2>5. CASE outbound' = Append(outbound, <<"CancelRequest", 0>>)
    <3>1. Types' /\ Ordered(Outgoing)'
      BY <1>2, <2>1, <2>3, <2>5, Queued, Zenon DEF IInv, Types
    <3> QED
      BY <2>1, <3>1 DEF IInv, Live, Before
  <2> QED
    BY <2>2, <2>4, <2>5, Zenon
<1>5. CASE ReaderSends
  <2>1. Live /\ pc \notin Before /\ UNCHANGED <<wire, pc, up>>
    BY <1>5, Zenon DEF ReaderSends, IInv, Live
  <2>2. \/ UNCHANGED outbound
        \/ outbound' = Append(outbound, <<"WsData", up>>)
        \/ outbound' = Append(outbound, <<"WsClose", 0>>) /\ reader' = "done"
    BY <1>5 DEF ReaderSends, Enqueue, AfterClose
  <2>3. up \in Nat
    BY <1>2, Zenon DEF Types
  <2>4. CASE UNCHANGED outbound
    BY <1>2, <2>1, <2>4 DEF IInv, Types, Ordered, NoLast, Outgoing, Before
  <2>5. CASE outbound' = Append(outbound, <<"WsData", up>>)
    <3>1. <<"WsData", up>> \in Frames /\ <<"WsData", up>>[1] = "WsData"
      BY <1>1, <2>3, Zenon
    <3>2. Types' /\ Ordered(Outgoing)' /\ NoLast(Outgoing)'
      BY <1>2, <2>1, <2>5, <3>1, Queued, Zenon DEF IInv, Types
    <3> QED
      BY <2>1, <3>2, Zenon DEF IInv, Before
  <2>6. CASE outbound' = Append(outbound, <<"WsClose", 0>>) /\ reader' = "done"
    <3>1. <<"WsClose", 0>> \in Frames /\ <<"WsClose", 0>>[1] = "WsClose"
      BY <1>1, Zenon
    <3>2. Types' /\ Ordered(Outgoing)'
      BY <1>2, <2>1, <2>6, <3>1, Queued, Zenon DEF IInv, Types
    <3> QED
      BY <2>1, <2>6, <3>2, Zenon DEF IInv, Live, Before
  <2> QED
    BY <2>2, <2>4, <2>5, <2>6, Zenon
<1>6. CASE SendFrame \/ StreamLost
  <2>1. wire' \in Seq(Frames) /\ outbound' \in Seq(Frames) /\ Outgoing' = Outgoing /\ UNCHANGED <<pc, reader, up>>
    BY <1>2, <1>6, FrameSent, Zenon
  <2> QED
    BY <2>1, Zenon DEF IInv, Types, Live, NoLast, Ordered
<1> QED
  BY <1>3, <1>4, <1>5, <1>6, SilentStep, Zenon DEF Next, HandlerStep, Silent

-----------------------------------------------------------------------------
(* For any depth of the queues and any traffic, serveWebSocket and the goroutine
   that reads from the browser send the client RequestStart first and nothing
   after WsClose or CancelRequest. *)
THEOREM WebSocketFramesInOrder == Spec => []FramesInOrder
<1>1. IInv => FramesInOrder
  <2>1. ASSUME NEW s \in Seq(Frames) PROVE DOMAIN s = 1 .. Len(s)
    OBVIOUS
  <2>2. IInv => DOMAIN Outgoing = 1 .. Len(Outgoing)
    BY <2>1 DEF IInv, Types, Outgoing
  <2> QED
    BY <2>2 DEF IInv, Ordered, FramesInOrder
<1> QED
  BY <1>1, InitIInv, Step, PTL DEF Spec

-----------------------------------------------------------------------------
(* Towards the client *)

UpOf(s) ==
  \A i \in 1 .. Len(s) :
    /\ i = 1 => s[i][1] = "RequestStart"
    /\ i = 2 => s[i][1] = "RequestEnd"
    /\ i > 2 => \/ s[i] = <<"WsData", i - 2>>
                \/ i = Len(s) /\ s[i][1] \in {"WsClose", "CancelRequest"}

(* How many frames there are, by where the handler and the reader are. *)
Fed ==
  /\ pc = "fwdEnd" => Len(Outgoing) = 1
  /\ pc \in {"await", "hijack", "handshake"} => Len(Outgoing) = 2
  /\ pc \in Before => up = 0
  /\ reader \in {"sendBuffered", "send"} => up # 0 /\ Len(Outgoing) = up + 1
  /\ reader \in {"read", "sendClose"} => Len(Outgoing) = up + 2

Feed == ~sessDone => UpOf(Outgoing) /\ Fed

LEMMA UpMore ==
  ASSUME NEW s \in Seq(Frames), NEW f \in Frames, UpOf(s), NoLast(s),
         Len(s) = 0 => f[1] = "RequestStart",
         Len(s) = 1 => f[1] = "RequestEnd",
         Len(s) >= 2 => f = <<"WsData", Len(s) - 1>> \/ f[1] \in {"WsClose", "CancelRequest"}
  PROVE  UpOf(Append(s, f)) /\ Len(Append(s, f)) = Len(s) + 1
<1> DEFINE n == Len(s)
           t == Append(s, f)
<1>1. n \in Nat /\ Len(t) = n + 1 /\ t[n + 1] = f /\ \A i \in 1 .. n : t[i] = s[i]
  OBVIOUS
<1> HIDE DEF n, t
<1>2. ASSUME NEW i \in 1 .. n + 1
      PROVE  /\ i = 1 => t[i][1] = "RequestStart"
             /\ i = 2 => t[i][1] = "RequestEnd"
             /\ i > 2 => \/ t[i] = <<"WsData", i - 2>>
                         \/ i = n + 1 /\ t[i][1] \in {"WsClose", "CancelRequest"}
  <2>1. CASE i \in 1 .. n
    <3>1. t[i] = s[i] /\ s[i][1] \notin {"WsClose", "CancelRequest"}
      BY <1>1, <2>1, Zenon DEF NoLast, n
    <3> QED
      BY <2>1, <3>1, Zenon DEF UpOf, n
  <2>2. CASE i = n + 1
    <3>1. t[i] = f
      BY <1>1, <2>2, Zenon
    <3>2. (i = 1 => n = 0) /\ (i = 2 => n = 1) /\ (i > 2 => n >= 2 /\ i - 2 = n - 1)
      BY <1>1, <2>2
    <3> QED
      BY <2>2, <3>1, <3>2, Zenon DEF n
  <2> QED
    BY <1>1, <2>1, <2>2
<1> QED
  BY <1>1, <1>2, Zenon DEF UpOf, n, t

(* One more frame in the queue, as UpMore has it. *)
LEMMA UpQueued ==
  ASSUME IInv, NEW f \in Frames, outbound' = Append(outbound, f), UNCHANGED wire, UpOf(Outgoing), NoLast(Outgoing),
         Len(Outgoing) = 0 => f[1] = "RequestStart",
         Len(Outgoing) = 1 => f[1] = "RequestEnd",
         Len(Outgoing) >= 2 => f = <<"WsData", Len(Outgoing) - 1>> \/ f[1] \in {"WsClose", "CancelRequest"}
  PROVE  UpOf(Outgoing)' /\ Len(Outgoing') = Len(Outgoing) + 1
<1>1. ASSUME NEW w \in Seq(Frames), NEW o \in Seq(Frames)
      PROVE  w \o Append(o, f) = Append(w \o o, f) /\ w \o o \in Seq(Frames)
  OBVIOUS
<1>2. Outgoing' = Append(Outgoing, f) /\ Outgoing \in Seq(Frames)
  BY <1>1, Zenon DEF Outgoing, IInv, Types
<1> HIDE DEF Outgoing
<1>3. UpOf(Append(Outgoing, f)) /\ Len(Append(Outgoing, f)) = Len(Outgoing) + 1
  BY <1>2, UpMore, Zenon
<1> QED
  BY <1>2, <1>3, Zenon DEF UpOf

LEMMA InitFeed == Init => Feed
<1> SUFFICES ASSUME Init PROVE UpOf(Outgoing) /\ Fed
  BY DEF Feed
<1>1. Len(Outgoing) = 0
  BY DEF Init, Outgoing
<1>2. UpOf(Outgoing)
  BY <1>1, \A i \in 1 .. 0 : FALSE DEF UpOf
<1> QED
  BY <1>2, Zenon DEF Init, Fed, Before

LEMMA FeedStep == IInv /\ Feed /\ [Next]_vars => Feed'
<1> SUFFICES ASSUME IInv, Feed, [Next]_vars, ~sessDone' PROVE UpOf(Outgoing)' /\ Fed'
  BY DEF Feed
<1> USE DEF sessVars, rsVars, wsVars, relayVars, readerVars, clientVars
<1>1. ~sessDone
  <2>1. UNCHANGED once \/ once' \in {"closing", "closed"}
    BY Zenon DEF Next, HandlerStep, TryStart, PutWS, Forward, ForwardFails, Answered, AwaitFails, AwaitCancelled,
       Hijack, Handshake, TakePayload, WriteEnds, RelayEnds, Unwind, DelWS, FinishRequest, ReadBrowser, ReaderSends,
       BrowserGone, SendFrame, SendExits, StreamLost, ReceiveStart, ReceivePayload, ReceiveEnd, Receiving, Deliver,
       Discard, CloseDone, FailAll, vars
  <2> QED
    BY <2>1, Zenon DEF sessDone
<1>2. UpOf(Outgoing) /\ Fed
  BY <1>1, Zenon DEF Feed
<1>3. \A n \in Nat : {<<"RequestStart", n>>, <<"RequestEnd", n>>, <<"CancelRequest", n>>, <<"WsData", n>>,
                      <<"WsClose", n>>} \subseteq Frames
  BY DEF Frames
<1>4. CASE Forward
  <2>1. /\ Live /\ reader = "none" /\ up = 0 /\ UNCHANGED <<wire, reader, up>>
        /\ \/ pc = "fwdStart" /\ pc' = "fwdEnd" /\ outbound' = Append(outbound, <<"RequestStart", 0>>)
           \/ pc = "fwdEnd" /\ pc' = "await" /\ outbound' = Append(outbound, <<"RequestEnd", 0>>)
    BY <1>2, <1>4, Zenon DEF Forward, Enqueue, IInv, Fed, Live, Before
  <2>2. CASE pc = "fwdStart" /\ pc' = "fwdEnd" /\ outbound' = Append(outbound, <<"RequestStart", 0>>)
    <3>1. Len(Outgoing) = 0 /\ NoLast(Outgoing)
      BY <2>1, <2>2, Zenon DEF IInv
    <3>2. UpOf(Outgoing)' /\ Len(Outgoing') = Len(Outgoing) + 1
      <4>1. <<"RequestStart", 0>> \in Frames /\ <<"RequestStart", 0>>[1] = "RequestStart"
        BY <1>3, Zenon
      <4>2. Len(Outgoing) # 1 /\ ~(Len(Outgoing) >= 2)
        BY <3>1
      <4> QED
        BY <1>2, <2>1, <2>2, <3>1, <4>1, <4>2, UpQueued, Zenon
    <3> QED
      BY <2>1, <2>2, <3>1, <3>2 DEF Fed
  <2>3. CASE pc = "fwdEnd" /\ pc' = "await" /\ outbound' = Append(outbound, <<"RequestEnd", 0>>)
    <3>1. Len(Outgoing) = 1 /\ NoLast(Outgoing)
      BY <1>2, <2>1, <2>3, Zenon DEF IInv, Fed
    <3>2. UpOf(Outgoing)' /\ Len(Outgoing') = Len(Outgoing) + 1
      <4>1. <<"RequestEnd", 0>> \in Frames /\ <<"RequestEnd", 0>>[1] = "RequestEnd"
        BY <1>3, Zenon
      <4>2. Len(Outgoing) # 0 /\ ~(Len(Outgoing) >= 2)
        BY <3>1
      <4> QED
        BY <1>2, <2>1, <2>3, <3>1, <4>1, <4>2, UpQueued, Zenon
    <3> QED
      BY <2>1, <2>3, <3>1, <3>2 DEF Fed
  <2> QED
    BY <2>1, <2>2, <2>3, Zenon
<1>5. CASE AwaitCancelled
  <2>1. Live /\ reader = "none" /\ UNCHANGED <<wire, reader, up>> /\ pc = "await" /\ pc' = "delWS"
    BY <1>5, Zenon DEF AwaitCancelled, IInv, Live, Before
  <2>2. outbound' = Append(outbound, <<"CancelRequest", 0>>) \/ UNCHANGED outbound
    BY <1>5 DEF AwaitCancelled, Enqueue
  <2>3. Fed'
    BY <2>1, Zenon DEF Fed, Before
  <2>4. CASE outbound' = Append(outbound, <<"CancelRequest", 0>>)
    <3>1. Len(Outgoing) = 2 /\ NoLast(Outgoing)
      BY <1>2, <2>1, Zenon DEF IInv, Fed
    <3>2. <<"CancelRequest", 0>> \in Frames /\ <<"CancelRequest", 0>>[1] \in {"WsClose", "CancelRequest"}
      BY <1>3, Zenon
    <3>3. Len(Outgoing) # 0 /\ Len(Outgoing) # 1
      BY <3>1
    <3> QED
      BY <1>2, <2>1, <2>3, <2>4, <3>1, <3>2, <3>3, UpQueued, Zenon
  <2>5. CASE UNCHANGED outbound
    BY <1>2, <2>1, <2>3, <2>5, Zenon DEF UpOf, Outgoing
  <2> QED
    BY <2>2, <2>4, <2>5, Zenon
<1>6. CASE ReaderSends
  <2>1. Live /\ pc \notin Before /\ UNCHANGED <<wire, pc, up>> /\ up \in Nat
    BY <1>6, Zenon DEF ReaderSends, IInv, Types, Live
  <2>2. \/ reader \in {"sendBuffered", "send"} /\ reader' = "read" /\ outbound' = Append(outbound, <<"WsData", up>>)
        \/ reader = "sendClose" /\ reader' = "done" /\ outbound' = Append(outbound, <<"WsClose", 0>>)
    BY <1>1, <1>6, Zenon DEF ReaderSends, Enqueue, AfterClose
  <2>3. NoLast(Outgoing)
    BY <2>1, Zenon DEF IInv
  <2>4. CASE reader \in {"sendBuffered", "send"} /\ reader' = "read" /\ outbound' = Append(outbound, <<"WsData", up>>)
    <3>1. up # 0 /\ Len(Outgoing) = up + 1
      BY <1>2, <2>4, Zenon DEF Fed
    <3>2. Len(Outgoing) # 0 /\ Len(Outgoing) # 1 /\ Len(Outgoing) - 1 = up
      BY <2>1, <3>1
    <3>3. UpOf(Outgoing)' /\ Len(Outgoing') = Len(Outgoing) + 1
      <4>1. <<"WsData", up>> \in Frames
        BY <1>3, <2>1, Zenon
      <4> QED
        BY <1>2, <2>1, <2>3, <2>4, <3>2, <4>1, UpQueued, Zenon
    <3> QED
      BY <2>1, <2>4, <3>1, <3>3 DEF Fed, Before
  <2>5. CASE reader = "sendClose" /\ reader' = "done" /\ outbound' = Append(outbound, <<"WsClose", 0>>)
    <3>1. Len(Outgoing) = up + 2
      BY <1>2, <2>5, Zenon DEF Fed
    <3>2. UpOf(Outgoing)'
      <4>1. <<"WsClose", 0>> \in Frames /\ <<"WsClose", 0>>[1] \in {"WsClose", "CancelRequest"}
        BY <1>3, Zenon
      <4>2. Len(Outgoing) # 0 /\ Len(Outgoing) # 1
        BY <2>1, <3>1
      <4> QED
        BY <1>2, <2>1, <2>3, <2>5, <4>1, <4>2, UpQueued, Zenon
    <3> QED
      BY <2>1, <2>5, <3>2, Zenon DEF Fed, Before
  <2> QED
    BY <2>2, <2>4, <2>5, Zenon
<1>7. CASE SendFrame \/ StreamLost
  <2>1. Outgoing' = Outgoing /\ UNCHANGED <<pc, reader, up>>
    BY <1>7, FrameSent, Zenon DEF IInv
  <2> QED
    BY <1>2, <2>1, Zenon DEF UpOf, Fed
<1>8. ASSUME Silent \/ UNCHANGED vars PROVE UpOf(Outgoing)' /\ Fed'
  <2>1. /\ Outgoing' = Outgoing
        /\ pc' \in {"idle", "putWS", "fwdStart"} => pc \in {"idle", "putWS", "fwdStart"}
        /\ pc' = "fwdEnd" => pc = "fwdEnd"
        /\ pc' \in {"await", "hijack", "handshake"} => pc \in {"await", "hijack", "handshake"}
        /\ pc' \in Before => pc \in Before
        /\ Handshake \/ ReadBrowser \/ UNCHANGED <<reader, up>>
    BY <1>8, SilentIs, Zenon DEF Outgoing
  <2>2. UpOf(Outgoing)'
    BY <1>2, <2>1, Zenon DEF UpOf
  <2>3. up \in Nat
    BY Zenon DEF IInv, Types
  <2>4. CASE Handshake
    <3>1. /\ pc = "handshake" /\ pc' \in {"relay", "unwind"} /\ up = 0 /\ Len(Outgoing) = 2
          /\ \/ reader' = "read" /\ up' = 0
             \/ reader' = "sendBuffered" /\ up' = 1
             \/ reader' = "none"
      BY <1>2, <2>4 DEF Handshake, IInv, Fed, Before
    <3> QED
      BY <2>1, <2>2, <3>1 DEF Fed, Before
  <2>5. CASE ReadBrowser
    <3>1. /\ UNCHANGED pc /\ pc \notin Before /\ Len(Outgoing) = up + 2
          /\ \/ reader' = "send" /\ up' = up + 1
             \/ reader' = "sendClose" /\ up' = up
      BY <1>2, <2>5, Zenon DEF ReadBrowser, AfterReadError, IInv, Fed, Before
    <3> QED
      BY <2>1, <2>2, <2>3, <3>1 DEF Fed, Before
  <2>6. CASE UNCHANGED <<reader, up>>
    BY <1>2, <2>1, <2>2, <2>6, Zenon DEF Fed
  <2> QED
    BY <2>1, <2>4, <2>5, <2>6, Zenon
<1> QED
  BY <1>4, <1>5, <1>6, <1>7, <1>8, Zenon DEF Next, HandlerStep, Silent

-----------------------------------------------------------------------------
(* Towards the browser *)

InOrder(s) == \A i \in 1 .. Len(s) : s[i] = i

Early == {"idle", "putWS", "fwdStart"}
Opened == {"hijack", "handshake", "relay", "write", "unwind"}
Left == {"delWS", "finish", "returned"}

Kinds == {"101", "refused", "body", "data"}

DownTypes ==
  /\ {toBrowser, writing, fromClient} \subseteq Seq(Nat) /\ down \in Nat
  /\ held = <<>> \/ \E k \in Kinds : \E n \in Nat : held = <<<<k, n>>>>

(* The client has answered, or is about to be taken to have answered, with a 101. *)
Upgraded ==
  client = "ws" \/ start = "101" \/ (\E n \in Nat : held = <<<<"101", n>>>>) \/ pc \in Opened

(* Every payload of the client is on its way to the browser: the receiving
   goroutine finds the WebSocket, and drops nothing it was given. *)
Coming == inWsMap /\ Upgraded /\ (wsDone => pc # "delWS")

(* Where the handler is, and what it has set up or torn down. *)
Stage ==
  /\ Upgraded => client \in {"ws", "over"}
  /\ client = "start" => held = <<>>
  /\ pc \in Early => client = "start"
  /\ pc \in Before \cup {"relay"} => writing = <<>>
  /\ pc \in {"idle", "putWS"} => ~wsDone
  /\ inWsMap => pc \notin {"idle", "putWS", "finish", "returned"}
  /\ wsDone /\ inWsMap /\ pc # "delWS" => client = "over" /\ held = <<>>

Flow ==
  /\ InOrder(toBrowser)
  /\ (wsDone => pc \notin Left) => InOrder(Downstream)
  /\ Coming => Len(Downstream) = down
  /\ client = "start" => Len(Downstream) = 0 /\ down = 0

DownInv == DownTypes /\ Stage /\ Flow

LEMMA Shifts ==
  ASSUME NEW t \in Seq(Nat), NEW f \in Seq(Nat)
  PROVE  /\ t \o <<>> = t /\ t \o f \in Seq(Nat)
         /\ f # <<>> => Head(f) \in Nat /\ Tail(f) \in Seq(Nat) /\ (t \o <<Head(f)>>) \o Tail(f) = t \o f
         /\ \A n \in Nat : Append(f, n) \in Seq(Nat) /\ t \o Append(f, n) = (t \o f) \o <<n>>
<1>1. t \o <<>> = t /\ t \o f \in Seq(Nat)
  OBVIOUS
<1>2. ASSUME f # <<>> PROVE Head(f) \in Nat /\ Tail(f) \in Seq(Nat) /\ (t \o <<Head(f)>>) \o Tail(f) = t \o f
  BY <1>2
<1>3. ASSUME NEW n \in Nat PROVE Append(f, n) \in Seq(Nat) /\ t \o Append(f, n) = (t \o f) \o <<n>>
  OBVIOUS
<1> QED
  BY <1>1, <1>2, <1>3, Zenon

LEMMA OneMore ==
  ASSUME NEW s \in Seq(Nat), NEW n \in Nat
  PROVE  /\ Len(s) \in Nat /\ Len(s \o <<n>>) = Len(s) + 1
         /\ InOrder(s) /\ n = Len(s) + 1 => InOrder(s \o <<n>>)
         /\ InOrder(s \o <<n>>) => InOrder(s)
<1>1. /\ Len(s) \in Nat /\ Len(s \o <<n>>) = Len(s) + 1 /\ (s \o <<n>>)[Len(s) + 1] = n
      /\ \A i \in 1 .. Len(s) : (s \o <<n>>)[i] = s[i]
  OBVIOUS
<1> DEFINE m == Len(s)
           t == s \o <<n>>
<1> HIDE DEF m, t
<1>2. m \in Nat /\ Len(t) = m + 1 /\ t[m + 1] = n /\ \A i \in 1 .. m : t[i] = s[i]
  BY <1>1, Zenon DEF m, t
<1>3. \A i \in 1 .. m + 1 : i \in 1 .. m \/ i = m + 1
  BY <1>2
<1>4. \A i \in 1 .. m : i \in 1 .. m + 1
  BY <1>2
<1>5. (\A i \in 1 .. m : s[i] = i) /\ n = m + 1 => \A i \in 1 .. m + 1 : t[i] = i
  BY <1>2, <1>3, Zenon
<1>6. (\A i \in 1 .. m + 1 : t[i] = i) => \A i \in 1 .. m : s[i] = i
  BY <1>2, <1>4, Zenon
<1> QED
  BY <1>1, <1>2, <1>5, <1>6, Zenon DEF InOrder, m, t

LEMMA FrontInOrder ==
  ASSUME NEW s \in Seq(Nat), NEW t \in Seq(Nat), InOrder(s \o t)
  PROVE  InOrder(s)
<1>1. \A i \in 1 .. Len(s) : i \in 1 .. Len(s \o t) /\ (s \o t)[i] = s[i]
  OBVIOUS
<1> QED
  BY <1>1, Zenon DEF InOrder

LEMMA DownSeq ==
  ASSUME DownTypes
  PROVE  /\ toBrowser \in Seq(Nat) /\ writing \in Seq(Nat) /\ fromClient \in Seq(Nat)
         /\ HeldData \in Seq(Nat) /\ Downstream \in Seq(Nat)
         /\ held # <<>> => \E k \in Kinds, n \in Nat :
                             held = <<<<k, n>>>> /\ HeldData = IF k = "data" THEN <<n>> ELSE <<>>
         /\ held = <<>> => HeldData = <<>>
<1>1. toBrowser \in Seq(Nat) /\ writing \in Seq(Nat) /\ fromClient \in Seq(Nat)
  BY Zenon DEF DownTypes
<1>2. ASSUME NEW k \in Kinds, NEW n \in Nat, held = <<<<k, n>>>>
      PROVE  HeldData = IF k = "data" THEN <<n>> ELSE <<>>
  BY <1>2 DEF HeldData
<1>3. held = <<>> => HeldData = <<>>
  BY Zenon DEF HeldData
<1>4. <<>> \in Seq(Nat) /\ \A n \in Nat : <<n>> \in Seq(Nat)
  OBVIOUS
<1>5. HeldData \in Seq(Nat)
  BY <1>2, <1>3, <1>4, Zenon DEF DownTypes
<1>6. Downstream \in Seq(Nat)
  BY <1>1, <1>5, Shifts, Zenon DEF Downstream
<1> QED
  BY <1>1, <1>2, <1>3, <1>5, <1>6, Zenon DEF DownTypes

LEMMA InitDownInv == Init => DownInv
<1> SUFFICES ASSUME Init PROVE DownInv
  OBVIOUS
<1>1. DownTypes
  BY DEF Init, DownTypes
<1>2. Stage
  BY DEF Init, Stage, Upgraded, Opened, Early
<1>3. toBrowser = <<>> /\ Downstream = <<>>
  BY DEF Init, Downstream, HeldData
<1>4. InOrder(<<>>) /\ Len(<<>>) = 0
  BY \A i \in 1 .. 0 : FALSE DEF InOrder
<1>5. Flow
  BY <1>3, <1>4, Zenon DEF Init, Flow
<1> QED
  BY <1>1, <1>2, <1>5, Zenon DEF DownInv

(* Steps that leave alone what is on its way to the browser. *)
Aside ==
  \/ TryStart \/ PutWS \/ Forward \/ ForwardFails \/ Answered \/ AwaitFails \/ AwaitCancelled \/ Hijack \/ Handshake
  \/ RelayEnds \/ Unwind \/ DelWS \/ FinishRequest \/ ReadBrowser \/ ReaderSends \/ BrowserGone \/ SendFrame
  \/ SendExits \/ StreamLost \/ CloseDone \/ FailAll

LEMMA AsideIs ==
  ASSUME Aside \/ UNCHANGED vars
  PROVE  /\ UNCHANGED <<toBrowser, writing, fromClient, held, client, down>>
         /\ pc \in Left => pc' \in Left
         /\ pc' \in {"idle", "putWS"} => pc \in {"idle", "putWS"}
         /\ pc' \in Early => pc \in Early
         /\ pc' \in Before \cup {"relay"} => pc \in Before \cup {"relay"}
         /\ pc' \in Opened => pc \in Opened \/ start = "101"
         /\ start' = start \/ start' = "none"
         /\ wsDone => wsDone'
         /\ wsDone' => wsDone \/ inWsMap \/ pc' = "delWS"
         /\ inWsMap' => \/ pc = "putWS" /\ pc' = "fwdStart" /\ UNCHANGED wsDone
                        \/ inWsMap /\ (pc = "delWS" => pc' = "delWS") /\ (wsDone' => wsDone \/ pc' = "delWS")
         /\ inWsMap' /\ pc' \in {"idle", "putWS", "finish", "returned"} =>
              inWsMap /\ pc \in {"idle", "putWS", "finish", "returned"}
<1> USE DEF sessVars, rsVars, wsVars, relayVars, readerVars, clientVars
<1>1. UNCHANGED <<toBrowser, writing, fromClient, held, client, down>>
  BY Zenon DEF Aside, TryStart, PutWS, Forward, ForwardFails, Answered, AwaitFails, AwaitCancelled, Hijack, Handshake, RelayEnds, Unwind,
     DelWS, FinishRequest, ReadBrowser, ReaderSends, BrowserGone, SendFrame, SendExits, StreamLost, CloseDone, FailAll, vars
<1>2. /\ pc \in Left => pc' \in Left
      /\ pc' \in {"idle", "putWS"} => pc \in {"idle", "putWS"}
      /\ pc' \in Early => pc \in Early
  BY Zenon DEF Left, Early, Aside, TryStart, PutWS, Forward, ForwardFails, Answered, AwaitFails, AwaitCancelled, Hijack, Handshake, RelayEnds, Unwind,
     DelWS, FinishRequest, ReadBrowser, ReaderSends, BrowserGone, SendFrame, SendExits, StreamLost, CloseDone, FailAll, vars
<1>3. pc' \in Before \cup {"relay"} => pc \in Before \cup {"relay"}
  BY Zenon DEF Before, Aside, TryStart, PutWS, Forward, ForwardFails, Answered, AwaitFails, AwaitCancelled, Hijack, Handshake, RelayEnds, Unwind,
     DelWS, FinishRequest, ReadBrowser, ReaderSends, BrowserGone, SendFrame, SendExits, StreamLost, CloseDone, FailAll, vars
<1>4. /\ pc' \in Opened => pc \in Opened \/ start = "101"
      /\ start' = start \/ start' = "none"
  BY Zenon DEF Opened, Aside, TryStart, PutWS, Forward, ForwardFails, Answered, AwaitFails, AwaitCancelled, Hijack, Handshake, RelayEnds, Unwind,
     DelWS, FinishRequest, ReadBrowser, ReaderSends, BrowserGone, SendFrame, SendExits, StreamLost, CloseDone, FailAll, vars
<1>5. /\ wsDone => wsDone'
      /\ wsDone' => wsDone \/ inWsMap \/ pc' = "delWS"
  <2>1. ASSUME FailAll PROVE (wsDone => wsDone') /\ (wsDone' => wsDone \/ inWsMap)
    BY <2>1, Zenon DEF FailAll
  <2>2. ASSUME (Aside /\ ~FailAll) \/ UNCHANGED vars PROVE UNCHANGED wsDone \/ (wsDone' = TRUE /\ pc' = "delWS")
    BY <2>2, Zenon DEF WsClosed, Aside, TryStart, PutWS, Forward, ForwardFails, Answered, AwaitFails, AwaitCancelled, Hijack, Handshake, RelayEnds, Unwind,
     DelWS, FinishRequest, ReadBrowser, ReaderSends, BrowserGone, SendFrame, SendExits, StreamLost, CloseDone, vars
  <2>3. CASE UNCHANGED wsDone
    BY <2>3, Zenon
  <2>4. CASE wsDone' = TRUE /\ pc' = "delWS"
    BY <2>4, Zenon
  <2> QED
    BY <2>1, <2>2, <2>3, <2>4, Zenon
<1>6. inWsMap' => \/ pc = "putWS" /\ pc' = "fwdStart" /\ UNCHANGED wsDone
                  \/ inWsMap /\ (pc = "delWS" => pc' = "delWS") /\ (wsDone' => wsDone \/ pc' = "delWS")
  BY Zenon DEF WsClosed, Aside, TryStart, PutWS, Forward, ForwardFails, Answered, AwaitFails, AwaitCancelled, Hijack, Handshake, RelayEnds, Unwind,
     DelWS, FinishRequest, ReadBrowser, ReaderSends, BrowserGone, SendFrame, SendExits, StreamLost, CloseDone, FailAll, vars
<1>7. inWsMap' /\ pc' \in {"idle", "putWS", "finish", "returned"} =>
        inWsMap /\ pc \in {"idle", "putWS", "finish", "returned"}
  BY Zenon DEF WsClosed, Aside, TryStart, PutWS, Forward, ForwardFails, Answered, AwaitFails, AwaitCancelled, Hijack, Handshake, RelayEnds, Unwind,
     DelWS, FinishRequest, ReadBrowser, ReaderSends, BrowserGone, SendFrame, SendExits, StreamLost, CloseDone, FailAll, vars
<1> QED
  BY <1>1, <1>2, <1>3, <1>4, <1>5, <1>6, <1>7, Zenon

LEMMA AsideStep ==
  ASSUME IInv, DownInv, Aside \/ UNCHANGED vars
  PROVE  DownInv'
<1>1. DownTypes'
  BY AsideIs DEF DownInv, DownTypes
<1>2. Downstream' = Downstream
  BY AsideIs, Zenon DEF Downstream, HeldData
<1>3. Upgraded' => Upgraded
  BY AsideIs, Zenon DEF Upgraded
<1>4. Stage'
  <2>1. /\ (Upgraded' => client' \in {"ws", "over"})
        /\ (client' = "start" => held' = <<>>)
        /\ (pc' \in Early => client' = "start")
        /\ (pc' \in Before \cup {"relay"} => writing' = <<>>)
    BY <1>3, AsideIs, Zenon DEF DownInv, Stage
  <2>2. pc' \in {"idle", "putWS"} => ~wsDone'
    BY AsideIs, Zenon DEF DownInv, Stage
  <2>3. inWsMap' => pc' \notin {"idle", "putWS", "finish", "returned"}
    BY AsideIs, Zenon DEF DownInv, Stage
  <2>4. wsDone' /\ inWsMap' /\ pc' # "delWS" => client' = "over" /\ held' = <<>>
    BY AsideIs, Zenon DEF DownInv, Stage
  <2> QED
    BY <2>1, <2>2, <2>3, <2>4, Zenon DEF Stage
<1>5. Flow'
  <2>1. Coming' => Coming \/ client = "start"
    BY <1>3, AsideIs, Zenon DEF Coming, DownInv, Stage, Early
  <2>2. ~(Coming' /\ client = "start")
    BY <1>3, AsideIs, Zenon DEF Coming, DownInv, Stage
  <2>3. (wsDone' => pc' \notin Left) => (wsDone => pc \notin Left)
    BY AsideIs, Zenon
  <2> QED
    BY <1>2, <2>1, <2>2, <2>3, AsideIs, Zenon DEF DownInv, Flow, InOrder
<1> QED
  BY <1>1, <1>4, <1>5, Zenon DEF DownInv

(* The relay loop takes a payload and writes it. *)
LEMMA RelayStep ==
  ASSUME DownInv, TakePayload \/ WriteEnds
  PROVE  DownInv'
<1> USE DEF sessVars, rsVars, wsVars, relayVars, readerVars, clientVars
<1>1. DownTypes /\ Stage /\ Flow
  BY Zenon DEF DownInv
<1>2. UNCHANGED <<held, client, down, start, wsDone, inWsMap>> /\ pc \in {"relay", "write"} /\ pc' \in {"relay", "write", "unwind"}
  BY DEF TakePayload, WriteEnds
<1>3. /\ toBrowser \in Seq(Nat) /\ writing \in Seq(Nat) /\ fromClient \in Seq(Nat)
      /\ HeldData \in Seq(Nat) /\ Downstream \in Seq(Nat) /\ HeldData' = HeldData
  BY <1>1, <1>2, DownSeq, Zenon DEF HeldData
<1>4. InOrder(Downstream)
  BY <1>1, <1>2, Zenon DEF Flow, Left
<1>5. /\ {toBrowser', writing', fromClient'} \subseteq Seq(Nat) /\ Downstream' = Downstream /\ InOrder(toBrowser)'
      /\ pc' = "relay" => writing' = <<>>
  <2>1. CASE TakePayload
    <3>1. /\ writing = <<>> /\ fromClient # <<>> /\ writing' = <<Head(fromClient)>> /\ fromClient' = Tail(fromClient)
          /\ toBrowser' = toBrowser /\ pc' = "write"
      BY <1>1, <2>1, Zenon DEF TakePayload, Stage
    <3>2. /\ toBrowser \o writing = toBrowser /\ Head(fromClient) \in Nat /\ Tail(fromClient) \in Seq(Nat)
          /\ (toBrowser \o <<Head(fromClient)>>) \o Tail(fromClient) = toBrowser \o fromClient
      BY <1>3, <3>1, Shifts, Zenon
    <3>3. Downstream' = Downstream
      BY <1>3, <3>1, <3>2, Zenon DEF Downstream
    <3>4. \A n \in Nat : <<n>> \in Seq(Nat)
      OBVIOUS
    <3> QED
      BY <1>1, <1>3, <3>1, <3>2, <3>3, <3>4, Zenon DEF Flow, InOrder
  <2>2. CASE WriteEnds /\ toBrowser' = toBrowser \o writing /\ writing' = <<>>
    <3>1. fromClient' = fromClient
      BY <2>2 DEF WriteEnds
    <3>2. toBrowser' \in Seq(Nat) /\ writing' \in Seq(Nat) /\ toBrowser' \o writing' = toBrowser \o writing
      BY <1>3, <2>2
    <3>3. Downstream' = Downstream
      BY <1>3, <3>1, <3>2, Zenon DEF Downstream
    <3>4. InOrder(toBrowser \o writing)
      <4>1. InOrder((toBrowser \o writing) \o fromClient)
        BY <1>3, <1>4, Shifts, FrontInOrder, Zenon DEF Downstream
      <4> QED
        BY <1>3, <4>1, Shifts, FrontInOrder, Zenon
    <3> QED
      BY <1>3, <2>2, <3>1, <3>2, <3>3, <3>4, Zenon DEF InOrder
  <2>3. CASE WriteEnds /\ UNCHANGED relayVars /\ pc' = "unwind"
    <3>1. UNCHANGED <<toBrowser, writing, fromClient>>
      BY <2>3 DEF WriteEnds
    <3> QED
      BY <1>1, <1>3, <2>3, <3>1, Zenon DEF Downstream, Flow, InOrder
  <2> QED
    BY <2>1, <2>2, <2>3, Zenon DEF WriteEnds
<1>6. DownTypes'
  BY <1>1, <1>2, <1>5, Zenon DEF DownTypes
<1>7. Upgraded' => Upgraded
  BY <1>2, Zenon DEF Upgraded, Opened
<1>8. Stage'
  BY <1>1, <1>2, <1>5, <1>7, Zenon DEF Stage, Early, Before
<1>9. Flow'
  <2>1. Coming' => Coming
    BY <1>2, <1>7, Zenon DEF Coming
  <2> QED
    BY <1>1, <1>2, <1>4, <1>5, <2>1, Zenon DEF Flow, InOrder
<1> QED
  BY <1>6, <1>8, <1>9, Zenon DEF DownInv

(* The receiving goroutine takes a frame of the client. *)
LEMMA ReceiveStep ==
  ASSUME IInv, DownInv, ReceiveStart \/ ReceivePayload \/ ReceiveEnd
  PROVE  DownInv'
<1> USE DEF sessVars, rsVars, wsVars, relayVars, readerVars, clientVars
<1>1. DownTypes /\ Stage /\ Flow
  BY Zenon DEF DownInv
<1>2. /\ held = <<>> /\ wire # <<>> /\ UNCHANGED <<toBrowser, writing, fromClient, start, inWsMap, pc>>
  BY DEF ReceiveStart, ReceivePayload, ReceiveEnd, Receiving
<1>3. pc \notin Early
  <2>1. ASSUME NEW w \in Seq(Frames), NEW o \in Seq(Frames), w \o o = <<>> PROVE w = <<>>
    BY <2>1
  <2> QED
    BY <1>2, <2>1, Zenon DEF IInv, Types, Outgoing, Early
<1>4. /\ toBrowser \in Seq(Nat) /\ writing \in Seq(Nat) /\ fromClient \in Seq(Nat)
      /\ HeldData = <<>> /\ Downstream \in Seq(Nat) /\ down \in Nat
  BY <1>1, <1>2, DownSeq, Zenon DEF DownTypes
<1>5. ASSUME HeldData' = <<>> PROVE Downstream' = Downstream
  BY <1>2, <1>4, <1>5, Zenon DEF Downstream
<1>6. CASE ReceiveStart
  <2>1. PICK k \in {"101", "refused"} : /\ client = "start" /\ client' = IF k = "101" THEN "ws" ELSE "refused"
                                        /\ held' = <<<<k, 0>>>> \/ held' = <<>>
                                        /\ UNCHANGED <<down, wsDone>>
    BY <1>6 DEF ReceiveStart, Receiving
  <2>2. HeldData' = <<>>
    BY <2>1 DEF HeldData
  <2>3. Downstream' = Downstream
    BY <1>5, <2>2, Zenon
  <2>4. DownTypes'
    BY <1>1, <1>2, <2>1, Zenon DEF DownTypes, Kinds
  <2>5. ~Upgraded
    BY <1>1, <2>1, Zenon DEF Stage
  <2>6. k = "refused" => ~Upgraded'
    BY <1>2, <2>1, <2>5 DEF Upgraded
  <2>7. Stage'
    BY <1>1, <1>2, <1>3, <2>1, <2>6, Zenon DEF Stage, Early
  <2>8. Flow'
    BY <1>1, <1>2, <2>1, <2>3, Zenon DEF Flow, InOrder
  <2> QED
    BY <2>4, <2>7, <2>8, Zenon DEF DownInv
<1>7. CASE ReceivePayload
  <2>1. /\ client \in {"ws", "refused"} /\ down' = down + 1 /\ UNCHANGED <<client, wsDone>>
        /\ client = "ws" /\ inWsMap => held' = <<<<"data", down + 1>>>>
        /\ client = "ws" /\ ~inWsMap => held' = <<>>
        /\ client = "refused" => held' = <<<<"body", down + 1>>>> \/ held' = <<>>
    BY <1>7, Zenon DEF ReceivePayload, Receiving
  <2>2. down' \in Nat /\ down + 1 \in Nat
    BY <1>4, <2>1
  <2>3. DownTypes'
    BY <1>1, <1>2, <2>1, <2>2, Zenon DEF DownTypes, Kinds
  <2>4. client = "refused" => ~Upgraded /\ ~Upgraded'
    BY <1>1, <1>2, <2>1 DEF Stage, Upgraded
  <2>5. ~(wsDone /\ inWsMap /\ pc # "delWS")
    BY <1>1, <2>1, Zenon DEF Stage
  <2>6. Stage'
    BY <1>1, <1>2, <1>3, <2>1, <2>4, <2>5, Zenon DEF Stage, Early
  <2>7. CASE client = "ws" /\ inWsMap
    <3>1. HeldData' = <<down + 1>> /\ HeldData = <<>>
      BY <1>2, <2>1, <2>7 DEF HeldData
    <3>2. Downstream' = Downstream \o <<down + 1>>
      <4> DEFINE line == (toBrowser \o writing) \o fromClient
      <4>1. line \in Seq(Nat)
        BY <1>4, Shifts, Zenon
      <4>2. Downstream = line \o <<>> /\ Downstream' = line \o <<down + 1>>
        BY <1>2, <3>1, Zenon DEF Downstream
      <4> HIDE DEF line
      <4>3. line \o <<>> = line
        BY <4>1, Shifts, Zenon
      <4> QED
        BY <4>2, <4>3, Zenon
    <3>3. Coming' <=> Coming
      BY <1>2, <2>1, <2>7, Zenon DEF Coming, Upgraded
    <3>4. Coming => Len(Downstream') = down'
      BY <1>1, <1>4, <2>1, <2>2, <3>2, OneMore, Zenon DEF Flow
    <3>5. (wsDone => pc \notin Left) => Coming /\ InOrder(Downstream)
      BY <1>1, <2>7, Zenon DEF Flow, Coming, Upgraded, Left
    <3>6. (wsDone => pc \notin Left) => InOrder(Downstream \o <<down + 1>>)
      BY <1>1, <1>4, <2>2, <3>5, OneMore, Zenon DEF Flow
    <3> QED
      BY <1>1, <1>2, <2>1, <2>3, <2>6, <2>7, <3>2, <3>3, <3>4, <3>6, Zenon DEF DownInv, Flow, InOrder
  <2>8. CASE ~(client = "ws" /\ inWsMap)
    <3>1. HeldData' = <<>>
      BY <2>1, <2>8 DEF HeldData
    <3>2. Downstream' = Downstream
      BY <1>5, <3>1, Zenon
    <3>3. ~Coming'
      BY <1>2, <2>1, <2>4, <2>8, Zenon DEF Coming
    <3> QED
      BY <1>1, <1>2, <2>1, <2>3, <2>6, <3>2, <3>3, Zenon DEF DownInv, Flow, InOrder
  <2> QED
    BY <2>7, <2>8, Zenon
<1>8. CASE ReceiveEnd
  <2>1. client' = "over" /\ UNCHANGED <<held, down>>
    BY <1>8, Zenon DEF ReceiveEnd
  <2>2. (wsDone => wsDone') /\ (wsDone' => wsDone \/ inWsMap)
    BY <1>8, Zenon DEF ReceiveEnd
  <2>3. Downstream' = Downstream
    BY <1>2, <1>5, <2>1, Zenon DEF HeldData
  <2>4. DownTypes'
    BY <1>1, <1>2, <2>1, Zenon DEF DownTypes
  <2>5. Stage'
    BY <1>1, <1>2, <1>3, <2>1, <2>2, Zenon DEF Stage, Early
  <2>6. Upgraded' => Upgraded
    BY <1>2, <2>1, Zenon DEF Upgraded
  <2>7. Coming' => Coming
    BY <1>2, <2>2, <2>6, Zenon DEF Coming
  <2> QED
    BY <1>1, <1>2, <2>1, <2>2, <2>3, <2>4, <2>5, <2>7, Zenon DEF DownInv, Flow, InOrder
<1> QED
  BY <1>6, <1>7, <1>8, Zenon

(* The receiving goroutine gets rid of the frame it holds. *)
LEMMA HeldStep ==
  ASSUME DownInv, Deliver \/ Discard
  PROVE  DownInv'
<1> USE DEF sessVars, rsVars, wsVars, relayVars, readerVars, clientVars
<1>1. DownTypes /\ Stage /\ Flow
  BY Zenon DEF DownInv
<1>2. /\ held # <<>> /\ held' = <<>>
      /\ UNCHANGED <<toBrowser, writing, inWsMap, wsDone, pc, client, down>>
  BY DEF Deliver, Discard
<1>3. PICK k \in Kinds, n \in Nat : held = <<<<k, n>>>> /\ HeldData = IF k = "data" THEN <<n>> ELSE <<>>
  BY <1>1, <1>2, DownSeq, Zenon
<1>4. held[1][1] = k /\ held[1][2] = n /\ HeldData' = <<>>
  BY <1>2, <1>3, Zenon DEF HeldData
<1>5. /\ toBrowser \in Seq(Nat) /\ writing \in Seq(Nat) /\ fromClient \in Seq(Nat) /\ Downstream \in Seq(Nat)
  BY <1>1, DownSeq, Zenon
<1> DEFINE front == toBrowser \o writing
<1>6. front \in Seq(Nat) /\ front \o fromClient \in Seq(Nat) /\ Downstream = (front \o fromClient) \o HeldData
      /\ front' = front /\ Downstream' = (front \o fromClient') \o <<>>
  BY <1>2, <1>4, <1>5, Shifts, Zenon DEF Downstream
<1> HIDE DEF front
<1>7. client # "start" /\ ~(wsDone /\ inWsMap /\ pc # "delWS")
  BY <1>1, <1>2, Zenon DEF Stage
<1>8. start' = "101" => Upgraded
  <2>1. start' = start \/ start' = k
    BY <1>4 DEF Deliver, Discard
  <2> QED
    BY <1>3, <2>1, Zenon DEF Upgraded
<1>9. Upgraded' => Upgraded
  <2>1. \A m : held' # <<<<"101", m>>>>
    BY <1>2
  <2> QED
    BY <1>2, <1>8, <2>1, Zenon DEF Upgraded
<1>10. Stage'
  BY <1>1, <1>2, <1>7, <1>9, Zenon DEF Stage
<1>11. Coming' => Coming
  BY <1>2, <1>9, Zenon DEF Coming
<1>12. CASE Deliver /\ k = "data"
  <2>1. fromClient' = Append(fromClient, n)
    BY <1>4, <1>12, Zenon DEF Deliver, Dispatched
  <2>2. Append(fromClient, n) \in Seq(Nat) /\ front \o Append(fromClient, n) = (front \o fromClient) \o <<n>>
    <3>1. \A t, f \in Seq(Nat) : \A m \in Nat : Append(f, m) \in Seq(Nat) /\ t \o Append(f, m) = (t \o f) \o <<m>>
      BY Shifts, Zenon
    <3>2. front \in Seq(Nat) /\ fromClient \in Seq(Nat)
      BY <1>5, <1>6, Zenon
    <3> QED
      BY <3>1, <3>2, Zenon
  <2>3. Downstream' = Downstream
    <3>1. front \o Append(fromClient, n) \in Seq(Nat)
      BY <1>6, <2>2, Shifts, Zenon
    <3>2. (front \o Append(fromClient, n)) \o <<>> = front \o Append(fromClient, n)
      BY <3>1, Shifts, Zenon
    <3> QED
      BY <1>3, <1>6, <1>12, <2>1, <2>2, <3>2, Zenon
  <2>4. DownTypes'
    BY <1>1, <1>2, <2>1, <2>2, Zenon DEF DownTypes
  <2> QED
    BY <1>1, <1>2, <1>7, <1>10, <1>11, <2>3, <2>4, Zenon DEF DownInv, Flow, InOrder
<1>13. CASE UNCHANGED fromClient
  <2>1. DownTypes'
    BY <1>1, <1>2, <1>13, Zenon DEF DownTypes
  <2>2. Downstream' = front \o fromClient
    BY <1>6, <1>13, Shifts, Zenon
  <2>3. CASE k # "data"
    <3>1. Downstream' = Downstream
      BY <1>3, <1>6, <2>2, <2>3, Shifts, Zenon
    <3> QED
      BY <1>1, <1>2, <1>7, <1>10, <1>11, <2>1, <3>1, Zenon DEF DownInv, Flow, InOrder
  <2>4. CASE k = "data" /\ Discard
    <3>1. wsDone
      BY <1>4, <2>4, Zenon DEF Discard
    <3>2. ~Coming'
      BY <1>2, <1>7, <3>1, Zenon DEF Coming
    <3>3. InOrder(Downstream) => InOrder(Downstream')
      BY <1>3, <1>6, <2>2, <2>4, OneMore, Zenon
    <3> QED
      BY <1>1, <1>2, <1>7, <1>10, <2>1, <3>2, <3>3, Zenon DEF DownInv, Flow, InOrder
  <2>5. CASE k = "data" /\ Deliver
    BY <1>12, <2>5, Zenon
  <2> QED
    BY <2>3, <2>4, <2>5, Zenon
<1> QED
  <2>1. (Deliver /\ k = "data") \/ UNCHANGED fromClient
    BY <1>4, Zenon DEF Deliver, Discard
  <2> QED
    BY <1>12, <1>13, <2>1, Zenon

LEMMA DownStep == IInv /\ DownInv /\ [Next]_vars => DownInv'
BY AsideStep, RelayStep, ReceiveStep, HeldStep, Zenon DEF Next, HandlerStep, Aside

(* For any depth of the queues and any traffic, both directions of an upgraded
   connection are relayed in order and without gaps. *)
THEOREM BytesAreInOrder == Spec => []BytesInOrder
<1>1. IInv /\ Feed /\ DownInv => BytesInOrder
  <2> SUFFICES ASSUME IInv, Feed, DownInv PROVE BytesInOrder
    OBVIOUS
  <2>1. DownTypes /\ Stage /\ Flow
    BY Zenon DEF DownInv
  <2>2. ASSUME NEW s \in Seq(Nat), InOrder(s) PROVE s = FirstPayloads(Len(s))
    BY <2>2 DEF InOrder, FirstPayloads
  <2>3. toBrowser = FirstPayloads(Len(toBrowser))
    BY <2>1, <2>2, DownSeq, Zenon DEF Flow
  <2>4. ~wsDone => Downstream = FirstPayloads(Len(Downstream))
    BY <2>1, <2>2, DownSeq, Zenon DEF Flow
  <2>5. pc \in {"relay", "write"} /\ inWsMap => Len(Downstream) = down
    BY <2>1, Zenon DEF Flow, Coming, Upgraded, Opened
  <2>6. ~sessDone => Upstream
    <3>1. ASSUME NEW w \in Seq(Frames), NEW o \in Seq(Frames) PROVE DOMAIN (w \o o) = 1 .. Len(w \o o)
      OBVIOUS
    <3>2. DOMAIN Outgoing = 1 .. Len(Outgoing)
      BY <3>1, Zenon DEF IInv, Types, Outgoing
    <3>3. UpOf(Outgoing) => Upstream
      <4> SUFFICES ASSUME UpOf(Outgoing), NEW i \in 1 .. Len(Outgoing)
                   PROVE  CASE i = 1 -> Outgoing[i][1] = "RequestStart"
                            [] i = 2 -> Outgoing[i][1] = "RequestEnd"
                            [] i > 2 -> \/ Outgoing[i] = <<"WsData", i - 2>>
                                        \/ i = Len(Outgoing) /\ Outgoing[i][1] \in {"WsClose", "CancelRequest"}
        BY <3>2, Zenon DEF Upstream
      <4> HIDE DEF Outgoing
      <4> DEFINE A == Outgoing[i][1] = "RequestStart"
                 B == Outgoing[i][1] = "RequestEnd"
                 C == \/ Outgoing[i] = <<"WsData", i - 2>>
                      \/ i = Len(Outgoing) /\ Outgoing[i][1] \in {"WsClose", "CancelRequest"}
      <4>1. (i = 1 => A) /\ (i = 2 => B) /\ (i > 2 => C)
        BY Zenon DEF UpOf
      <4>2. i = 1 \/ i = 2 \/ i > 2
        OBVIOUS
      <4> HIDE DEF A, B, C
      <4>3. (CASE i = 1 -> A [] i = 2 -> B [] i > 2 -> C)
        BY <4>1, <4>2, Zenon
      <4> QED
        BY <4>3, Zenon DEF A, B, C
    <3> QED
      BY <3>3, Zenon DEF Feed
  <2>7. ~sessDone /\ reader = "read" => Len(Outgoing) = up + 2
    BY Zenon DEF Feed, Fed
  <2> QED
    BY <2>3, <2>4, <2>5, <2>6, <2>7, Zenon DEF BytesInOrder
<1> QED
  BY <1>1, InitIInv, Step, InitFeed, FeedStep, InitDownInv, DownStep, PTL DEF Spec
====
