---------------------------- MODULE ClientProofs ----------------------------
(***************************************************************************)
(* The safety properties of three parts of the tunnel client: of its life  *)
(* (ClientRun), for any number of calls of Close and of reconnections; of  *)
(* a WebSocket it relays (ClientWebSocket), for every capacity of the      *)
(* inbound channel and any number of payloads; and of the header sets it   *)
(* takes and gives (Headers), for any keys and any values of Connection    *)
(* and Upgrade.  The modules share no variable.                            *)
(***************************************************************************)
EXTENDS ClientRun, ClientWebSocket, Headers, SequenceTheorems, TLAPS

(* Where Run is while a connection it created may be open. *)
Connected == InSession \cup {"wait", "set", "clear", "closeConn"}

(* At most one call of Close found the client open, and closeCh is closed by
   that call only, when it leaves "signal". *)
OneFirst ==
  /\ \A k \in Closers : first[k] => closerPC[k] # "idle"
  /\ \A j, k \in Closers : first[j] /\ first[k] => j = k
  /\ ~closed => \A k \in Closers : closerPC[k] = "idle"
  /\ closeCh \in {0, 1}
  /\ closeCh = 1 => \E k \in Closers : first[k] /\ closerPC[k] # "signal"

(* Client.conn is empty once the client is closed, and otherwise names Run's
   own connection, the only one that can be open. *)
OneConn ==
  /\ \A a \in open : a = attempt /\ runPC \in Connected
  /\ conn # NoConn => /\ ~closed
                      /\ conn = attempt
                      /\ runPC \in InSession \cup {"clear"}

(* A session's open connection is in Client.conn, or in the hands of a call of
   Close that has yet to close it. *)
Owned ==
  runPC \in InSession /\ attempt \in open
    => \/ conn = attempt
       \/ \E k \in Closers : taken[k] = attempt /\ closerPC[k] \in {"signal", "close"}

RunInv == RunTypeOK /\ OneFirst /\ OneConn /\ Owned

LEMMA NoConnIsNone == NoConn \notin Attempts
BY DEF NoConn, Attempts

LEMMA InitRunInv == RunInit => RunInv
<1> SUFFICES ASSUME RunInit PROVE RunInv
  OBVIOUS
<1>1. 1 \in Attempts
  BY RunAssumption DEF Attempts
<1>2. RunTypeOK
  BY <1>1, Zenon DEF RunInit, RunTypeOK, RunStates, InSession
<1>3. OneFirst /\ OneConn /\ Owned
  BY DEF RunInit, OneFirst, OneConn, Owned, InSession
<1> QED
  BY <1>2, <1>3 DEF RunInv

LEMMA RunTypeStep == RunInv /\ [RunNext]_runVars => RunTypeOK'
<1> SUFFICES ASSUME RunInv, [RunNext]_runVars PROVE RunTypeOK'
  OBVIOUS
<1> USE DEF RunInv, RunTypeOK, RunStates, InSession
<1>1. CASE RunStep
  <2>1. CASE Backoff
    <3>1. attempt < MaxAttempts => attempt + 1 \in Attempts
      BY RunAssumption DEF Attempts
    <3> QED
      BY <2>1, <3>1 DEF Backoff, closerVars
  <2>2. CASE NewClient \/ WaitForConnReady \/ SetConn
    BY <2>2 DEF NewClient, WaitForConnReady, SetConn, closerVars
  <2>3. CASE OpenStream \/ DispatchCancelled \/ ClearConn \/ CloseConn \/ CheckCtx \/ CheckClosed
    BY <2>3 DEF OpenStream, DispatchCancelled, ClearConn, ClearedConn, CloseConn, CheckCtx, CheckClosed,
       closerVars
  <2> QED
    BY <1>1, <2>1, <2>2, <2>3 DEF RunStep
<1>2. CASE SessionFails \/ HandOver \/ HandedOver
  BY <1>2 DEF SessionFails, HandOver, HandedOver, closerVars
<1>3. ASSUME NEW k \in Closers, MarkClosed(k) \/ CloserStep(k) PROVE RunTypeOK'
  <2>1. CASE MarkClosed(k)
    BY <2>1 DEF MarkClosed, CloserGoto
  <2>2. CASE CloseCloseCh(k)
    BY <2>2 DEF CloseCloseCh, CloserGoto
  <2>3. CASE CloseTaken(k)
    BY <2>3 DEF CloseTaken, CloserGoto
  <2> QED
    BY <1>3, <2>1, <2>2, <2>3 DEF CloserStep
<1>4. CASE CancelCtx
  BY <1>4 DEF CancelCtx, closerVars
<1>5. CASE UNCHANGED runVars
  BY <1>5 DEF runVars, closerVars
<1> QED
  BY <1>1, <1>2, <1>3, <1>4, <1>5 DEF RunNext

LEMMA OneFirstStep == RunInv /\ [RunNext]_runVars => OneFirst'
<1> SUFFICES ASSUME RunInv, [RunNext]_runVars PROVE OneFirst'
  OBVIOUS
<1> USE DEF RunInv, RunTypeOK, OneFirst
<1>1. CASE RunStep \/ SessionFails \/ HandOver \/ HandedOver \/ CancelCtx \/ UNCHANGED runVars
  BY <1>1 DEF RunStep, NewClient, WaitForConnReady, SetConn, OpenStream, ClearConn, CloseConn,
     CheckCtx, CheckClosed, Backoff, SessionFails, HandOver, HandedOver, DispatchCancelled, CancelCtx,
     closerVars, runVars
<1>2. ASSUME NEW k \in Closers, MarkClosed(k) PROVE OneFirst'
  BY <1>2 DEF MarkClosed, CloserGoto
<1>3. ASSUME NEW k \in Closers, CloseCloseCh(k) PROVE OneFirst'
  BY <1>3 DEF CloseCloseCh, MustClose, CloserGoto
<1>4. ASSUME NEW k \in Closers, CloseTaken(k) PROVE OneFirst'
  BY <1>4 DEF CloseTaken, CloserGoto
<1> QED
  BY <1>1, <1>2, <1>3, <1>4, Zenon DEF RunNext, CloserStep

LEMMA OneConnStep == RunInv /\ [RunNext]_runVars => OneConn'
<1> SUFFICES ASSUME RunInv, [RunNext]_runVars PROVE OneConn'
  OBVIOUS
<1> USE NoConnIsNone DEF RunInv, RunTypeOK, OneConn, Connected, InSession
<1>1. CASE NewClient \/ WaitForConnReady \/ SetConn
  BY <1>1 DEF NewClient, WaitForConnReady, SetConn, Refused
<1>2. CASE OpenStream \/ DispatchCancelled \/ ClearConn \/ CloseConn
  BY <1>2 DEF OpenStream, DispatchCancelled, ClearConn, ClearedConn, CloseConn
<1>5. CASE SessionFails \/ HandOver \/ HandedOver
  BY <1>5 DEF SessionFails, HandOver, HandedOver
<1>3. CASE CheckCtx \/ CheckClosed \/ Backoff \/ CancelCtx \/ UNCHANGED runVars
  BY <1>3 DEF CheckCtx, CheckClosed, Backoff, CancelCtx, runVars
<1>4. ASSUME NEW k \in Closers, MarkClosed(k) \/ CloserStep(k) PROVE OneConn'
  BY <1>4 DEF MarkClosed, CloserStep, CloseCloseCh, CloseTaken
<1> QED
  BY <1>1, <1>2, <1>3, <1>4, <1>5 DEF RunNext, RunStep

LEMMA OwnedStep == RunInv /\ [RunNext]_runVars => Owned'
<1> SUFFICES ASSUME RunInv, [RunNext]_runVars PROVE Owned'
  OBVIOUS
<1> USE NoConnIsNone DEF RunInv, RunTypeOK, OneConn, Owned, InSession
<1>1. CASE RunStep \/ SessionFails \/ HandOver \/ HandedOver
  <2>1. CASE NewClient \/ WaitForConnReady \/ SetConn
    BY <2>1 DEF NewClient, WaitForConnReady, SetConn, Refused, closerVars
  <2>2. CASE OpenStream \/ DispatchCancelled \/ SessionFails \/ HandOver \/ HandedOver
    BY <2>2 DEF OpenStream, DispatchCancelled, SessionFails, HandOver, HandedOver, closerVars
  <2>3. CASE ClearConn \/ CloseConn \/ CheckCtx \/ CheckClosed \/ Backoff
    BY <2>3 DEF ClearConn, CloseConn, CheckCtx, CheckClosed, Backoff
  <2> QED
    BY <1>1, <2>1, <2>2, <2>3 DEF RunStep
<1>2. CASE CancelCtx \/ UNCHANGED runVars
  BY <1>2 DEF CancelCtx, runVars, closerVars
<1>3. ASSUME NEW k \in Closers, MarkClosed(k) PROVE Owned'
  BY <1>3 DEF MarkClosed, CloserGoto
<1>4. ASSUME NEW k \in Closers, CloseCloseCh(k) PROVE Owned'
  BY <1>4 DEF CloseCloseCh, CloserGoto
<1>5. ASSUME NEW k \in Closers, CloseTaken(k) PROVE Owned'
  BY <1>5 DEF CloseTaken, CloserGoto
<1> QED
  BY <1>1, <1>2, <1>3, <1>4, <1>5 DEF RunNext, CloserStep

(* The inductive invariant holds throughout. *)
THEOREM RunInvariance == RunSpec => []RunInv
<1>1. RunInv /\ [RunNext]_runVars => RunInv'
  BY RunTypeStep, OneFirstStep, OneConnStep, OwnedStep DEF RunInv
<1> QED
  BY InitRunInv, <1>1, PTL DEF RunSpec

(* setConn and clearConn keep Client.conn to the connection of the pass of Run
   under way, and Run leaves no connection behind. *)
THEOREM ConnectionsTracked == RunSpec => []ConnIsCurrent
<1>1. RunInv => ConnIsCurrent
  BY DEF RunInv, OneConn, ConnIsCurrent, Connected, InSession
<1> QED
  BY RunInvariance, <1>1, PTL

(* Close's check of alreadyClosed under the mutex keeps closeCh from being closed
   twice, and Close and setConn leave no interleaving in which a session survives
   Close. *)
THEOREM NothingSurvivesClose == RunSpec => []ClosedIsFinal
<1>1. RunInv => ClosedIsFinal
  BY NoConnIsNone DEF RunInv, RunTypeOK, OneFirst, OneConn, Owned, ClosedIsFinal, InSession
<1> QED
  BY RunInvariance, <1>1, PTL

-----------------------------------------------------------------------------
(* A WebSocket: the channel never panics, payloads are neither lost nor reordered,
   and the frames sent follow the order the edge relies on. *)

Places == {"none", "request", "refuse", "relay", "write", "closing", "exit", "done"}

Types ==
  /\ inMap \in BOOLEAN /\ closes \in Nat /\ fed \in Nat
  /\ inbound \in Seq(Nat) /\ writing \in Seq(Nat) /\ toBackend \in Seq(Nat)
  /\ pc \in Places
  /\ sent \in Seq(Kinds)

(* The channel is closed by whoever takes it out of the map, or by the clean-up,
   which is the receive loop's last act. *)
Channel ==
  /\ closes <= 1
  /\ recv = "dispatch" => closes = 0 /\ fed > 0
  /\ inMap /\ recv # "returned" => closes = 0
  /\ edge = "start" => ~inMap /\ closes = 0 /\ pc = "none" /\ recv # "dispatch"

(* Between RequestStart and WsClose the channel is registered until Exit; only a
   handler that holds a payload is writing one. *)
Relay ==
  /\ edge = "data" /\ pc # "done" /\ recv # "returned" => inMap
  /\ pc \notin {"write", "exit", "done"} => writing = <<>>

Only(opening, kind) ==
  sent # <<>> /\ sent[1] = opening /\ \A i \in 2 .. Len(sent) : sent[i] = kind

(* What was sent, by where the two goroutines are. *)
Frames ==
  /\ pc \in {"none", "request"} => sent = <<>>
  /\ pc = "refuse" => Only("refused", "ResponseBody")
  /\ pc \in {"none", "request", "refuse"} => reader = "none"
  /\ reader \in {"read", "send", "sendClose"} => Only("101", "WsData")

IInv == Types /\ Channel /\ Relay /\ Frames /\ PayloadsConserved /\ AnswerProtocol

-----------------------------------------------------------------------------
(* Steps that neither touch the channel or its map entry, nor send. *)
Quiet ==
  \/ PayloadRead \/ WriteFails \/ InboundCloses \/ RelayEnds
  \/ ReadBuffered \/ ReadBackend \/ ReadFails
  \/ StreamLost \/ CtxDone \/ BackendCloses

LEMMA StepCases ==
  ASSUME [Next]_vars
  PROVE  \/ RequestStart \/ WsData \/ DispatchWSInbound \/ WsClose \/ SessionEnds
         \/ Answer \/ Refuse \/ ReaderSends \/ TakePayload \/ Exit
         \/ Quiet \/ UNCHANGED vars
BY DEF Next, Loop, Handler, Reader, Quiet

LEMMA InitIInv == Init => IInv
<1> SUFFICES ASSUME Init PROVE IInv
  OBVIOUS
<1>1. Types
  <2>1. inMap \in BOOLEAN
    BY Zenon DEF Init
  <2>2. closes \in Nat /\ fed \in Nat /\ pc \in Places
    BY DEF Init, Places
  <2>3. inbound \in Seq(Nat) /\ writing \in Seq(Nat) /\ toBackend \in Seq(Nat) /\ sent \in Seq(Kinds)
    BY DEF Init
  <2> QED
    BY <2>1, <2>2, <2>3 DEF Types
<1>2. Channel /\ Relay /\ Frames
  BY DEF Init, Channel, Relay, Frames
<1>3. PayloadsConserved
  <2>1. <<>> \o <<>> \o <<>> = [i \in 1 .. 0 |-> i]
    OBVIOUS
  <2> QED
    BY <2>1 DEF Init, PayloadsConserved, Upto
<1>4. AnswerProtocol
  BY DEF Init, AnswerProtocol, Follows
<1> QED
  BY <1>1, <1>2, <1>3, <1>4 DEF IInv

LEMMA TypesStep == IInv /\ [Next]_vars => Types'
<1> SUFFICES ASSUME IInv, [Next]_vars PROVE Types'
  OBVIOUS
<1> USE DEF IInv, Types, Places, envVars, loopVars, chanVars, relayVars, readerVars
<1>1. ASSUME NEW kind \in Kinds PROVE Append(sent, kind) \in Seq(Kinds)
  OBVIOUS
<1>2. {"101", "refused", "ResponseBody", "ResponseEnd", "ResponseError", "WsData", "WsClose"} \subseteq Kinds
  BY DEF Kinds
<1>3. CASE RequestStart \/ WsData \/ WsClose \/ SessionEnds \/ Exit
  <2>1. inMap' \in BOOLEAN
    BY <1>3, Zenon DEF RequestStart, WsData, WsClose, SessionEnds, Exit
  <2>2. closes' \in Nat /\ fed' \in Nat
    BY <1>3 DEF RequestStart, WsData, WsClose, SessionEnds, CleanUp, Exit
  <2>3. UNCHANGED <<inbound, writing, toBackend, sent>> /\ pc' \in Places
    BY <1>3 DEF RequestStart, WsData, WsClose, SessionEnds, Exit
  <2> QED
    BY <2>1, <2>2, <2>3
<1>4. CASE DispatchWSInbound
  BY <1>4 DEF DispatchWSInbound, Dispatch
<1>5. CASE Answer
  <2>1. sent' \in Seq(Kinds)
    BY <1>1, <1>2, <1>5, Zenon DEF Answer, Send
  <2>2. pc' \in Places
    BY <1>5 DEF Answer, Send, AfterAnswer
  <2> QED
    BY <1>5, <2>1, <2>2 DEF Answer
<1>6. CASE Refuse \/ ReaderSends
  <2>1. sent' \in Seq(Kinds)
    BY <1>1, <1>2, <1>6, Zenon DEF Refuse, ReaderSends, Send
  <2>2. pc' \in Places
    BY <1>6 DEF Refuse, ReaderSends, Send
  <2> QED
    BY <1>6, <2>1, <2>2 DEF Refuse, ReaderSends
<1>7. CASE TakePayload
  BY <1>7 DEF TakePayload
<1>8. CASE Quiet \/ UNCHANGED vars
  <2>1. toBackend \o writing \in Seq(Nat) /\ <<>> \in Seq(Nat)
    OBVIOUS
  <2> QED
    BY <1>8, <2>1, Zenon DEF vars, Quiet, PayloadRead, WriteFails, InboundCloses, RelayEnds, ReadBuffered, ReadBackend,
                      ReadFails, StreamLost, CtxDone, BackendCloses
<1> QED
  BY <1>3, <1>4, <1>5, <1>6, <1>7, <1>8, StepCases

LEMMA ChannelStep == IInv /\ [Next]_vars => Channel'
<1> SUFFICES ASSUME IInv, [Next]_vars PROVE Channel'
  OBVIOUS
<1> USE DEF IInv, Types, Channel, envVars, loopVars, chanVars, relayVars, readerVars
<1>1. CASE RequestStart
  BY <1>1 DEF RequestStart, Receiving
<1>2. CASE WsData \/ DispatchWSInbound
  BY <1>2 DEF WsData, Receiving, DispatchWSInbound
<1>3. CASE WsClose
  BY <1>3 DEF WsClose, Receiving, StillOpen
<1>4. CASE SessionEnds
  BY <1>4 DEF SessionEnds, CleanUp, StillOpen
<1>5. CASE Answer \/ Refuse \/ ReaderSends \/ TakePayload \/ Exit
  <2>1. UNCHANGED <<closes, recv, fed, edge>>
    BY <1>5, Zenon DEF Answer, Refuse, ReaderSends, TakePayload, Exit
  <2>2. inMap' = inMap \/ inMap' = FALSE
    BY <1>5, Zenon DEF Answer, Refuse, ReaderSends, TakePayload, Exit
  <2>3. pc = "none" => pc' = "none"
    <3>1. CASE Answer \/ Refuse \/ TakePayload \/ Exit
      BY <3>1, Zenon DEF Answer, Refuse, TakePayload, Exit
    <3>2. CASE ReaderSends
      BY <3>2, Zenon DEF ReaderSends
    <3> QED
      BY <1>5, <3>1, <3>2, Zenon
  <2> QED
    BY <2>1, <2>2, <2>3
<1>6. CASE Quiet \/ UNCHANGED vars
  <2>1. UNCHANGED <<closes, recv, fed, edge, inMap>>
    BY <1>6, Zenon DEF vars, Quiet, PayloadRead, WriteFails, InboundCloses, RelayEnds, ReadBuffered, ReadBackend,
                       ReadFails, StreamLost, CtxDone, BackendCloses
  <2>2. pc = "none" => pc' = "none"
    BY <1>6, Zenon DEF vars, Quiet, PayloadRead, WriteFails, InboundCloses, RelayEnds, ReadBuffered, ReadBackend,
                       ReadFails, StreamLost, CtxDone, BackendCloses
  <2> QED
    BY <2>1, <2>2
<1> QED
  BY <1>1, <1>2, <1>3, <1>4, <1>5, <1>6, StepCases

LEMMA RelayStep == IInv /\ [Next]_vars => Relay'
<1> SUFFICES ASSUME IInv, [Next]_vars PROVE Relay'
  OBVIOUS
<1> USE DEF IInv, Types, Places, Relay, envVars, loopVars, chanVars, relayVars, readerVars
<1>1. CASE RequestStart
  BY <1>1 DEF RequestStart, Channel
<1>2. CASE WsData \/ DispatchWSInbound \/ WsClose \/ SessionEnds
  <2>1. UNCHANGED <<pc, writing>> /\ (recv' # "returned" => recv # "returned")
    BY <1>2 DEF WsData, Receiving, DispatchWSInbound, WsClose, SessionEnds, CleanUp
  <2>2. edge' = "data" => edge = "data" /\ inMap' = inMap
    BY <1>2 DEF WsData, DispatchWSInbound, WsClose, SessionEnds
  <2> QED
    BY <2>1, <2>2, Zenon
<1>3. CASE Answer
  BY <1>3 DEF Answer, Send, AfterAnswer
<1>4. CASE Refuse \/ ReaderSends
  <2>1. UNCHANGED <<edge, recv, inMap, writing>>
    BY <1>4, Zenon DEF Refuse, ReaderSends
  <2>2. pc' = pc \/ (pc = "refuse" /\ pc' = "exit")
    BY <1>4, Zenon DEF Refuse, ReaderSends, Send
  <2> QED
    BY <2>1, <2>2
<1>5. CASE TakePayload \/ Exit
  <2>1. CASE TakePayload
    BY <2>1, Zenon DEF TakePayload
  <2>2. CASE Exit
    BY <2>2, Zenon DEF Exit
  <2> QED
    BY <1>5, <2>1, <2>2
<1>6. CASE Quiet \/ UNCHANGED vars
  BY <1>6, Zenon DEF vars, Quiet, PayloadRead, WriteFails, InboundCloses, RelayEnds, ReadBuffered, ReadBackend,
              ReadFails, StreamLost, CtxDone, BackendCloses
<1> QED
  BY <1>1, <1>2, <1>3, <1>4, <1>5, <1>6, StepCases

-----------------------------------------------------------------------------
LEMMA UptoNext == ASSUME NEW n \in Nat PROVE Upto(n) \in Seq(Nat) /\ Append(Upto(n), n + 1) = Upto(n + 1)
<1> DEFINE s == Append(Upto(n), n + 1)
           t == Upto(n + 1)
<1>1. Upto(n) \in Seq(Nat) /\ t \in Seq(Nat) /\ Len(Upto(n)) = n /\ Len(t) = n + 1
  BY DEF Upto
<1>2. \A i \in 1 .. n : Upto(n)[i] = i
  BY DEF Upto
<1>3. \A i \in 1 .. n + 1 : t[i] = i
  BY DEF Upto
<1> HIDE DEF t
<1>4. ASSUME NEW u \in Seq(Nat), Len(u) = n, \A i \in 1 .. n : u[i] = i
      PROVE  /\ Append(u, n + 1) \in Seq(Nat) /\ Len(Append(u, n + 1)) = n + 1
             /\ \A i \in 1 .. n + 1 : Append(u, n + 1)[i] = i
  BY <1>4
<1>5. s \in Seq(Nat) /\ Len(s) = n + 1 /\ \A i \in 1 .. n + 1 : s[i] = i
  BY <1>1, <1>2, <1>4
<1> HIDE DEF s
<1>6. s = t
  BY <1>1, <1>3, <1>5, SeqEqual
<1> QED
  BY <1>1, <1>6 DEF s, t

LEMMA PayloadStep == IInv /\ [Next]_vars => PayloadsConserved'
<1> SUFFICES ASSUME IInv, [Next]_vars, pc' # "done", recv' # "returned"
             PROVE  (toBackend \o writing \o inbound)' = Upto(IF recv' = "dispatch" THEN fed' - 1 ELSE fed')
  BY DEF PayloadsConserved
<1> USE DEF envVars, loopVars, chanVars, relayVars, readerVars
<1>t. /\ fed \in Nat /\ inbound \in Seq(Nat) /\ writing \in Seq(Nat) /\ toBackend \in Seq(Nat)
      /\ pc # "done" /\ recv # "returned" =>
            toBackend \o writing \o inbound = Upto(IF recv = "dispatch" THEN fed - 1 ELSE fed)
  BY DEF IInv, Types, PayloadsConserved
<1>1. CASE RequestStart
  BY <1>t, <1>1 DEF RequestStart, Receiving, IInv, Channel
<1>2. CASE WsData
  <2>1. pc # "done" /\ recv = "recv" /\ fed' = fed + 1 /\ UNCHANGED <<toBackend, writing, inbound>>
    BY <1>2 DEF WsData, Receiving
  <2>2. inMap
    BY <1>2, <2>1 DEF WsData, Receiving, IInv, Relay
  <2>3. recv' = "dispatch"
    BY <1>2, <2>2 DEF WsData
  <2> QED
    BY <1>t, <2>1, <2>3
<1>3. CASE DispatchWSInbound
  <2>1. /\ pc # "done" /\ recv = "dispatch" /\ recv' = "recv" /\ inbound' = Append(inbound, fed)
        /\ UNCHANGED <<fed, toBackend, writing>> /\ fed > 0
    BY <1>3 DEF DispatchWSInbound, Dispatch, IInv, Channel
  <2>2. fed - 1 \in Nat /\ (fed - 1) + 1 = fed
    BY <1>t, <2>1
  <2>3. toBackend \o writing \o inbound = Upto(fed - 1)
    BY <1>t, <2>1
  <2>4. \A s, t \in Seq(Nat), x \in Nat : s \o Append(t, x) = Append(s \o t, x)
    OBVIOUS
  <2>5. toBackend \o writing \o Append(inbound, fed) = Append(Upto(fed - 1), fed)
    <3>1. toBackend \o writing \in Seq(Nat)
      BY <1>t
    <3>2. toBackend \o writing \o Append(inbound, fed) = Append(toBackend \o writing \o inbound, fed)
      BY <1>t, <2>4, <3>1, Zenon
    <3> QED
      BY <2>3, <3>2, Zenon
  <2> QED
    BY <2>1, <2>2, <2>5, UptoNext, Zenon
<1>4. CASE WsClose \/ SessionEnds
  BY <1>t, <1>4, Zenon DEF WsClose, Receiving, SessionEnds, CleanUp
<1>5. CASE Answer \/ Refuse \/ ReaderSends \/ Exit
  BY <1>t, <1>5, Zenon DEF Answer, Refuse, ReaderSends, Exit
<1>6. CASE TakePayload
  <2>1. /\ inbound # <<>> /\ writing' = <<Head(inbound)>> /\ inbound' = Tail(inbound)
        /\ UNCHANGED <<recv, fed, toBackend>> /\ pc = "relay"
    BY <1>6 DEF TakePayload
  <2>2. writing = <<>>
    BY <2>1 DEF IInv, Relay
  <2>3. \A s, t \in Seq(Nat) : t # <<>> => s \o <<Head(t)>> \o Tail(t) = s \o <<>> \o t
    OBVIOUS
  <2>4. toBackend \o <<Head(inbound)>> \o Tail(inbound) = toBackend \o <<>> \o inbound
    BY <1>t, <2>1, <2>3, Zenon
  <2> QED
    BY <1>t, <2>1, <2>2, <2>4, Zenon
<1>7. CASE PayloadRead
  <2>1. /\ toBackend' = toBackend \o writing /\ writing' = <<>> /\ pc = "write"
        /\ UNCHANGED <<recv, fed, inbound>>
    BY <1>7 DEF PayloadRead
  <2>2. \A s, t \in Seq(Nat) : s \o <<>> \o t = s \o t
    OBVIOUS
  <2>3. toBackend \o writing \in Seq(Nat)
    BY <1>t
  <2>4. (toBackend \o writing) \o <<>> \o inbound = toBackend \o writing \o inbound
    BY <1>t, <2>2, <2>3, Zenon
  <2> QED
    BY <1>t, <2>1, <2>4, Zenon
<1>8. CASE (Quiet /\ ~PayloadRead) \/ UNCHANGED vars
  BY <1>t, <1>8, Zenon DEF vars, Quiet, WriteFails, InboundCloses, RelayEnds, ReadBuffered, ReadBackend,
                    ReadFails, StreamLost, CtxDone, BackendCloses
<1> QED
  BY <1>1, <1>2, <1>3, <1>4, <1>5, <1>6, <1>7, <1>8, StepCases, Zenon

-----------------------------------------------------------------------------
(* One more frame. *)
LEMMA Sends ==
  ASSUME sent \in Seq(Kinds), NEW kind \in Kinds, sent' = Append(sent, kind)
  PROVE  /\ Len(sent) \in Nat /\ Len(sent') = Len(sent) + 1 /\ sent' # <<>>
         /\ sent'[Len(sent')] = kind
         /\ \A i \in 1 .. Len(sent) : sent'[i] = sent[i]
         /\ sent # <<>> => Len(sent) > 0
OBVIOUS

LEMMA OnlyNext ==
  ASSUME sent \in Seq(Kinds), NEW kind \in Kinds, sent' = Append(sent, kind), NEW opening, Only(opening, kind)
  PROVE  Only(opening, kind)'
BY Sends DEF Only

(* A frame after others of one kind only, the last one perhaps. *)
LEMMA ProtocolNext ==
  ASSUME sent \in Seq(Kinds), NEW kind \in Kinds, sent' = Append(sent, kind),
         \/ Only("101", "WsData") /\ kind \in {"WsData", "WsClose"}
         \/ Only("refused", "ResponseBody") /\ kind \in {"ResponseBody", "ResponseEnd"}
         \/ sent = <<>> /\ kind \in {"101", "refused", "ResponseError"}
  PROVE  AnswerProtocol'
<1>1. CASE sent = <<>>
  <2>1. Len(sent') = 1 /\ sent'[1] = kind /\ kind \in {"101", "refused", "ResponseError"}
    BY <1>1, Sends DEF Only
  <2> QED
    BY <2>1 DEF AnswerProtocol, Follows
<1>2. CASE sent # <<>>
  <2>1. sent'[1] = sent[1] /\ Len(sent') = Len(sent) + 1 /\ Len(sent) \in Nat
    BY <1>2, Sends
  <2>2. CASE Only("101", "WsData") /\ kind \in {"WsData", "WsClose"}
    <3>1. \A i \in 2 .. Len(sent') : sent'[i] = "WsData" \/ (sent'[i] = "WsClose" /\ i = Len(sent'))
      BY <1>2, <2>1, <2>2, Sends DEF Only
    <3> QED
      BY <2>1, <2>2, <3>1 DEF AnswerProtocol, Follows, Only
  <2>3. CASE Only("refused", "ResponseBody") /\ kind \in {"ResponseBody", "ResponseEnd"}
    <3>1. \A i \in 2 .. Len(sent') : sent'[i] = "ResponseBody" \/ (sent'[i] = "ResponseEnd" /\ i = Len(sent'))
      BY <1>2, <2>1, <2>3, Sends DEF Only
    <3> QED
      BY <2>1, <2>3, <3>1 DEF AnswerProtocol, Follows, Only
  <2> QED
    BY <1>2, <2>2, <2>3
<1> QED
  BY <1>1, <1>2

LEMMA FramesStep == IInv /\ [Next]_vars => Frames' /\ AnswerProtocol'
<1> SUFFICES ASSUME IInv, [Next]_vars PROVE Frames' /\ AnswerProtocol'
  OBVIOUS
<1> USE DEF envVars, loopVars, chanVars, relayVars, readerVars
<1>t. sent \in Seq(Kinds) /\ Frames /\ AnswerProtocol /\ pc \in Places
  BY DEF IInv, Types
<1>k. {"101", "refused", "ResponseBody", "ResponseEnd", "ResponseError", "WsData", "WsClose"} \subseteq Kinds
  BY DEF Kinds
<1>s. ASSUME UNCHANGED sent PROVE AnswerProtocol'
  BY <1>t, <1>s DEF AnswerProtocol, Follows
<1>1. CASE RequestStart
  <2>1. pc = "none" /\ pc' = "request" /\ UNCHANGED <<sent, reader>>
    BY <1>1 DEF RequestStart, IInv, Channel
  <2> QED
    BY <1>s, <1>t, <2>1 DEF Frames, Only
<1>2. CASE WsData \/ DispatchWSInbound \/ WsClose \/ SessionEnds
  <2>1. UNCHANGED <<pc, reader, sent>>
    BY <1>2 DEF WsData, DispatchWSInbound, WsClose, SessionEnds
  <2> QED
    BY <1>s, <1>t, <2>1, Zenon DEF Frames, Only
<1>3. CASE Answer
  <2>1. sent = <<>> /\ reader = "none"
    BY <1>3, <1>t DEF Answer, Frames
  <2>2. \/ UNCHANGED sent /\ pc' = "exit"
        \/ \E kind \in {"101", "refused", "ResponseError"} :
             /\ sent' = Append(sent, kind)
             /\ pc' = IF kind = "101" THEN "relay" ELSE IF kind = "refused" THEN "refuse" ELSE "exit"
    BY <1>3 DEF Answer, Send, AfterAnswer
  <2>3. reader' = IF pc' = "relay" THEN "read" ELSE "none"
    BY <1>3, <2>1 DEF Answer
  <2>4. CASE UNCHANGED sent /\ pc' = "exit"
    BY <1>s, <2>1, <2>3, <2>4 DEF Frames, Only
  <2>5. ASSUME NEW kind \in {"101", "refused", "ResponseError"}, sent' = Append(sent, kind),
               pc' = IF kind = "101" THEN "relay" ELSE IF kind = "refused" THEN "refuse" ELSE "exit"
        PROVE  Frames' /\ AnswerProtocol'
    <3>1. sent' # <<>> /\ sent'[1] = kind /\ Len(sent') = 1
      BY <1>k, <1>t, <2>1, <2>5, Sends
    <3>2. AnswerProtocol'
      BY <1>k, <1>t, <2>1, <2>5, ProtocolNext
    <3> QED
      BY <2>3, <2>5, <3>1, <3>2 DEF Frames, Only
  <2> QED
    BY <2>2, <2>4, <2>5, Zenon
<1>4. CASE Refuse
  <2>1. Only("refused", "ResponseBody") /\ reader = "none" /\ UNCHANGED reader
    BY <1>4, <1>t DEF Refuse, Frames
  <2>2. \/ UNCHANGED sent /\ pc' = "exit"
        \/ sent' = Append(sent, "ResponseBody") /\ pc' = "refuse"
        \/ sent' = Append(sent, "ResponseEnd") /\ pc' = "exit"
    BY <1>4 DEF Refuse, Send
  <2>3. CASE UNCHANGED sent /\ pc' = "exit"
    BY <1>s, <2>1, <2>3 DEF Frames
  <2>4. CASE sent' = Append(sent, "ResponseBody") /\ pc' = "refuse"
    <3>1. Only("refused", "ResponseBody")' /\ AnswerProtocol'
      BY <1>k, <1>t, <2>1, <2>4, OnlyNext, ProtocolNext
    <3> QED
      BY <2>1, <2>4, <3>1 DEF Frames
  <2>5. CASE sent' = Append(sent, "ResponseEnd") /\ pc' = "exit"
    <3>1. AnswerProtocol'
      BY <1>k, <1>t, <2>1, <2>5, ProtocolNext
    <3> QED
      BY <2>1, <2>5, <3>1 DEF Frames
  <2> QED
    BY <2>2, <2>3, <2>4, <2>5, Zenon
<1>5. CASE ReaderSends
  <2>1. Only("101", "WsData") /\ reader # "none" /\ UNCHANGED pc
    BY <1>5, <1>t DEF ReaderSends, Frames
  <2>2. \/ UNCHANGED sent /\ reader' = "done"
        \/ sent' = Append(sent, "WsData") /\ reader' = "read"
        \/ sent' = Append(sent, "WsClose") /\ reader' = "done"
    BY <1>5 DEF ReaderSends, Send
  <2>3. pc \notin {"none", "request", "refuse"}
    BY <1>t, <2>1 DEF Frames
  <2>4. CASE UNCHANGED sent /\ reader' = "done"
    BY <1>s, <2>1, <2>3, <2>4 DEF Frames
  <2>5. CASE sent' = Append(sent, "WsData") /\ reader' = "read"
    <3>1. Only("101", "WsData")' /\ AnswerProtocol'
      BY <1>k, <1>t, <2>1, <2>5, OnlyNext, ProtocolNext, Zenon
    <3> QED
      BY <2>1, <2>3, <2>5, <3>1, Zenon DEF Frames
  <2>6. CASE sent' = Append(sent, "WsClose") /\ reader' = "done"
    <3>1. AnswerProtocol'
      BY <1>k, <1>t, <2>1, <2>6, ProtocolNext, Zenon
    <3> QED
      BY <2>1, <2>3, <2>6, <3>1 DEF Frames
  <2> QED
    BY <2>2, <2>4, <2>5, <2>6, Zenon
<1>6. CASE TakePayload \/ Exit \/ Quiet \/ UNCHANGED vars
  <2>1. UNCHANGED sent /\ (pc' \in {"none", "request", "refuse"} => pc' = pc)
    BY <1>6, Zenon DEF TakePayload, Exit, vars, Quiet, PayloadRead, WriteFails, InboundCloses, RelayEnds, ReadBuffered,
                ReadBackend, ReadFails, StreamLost, CtxDone, BackendCloses
  <2>2. reader' = reader \/ (reader = "read" /\ reader' \in {"send", "sendClose"})
    BY <1>6, Zenon DEF TakePayload, Exit, vars, Quiet, PayloadRead, WriteFails, InboundCloses, RelayEnds, ReadBuffered,
                ReadBackend, ReadFails, OnReadError, StreamLost, CtxDone, BackendCloses
  <2>3. Only("101", "WsData")' = Only("101", "WsData") /\ Only("refused", "ResponseBody")' = Only("refused", "ResponseBody")
    BY <2>1 DEF Only
  <2> QED
    BY <1>s, <1>t, <2>1, <2>2, <2>3, Zenon DEF Frames
<1> QED
  BY <1>1, <1>2, <1>3, <1>4, <1>5, <1>6, StepCases

-----------------------------------------------------------------------------
(* The invariant holds in every state of a WebSocket: of the channel that
   handleWebSocket and runSession share, the payloads in it and the frames sent. *)
THEOREM WebSocketInvariance == Spec => []IInv
<1>1. IInv /\ [Next]_vars => IInv'
  BY TypesStep, ChannelStep, RelayStep, PayloadStep, FramesStep DEF IInv
<1> QED
  BY <1>1, InitIInv, PTL DEF Spec

(* The inbound channel is closed once at most and never sent on afterwards,
   whoever of WsClose, done and the clean-up comes first. *)
THEOREM ChannelNeverPanics == Spec => []NoChannelPanic
<1>1. IInv => NoChannelPanic
  BY DEF IInv, Channel, NoChannelPanic
<1> QED
  BY <1>1, WebSocketInvariance, PTL

(* Every payload dispatchWSInbound was given is with the backend, being written
   or queued, in order, until handleWebSocket or the session ends. *)
THEOREM PayloadsKept == Spec => []PayloadsConserved
<1>1. IInv => PayloadsConserved
  BY DEF IInv
<1> QED
  BY <1>1, WebSocketInvariance, PTL

(* The frames handleWebSocket and its reader send between them are an error, a
   refusal with its body, or a 101 with WsData and one WsClose, last. *)
THEOREM AnswersInOrder == Spec => []AnswerProtocol
<1>1. IInv => AnswerProtocol
  BY DEF IInv
<1> QED
  BY <1>1, WebSocketInvariance, PTL

-----------------------------------------------------------------------------
(* The keys that cross the tunnel. *)
Crossing ==
  EndToEnd \cup (IF Get(original, "upgrade") = "" THEN {} ELSE DOMAIN original \cap Negotiation)

(* A header set has names, each with a sequence of values. *)
HeaderSet(h) ==
  /\ h = Restrict(h, DOMAIN h)
  /\ DOMAIN h \subseteq Keys
  /\ \A k \in DOMAIN h : \E V : h[k] \in Seq(V)

(* What the stages make of the received header set. *)
CrossInv ==
  /\ HeaderSet(original)
  /\ stage = "received" => current = original
  /\ HeadersCross

(* The first filter leaves the keys that cross. *)
LEMMA FirstFilter ==
  ASSUME HeaderSet(original)
  PROVE  Filter(original) = Restrict(original, Crossing)
<1>1. "" \notin DOMAIN original
  BY HeadersAssumption, Zenon DEF HeaderSet, Keys, Negotiation
<1>2. ASSUME NEW k \in DOMAIN original
      PROVE  shouldStrip(k, connectionTokens(original), hasUpgrade(original)) <=> k \notin Crossing
  <2>1. CASE k \in Negotiation
    BY <2>1, Zenon DEF Crossing, EndToEnd, shouldStrip, hasUpgrade
  <2>2. CASE k \notin Negotiation
    <3>1. k # "" /\ k # "upgrade"
      BY <1>1, <2>2, Zenon DEF Negotiation
    <3>2. k \in connectionTokens(original) <=> k \in Named
      BY <3>1, Zenon DEF connectionTokens, Named
    <3> QED
      BY <2>2, <3>2, Zenon DEF Crossing, EndToEnd, shouldStrip, isHopByHop
  <2> QED
    BY <2>1, <2>2
<1>3. Crossing \subseteq DOMAIN original
  BY Zenon DEF Crossing, EndToEnd
<1>4. {k \in DOMAIN original : ~shouldStrip(k, connectionTokens(original), hasUpgrade(original))} = Crossing
  BY <1>2, <1>3
<1> QED
  BY <1>4, Zenon DEF Filter

(* The second filter strips nothing more: it sees either the Connection header
   that the first one saw, or none. *)
LEMMA SecondFilter ==
  ASSUME HeaderSet(original), current = Restrict(original, Crossing)
  PROVE  Filter(current) = current
<1>1. DOMAIN current = Crossing /\ \A k \in Crossing : current[k] = original[k]
  BY Zenon DEF Restrict
<1>2. Crossing \subseteq DOMAIN original
  BY Zenon DEF Crossing, EndToEnd
<1>3. ASSUME NEW k \in Crossing
      PROVE  ~shouldStrip(k, connectionTokens(current), hasUpgrade(current))
  <2>1. CASE k \in Negotiation
    <3>1. Get(original, "upgrade") # ""
      BY <2>1, Zenon DEF Crossing, EndToEnd
    <3>2. "upgrade" \in DOMAIN original /\ "upgrade" \in Crossing
      BY <3>1, Zenon DEF Get, Crossing, Negotiation
    <3>3. Get(current, "upgrade") = Get(original, "upgrade")
      BY <1>1, <3>2, Zenon DEF Get
    <3> QED
      BY <2>1, <3>1, <3>3, Zenon DEF shouldStrip, hasUpgrade
  <2>2. CASE k \notin Negotiation
    <3>1. k \in EndToEnd
      BY <2>2, Zenon DEF Crossing
    <3>2. k \notin hopByHopHeaders /\ k \notin Named
      BY <3>1 DEF EndToEnd
    <3>3. connectionTokens(current) \subseteq Named
      <4>1. CASE "connection" \in Crossing
        <5>1. current["connection"] = original["connection"] /\ "connection" \in DOMAIN original
          BY <1>1, <1>2, <4>1
        <5> QED
          BY <5>1, <1>1, <4>1, Zenon DEF connectionTokens, Named
      <4>2. CASE "connection" \notin Crossing
        BY <1>1, <4>2, Zenon DEF connectionTokens
      <4> QED
        BY <4>1, <4>2, Zenon
    <3> QED
      BY <2>2, <3>2, <3>3 DEF shouldStrip, isHopByHop
  <2> QED
    BY <2>1, <2>2
<1>4. {k \in DOMAIN current : ~shouldStrip(k, connectionTokens(current), hasUpgrade(current))} = DOMAIN current
  BY <1>1, <1>3
<1>5. Filter(current) = [k \in Crossing |-> current[k]]
  BY <1>1, <1>4, Zenon DEF Filter, Restrict
<1> QED
  BY <1>1, <1>5, Zenon DEF Restrict

(* Copy into an empty header set is the identity. *)
LEMMA CopyIs ==
  ASSUME HeaderSet(original), current = Restrict(original, Crossing)
  PROVE  Add(Restrict(current, {}), current) = current
<1>1. DOMAIN current = Crossing /\ \A k \in Crossing : current[k] = original[k]
  BY Zenon DEF Restrict
<1>2. Crossing \subseteq DOMAIN original
  BY Zenon DEF Crossing, EndToEnd
<1>3. ASSUME NEW k \in Crossing
      PROVE  <<>> \o current[k] = current[k]
  <2>1. PICK V : original[k] \in Seq(V)
    BY <1>2 DEF HeaderSet
  <2> QED
    BY <1>1, <2>1, \A s \in Seq(V) : <<>> \o s = s
<1>4. DOMAIN Restrict(current, {}) = {}
  BY DEF Restrict
<1>5. DOMAIN Restrict(current, {}) \cup DOMAIN current = Crossing
  BY <1>1, <1>4
<1>6. \A k \in Crossing : Values(Restrict(current, {}), k) \o Values(current, k) = current[k]
  BY <1>1, <1>3, <1>4, Zenon DEF Values
<1>7. Add(Restrict(current, {}), current)
        = [k \in Crossing |-> Values(Restrict(current, {}), k) \o Values(current, k)]
  BY <1>5, Zenon DEF Add
<1>8. @ = [k \in Crossing |-> current[k]]
  BY <1>6, Zenon
<1>9. @ = current
  BY <1>1, Zenon DEF Restrict
<1> QED
  BY <1>7, <1>8, <1>9, Zenon

(* Every header set a request or a response may arrive with. *)
LEMMA ReceivedSet == HeaderInit => CrossInv
<1> SUFFICES ASSUME HeaderInit PROVE CrossInv
  OBVIOUS
<1>1. PICK c \in Connections, u \in Upgrades, P \in SUBSET Plain, te \in BOOLEAN :
        original = Given([k \in Keys |->
         IF k = "connection" THEN c
         ELSE IF k = "upgrade" THEN u
         ELSE IF k \in P \/ (k = "te" /\ te) THEN <<"v1", "v2">> ELSE Absent])
  BY Zenon DEF HeaderInit
<1> DEFINE h == [k \in Keys |->
         IF k = "connection" THEN c
         ELSE IF k = "upgrade" THEN u
         ELSE IF k \in P \/ (k = "te" /\ te) THEN <<"v1", "v2">> ELSE Absent]
<1>2. \A k \in Keys : h[k] \in {c, u, <<"v1", "v2">>, <<>>}
  BY DEF Absent
<1>3. c \in Seq(SUBSET STRING) /\ u \in Seq(STRING)
  BY HeadersAssumption, Zenon
<1>4. \A S : <<>> \in Seq(S) /\ \A a, b \in S : <<a, b>> \in Seq(S)
  OBVIOUS
<1>5. <<"v1", "v2">> \in Seq({"v1", "v2"}) /\ <<>> \in Seq({"v1", "v2"})
  BY <1>4, Zenon
<1>6. \A k \in Keys : \E V : h[k] \in Seq(V)
  BY <1>2, <1>3, <1>5, Zenon
<1>7. original = Given(h)
  BY <1>1
<1> HIDE DEF h
<1> DEFINE D == {k \in Keys : h[k] # Absent}
<1>8. original = [k \in D |-> h[k]]
  BY <1>7, Zenon DEF Given, Restrict
<1>9. DOMAIN original = D /\ D \subseteq Keys /\ \A k \in D : original[k] = h[k]
  BY <1>8
<1> HIDE DEF D
<1>10. original = Restrict(original, DOMAIN original)
  BY <1>8, <1>9, Zenon DEF Restrict
<1>11. HeaderSet(original)
  BY <1>6, <1>9, <1>10, Zenon DEF HeaderSet
<1> QED
  BY <1>11 DEF CrossInv, HeaderInit, HeadersCross

(* No stage changes what crosses after the first. *)
LEMMA CrossStep == CrossInv /\ [HeaderNext]_headerVars => CrossInv'
<1> SUFFICES ASSUME CrossInv, [HeaderNext]_headerVars PROVE CrossInv'
  OBVIOUS
<1>1. HeadersCross <=> (stage # "received" => current = Restrict(original, Crossing))
  BY Zenon DEF HeadersCross, Crossing
<1>2. ASSUME original' = original
      PROVE  /\ HeaderSet(original)'
             /\ HeadersCross' <=> (stage' # "received" => current' = Restrict(original, Crossing))
  BY <1>2, Zenon DEF CrossInv, HeaderSet, HeadersCross, Crossing, EndToEnd, Named
<1>3. CASE ToProto
  <2>1. current' = Restrict(original, Crossing)
    BY <1>3, FirstFilter, Zenon DEF CrossInv, ToProto, Pass
  <2> QED
    BY <1>2, <1>3, <2>1 DEF CrossInv, ToProto, Pass
<1>4. CASE FromProto
  <2>1. current' = Restrict(original, Crossing)
    BY <1>1, <1>4, SecondFilter DEF CrossInv, FromProto, Pass
  <2> QED
    BY <1>2, <1>4, <2>1 DEF CrossInv, FromProto, Pass
<1>5. CASE Copy
  <2>1. current' = Restrict(original, Crossing)
    BY <1>1, <1>5, CopyIs DEF CrossInv, Copy, Pass
  <2> QED
    BY <1>2, <1>5, <2>1 DEF CrossInv, Copy, Pass
<1>6. CASE UNCHANGED headerVars
  BY <1>1, <1>2, <1>6 DEF CrossInv, headerVars
<1> QED
  BY <1>3, <1>4, <1>5, <1>6 DEF HeaderNext

(* Whatever Connection and Upgrade list, the end-to-end headers cross both filters
   (ToProto, FromProto) and Copy with all their values, and nothing else does but
   the negotiation of an upgrade. *)
THEOREM HeadersDoCross == HeaderSpec => []HeadersCross
<1>1. CrossInv => HeadersCross
  BY DEF CrossInv
<1> QED
  BY ReceivedSet, CrossStep, <1>1, PTL DEF HeaderSpec

(* What the edge (ServeHTTP) takes for a WebSocket the client (isWebSocketUpgrade)
   takes for one, whatever Connection and Upgrade list; the converse fails only
   where Upgrade has several values. *)
THEOREM KindsDoAgree == HeaderSpec => []KindsAgree
<1>1. CrossInv => KindsAgree
  <2> SUFFICES ASSUME CrossInv, stage = "wire"
               PROVE  /\ edgeUpgrade(original) => isWebSocketUpgrade(current)
                      /\ isWebSocketUpgrade(current) => edgeUpgrade(original) \/ Len(original["upgrade"]) > 1
    BY DEF KindsAgree
  <2>1. current = Restrict(original, Crossing)
    BY Zenon DEF CrossInv, HeadersCross, Crossing
  <2>2. DOMAIN current = Crossing /\ \A k \in Crossing : current[k] = original[k]
    BY <2>1, Zenon DEF Restrict
  <2>3. Crossing \subseteq DOMAIN original
    BY Zenon DEF Crossing, EndToEnd
  <2>4. ASSUME "upgrade" \in DOMAIN original
        PROVE  /\ Len(original["upgrade"]) \in Nat
               /\ DOMAIN original["upgrade"] = 1 .. Len(original["upgrade"])
               /\ original["upgrade"] # <<>> => Len(original["upgrade"]) > 0
    <3>1. PICK V : original["upgrade"] \in Seq(V)
      BY <2>4 DEF CrossInv, HeaderSet
    <3> QED
      BY <3>1
  <2>5. ASSUME edgeUpgrade(original)
        PROVE  isWebSocketUpgrade(current)
    <3>1. /\ "upgrade" \in DOMAIN original /\ original["upgrade"] # <<>>
          /\ original["upgrade"][1] = "websocket"
      BY <2>5 DEF edgeUpgrade, Get
    <3>2. "upgrade" \in Crossing
      BY <2>5, <3>1, Zenon DEF edgeUpgrade, Crossing, Negotiation
    <3>3. 1 \in DOMAIN original["upgrade"]
      BY <3>1, <2>4
    <3> QED
      BY <2>2, <3>1, <3>2, <3>3 DEF isWebSocketUpgrade, Range
  <2>6. ASSUME isWebSocketUpgrade(current), ~(Len(original["upgrade"]) > 1)
        PROVE  edgeUpgrade(original)
    <3>1. "upgrade" \in Crossing /\ "upgrade" \in DOMAIN original /\ "websocket" \in Range(original["upgrade"])
      BY <2>2, <2>3, <2>6 DEF isWebSocketUpgrade
    <3>2. PICK i \in DOMAIN original["upgrade"] : original["upgrade"][i] = "websocket"
      BY <3>1 DEF Range
    <3>3. i = 1
      BY <2>4, <2>6, <3>1, <3>2
    <3>4. original["upgrade"] # <<>>
      BY <3>2, DOMAIN <<>> = {}
    <3> QED
      BY <3>1, <3>2, <3>3, <3>4 DEF edgeUpgrade, Get
  <2> QED
    BY <2>5, <2>6
<1> QED
  BY ReceivedSet, CrossStep, <1>1, PTL DEF HeaderSpec
=============================================================================
