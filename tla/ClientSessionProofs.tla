------------------------- MODULE ClientSessionProofs -------------------------
(***************************************************************************)
(* Safety of a client's session, for any number of requests, bodies and    *)
(* responses of any length: its frames implement ResponseProtocol, and a   *)
(* handler never takes a body that broke off for a complete one.           *)
(***************************************************************************)
EXTENDS ClientSession, TLAPS

Frames == {"ResponseStart", "ResponseBody", "ResponseEnd", "ResponseError"}

Types ==
  /\ cur \in Requests \cup {NoOne}
  /\ fed \in [Requests -> Nat]
  /\ inflight \subseteq Requests
  /\ pc \in [Requests -> HandlerStates]
  /\ exit \in [Requests -> {"run", "close"}]
  /\ todo \in [Requests -> Seq(Frames)]
  /\ wclosed \in [Requests -> {"open", "eof", "err"}]
  /\ bodyEnd \in [Requests -> {"no", "eof", "err"}]
  /\ got \in [Requests -> Seq(Int)]
  /\ sent \in [Requests -> Frames \cup {"none"}]

(* Who sends holds the mutex, and what the receive loop is about. *)
Loop ==
  /\ sendMu = Receiver => recv = "send"
  /\ \A r \in Requests : sendMu = r => pc[r] = "send"
  /\ recv = "recv" => cur = NoOne
  /\ recv = "write" => cur \in Requests /\ pc[cur] # "none"
  /\ recv = "send" /\ cur # NoOne => pc[cur] = "none" /\ sent[cur] = "none" /\ fed[cur] # 0

(* A request that was not started has no goroutine. *)
Fresh ==
  \A r \in Requests :
    /\ r \in inflight => pc[r] # "none"
    /\ fed[r] = 0 => pc[r] = "none" /\ sent[r] = "none"
    /\ pc[r] = "none" => /\ got[r] = <<>> /\ bodyEnd[r] = "no" /\ wclosed[r] = "open"
                         /\ r \notin wroteHeader /\ r \notin rclosed

Open == {"ResponseStart", "ResponseBody"}

(* The frames a call of the response writer has still to send continue what was
   sent, and leave the response as the rest of serveRequest expects it. *)
Continues(r) ==
  \/ /\ r \in wroteHeader /\ exit[r] = "run"
     /\ \/ sent[r] = "none" /\ todo[r] \in {<<"ResponseStart">>, <<"ResponseStart", "ResponseBody">>}
        \/ sent[r] \in Open /\ todo[r] = <<"ResponseBody">>
  \/ /\ exit[r] = "close"
     /\ \/ sent[r] = "none" /\ todo[r] = <<"ResponseStart", "ResponseEnd">>
        \/ sent[r] \in Open /\ todo[r] = <<"ResponseEnd">>
        \/ sent[r] \in Open \cup {"none"} /\ todo[r] = <<"ResponseError">>

Writing(r) ==
  /\ pc[r] \in {"run", "reading", "waiting"} =>
       IF r \in wroteHeader THEN sent[r] \in Open ELSE sent[r] = "none"
  /\ pc[r] = "send" => Continues(r)

(* While the stream is up; afterwards nothing is sent. *)
Writer == stream = "up" => \A r \in Requests : Writing(r)

(* The handler may still read. *)
Reads(r) == pc[r] \notin {"none", "close", "delete", "done"}

(* A chunk of r is in the receive loop's hands. *)
Busy(r) == recv = "write" /\ cur = r

(* The handler has every chunk that was received, while its pipe is whole. *)
Whole(r) == Reads(r) /\ wclosed[r] = "open" /\ recv \notin {"closing", "returned"}

PipeOf(r) ==
  /\ \A i \in 1 .. Len(got[r]) : got[r][i] = i
  /\ Whole(r) => /\ r \in inflight /\ r \notin rclosed
                 /\ fed[r] \in 1 .. BodyFrames[r] + 1
                 /\ fed[r] = Len(got[r]) + (IF Busy(r) THEN 2 ELSE 1)
  /\ Reads(r) /\ wclosed[r] = "eof" => Len(got[r]) = BodyFrames[r]
  /\ bodyEnd[r] = "eof" => wclosed[r] = "eof" /\ Len(got[r]) = BodyFrames[r]

Pipe == \A r \in Requests : PipeOf(r)

(* The handler has read fewer frames than were received, and never more than the
   body has; the body is closed as complete by its last frame only. *)
CountedOf(r) ==
  /\ got[r] = <<>> \/ Len(got[r]) < fed[r]
  /\ Len(got[r]) <= BodyFrames[r]
  /\ wclosed[r] = "eof" => fed[r] >= BodyFrames[r] + 2

Counted == \A r \in Requests : CountedOf(r)

IInv == Types /\ Loop /\ Fresh /\ Writer /\ Pipe /\ Counted

-----------------------------------------------------------------------------
LEMMA InitIInv == Init => IInv
<1> SUFFICES ASSUME Init PROVE IInv
  OBVIOUS
<1>1. Types
  BY DEF Init, Types, HandlerStates
<1>2. Loop /\ Fresh /\ Writer
  BY SessionAssumption DEF Init, Loop, Fresh, Writer, Writing
<1>3. ASSUME NEW r \in Requests
      PROVE  got[r] = <<>> /\ Len(got[r]) = 0 /\ pc[r] = "none" /\ bodyEnd[r] = "no"
  BY DEF Init
<1>4. Pipe
  BY <1>3, \A i \in 1 .. 0 : FALSE, Zenon DEF Pipe, PipeOf, Whole, Reads
<1>5. Counted
  <2>1. \A r \in Requests : wclosed[r] = "open" /\ BodyFrames[r] \in Nat
    BY SessionAssumption, Zenon DEF Init
  <2>2. \A n \in Nat : 0 <= n
    OBVIOUS
  <2> QED
    BY <1>3, <2>1, <2>2, Zenon DEF Counted, CountedOf
<1> QED
  BY <1>1, <1>2, <1>4, <1>5 DEF IInv

(* What a step does to the receive loop's own state only. *)
Frame(r) == RequestStart(r) \/ BadRequest(r) \/ RequestBody(r) \/ RequestEnd(r) \/ CancelRequest(r)

Calls(r) == WriteHeader(r) \/ Write(r) \/ Finish(r) \/ Fail(r)

Others(r) == HandlerWaits(r) \/ ReadEnds(r) \/ ContextEnds(r) \/ CloseRequest(r) \/ DeleteRequest(r)

LEMMA StepCases ==
  ASSUME [Next]_vars
  PROVE  \/ \E r \in Requests :
              Frame(r) \/ Calls(r) \/ Others(r) \/ HandlerLocks(r) \/ HandlerSends(r) \/ ReadChunk(r)
         \/ BodyWriteFails \/ StreamEnds \/ CloseReadEnds \/ ReceiverLocks \/ ReceiverSends
         \/ Ping \/ StreamFails \/ UNCHANGED vars
BY DEF Next, HandlerStep, ReceiverStep, RequestFrame, Frame, Calls, Others

(* These steps of a goroutine leave the receive loop and the mutex alone. *)
LEMMA LocalStep ==
  ASSUME NEW r \in Requests, Calls(r) \/ Others(r)
  PROVE  /\ UNCHANGED <<stream, recv, cur, fed, sendMu, got, sent>>
         /\ pc[r] \in {"run", "reading", "waiting", "close", "delete"}
         /\ \E l \in HandlerStates \ {"none"} : Goto(r, l)
<1> USE DEF recvVars, pipeVars, writerVars, readVars, HandlerStates
<1>1. CASE Calls(r)
  BY <1>1 DEF Calls, WriteHeader, Write, Finish, Fail, Call
<1>2. CASE HandlerWaits(r)
  BY <1>2 DEF HandlerWaits
<1>3. CASE ReadEnds(r) \/ ContextEnds(r) \/ CloseRequest(r) \/ DeleteRequest(r)
  BY <1>3 DEF ReadEnds, ContextEnds, CloseRequest, DeleteRequest
<1> QED
  BY <1>1, <1>2, <1>3 DEF Others

(* The lists of frames a call of the response writer works through. *)
LEMMA Lists ==
  \A x, y : /\ <<x>> # <<>> /\ Head(<<x>>) = x /\ Tail(<<x>>) = <<>>
           /\ <<x, y>> # <<>> /\ Head(<<x, y>>) = x /\ Tail(<<x, y>>) = <<y>>
OBVIOUS

(* Two sequences with the same elements are the same. *)
LEMMA SameElements ==
  ASSUME NEW S, NEW s \in Seq(S), NEW t \in Seq(S), Len(s) = Len(t),
         \A i \in 1 .. Len(s) : s[i] = t[i]
  PROVE  s = t
<1>1. s = [i \in 1 .. Len(s) |-> s[i]]
  OBVIOUS
<1>2. t = [i \in 1 .. Len(t) |-> t[i]]
  OBVIOUS
<1>3. 1 .. Len(s) = 1 .. Len(t)
  OBVIOUS
<1>4. [i \in 1 .. Len(s) |-> s[i]] = [i \in 1 .. Len(t) |-> t[i]]
  BY <1>3, Zenon
<1> QED
  BY <1>1, <1>2, <1>4, Zenon

LEMMA Joined == \A x, y : <<>> \o <<x>> = <<x>> /\ <<x>> \o <<y>> = <<x, y>>
<1>1. \A x : <<>> \o <<x>> = <<x>>
  OBVIOUS
<1>2. ASSUME NEW x, NEW y PROVE <<x>> \o <<y>> = <<x, y>>
  <2> DEFINE s == <<x>> \o <<y>>
             t == <<x, y>>
  <2>1. s \in Seq({x, y}) /\ t \in Seq({x, y}) /\ Len(s) = 2 /\ Len(t) = 2
    OBVIOUS
  <2>2. s[1] = x /\ s[2] = y /\ t[1] = x /\ t[2] = y
    OBVIOUS
  <2> HIDE DEF s, t
  <2>3. \A i \in 1 .. Len(s) : s[i] = t[i]
    BY <2>1, <2>2
  <2>4. s = t
    BY <2>1, <2>3, SameElements
  <2> QED
    BY <2>4 DEF s, t
<1> QED
  BY <1>1, <1>2, Zenon

(* The next frame of a call, and what is left of it. *)
LEMMA NextFrame ==
  ASSUME NEW r \in Requests, Continues(r)
  PROVE  /\ todo[r] # <<>>
         /\ \/ /\ Head(todo[r]) = "ResponseStart" /\ sent[r] = "none"
               /\ \/ r \in wroteHeader /\ exit[r] = "run" /\ Tail(todo[r]) \in {<<>>, <<"ResponseBody">>}
                  \/ exit[r] = "close" /\ Tail(todo[r]) = <<"ResponseEnd">>
            \/ /\ Head(todo[r]) = "ResponseBody" /\ sent[r] \in Open
               /\ r \in wroteHeader /\ exit[r] = "run" /\ Tail(todo[r]) = <<>>
            \/ /\ Head(todo[r]) = "ResponseEnd" /\ sent[r] \in Open
               /\ exit[r] = "close" /\ Tail(todo[r]) = <<>>
            \/ /\ Head(todo[r]) = "ResponseError" /\ sent[r] \in Open \cup {"none"}
               /\ exit[r] = "close" /\ Tail(todo[r]) = <<>>
<1> DEFINE one(x) == todo[r] = <<x>>
           two(x, y) == todo[r] = <<x, y>>
<1>1. ASSUME NEW x, one(x) PROVE todo[r] # <<>> /\ Head(todo[r]) = x /\ Tail(todo[r]) = <<>>
  BY <1>1, Lists, Zenon
<1>2. ASSUME NEW x, NEW y, two(x, y) PROVE todo[r] # <<>> /\ Head(todo[r]) = x /\ Tail(todo[r]) = <<y>>
  BY <1>2, Lists, Zenon
<1>3. \/ /\ r \in wroteHeader /\ exit[r] = "run"
         /\ \/ sent[r] = "none" /\ (one("ResponseStart") \/ two("ResponseStart", "ResponseBody"))
            \/ sent[r] \in Open /\ one("ResponseBody")
      \/ /\ exit[r] = "close"
         /\ \/ sent[r] = "none" /\ two("ResponseStart", "ResponseEnd")
            \/ sent[r] \in Open /\ one("ResponseEnd")
            \/ sent[r] \in Open \cup {"none"} /\ one("ResponseError")
  BY Zenon DEF Continues
<1> HIDE DEF one, two
<1> QED
  BY <1>1, <1>2, <1>3, Zenon

LEMMA TypesStep == IInv /\ [Next]_vars => Types'
<1> SUFFICES ASSUME IInv, [Next]_vars PROVE Types'
  OBVIOUS
<1> USE DEF IInv, Types, HandlerStates, Goto, recvVars, pipeVars, writerVars, readVars
<1>1. ASSUME NEW r \in Requests, Frame(r) PROVE Types'
  <2>1. fed' = [fed EXCEPT ![r] = fed[r] + 1]
    BY <1>1 DEF Frame, RequestStart, BadRequest, RequestBody, RequestEnd, CancelRequest, Receiving
  <2>2. fed' \in [Requests -> Nat]
    BY <2>1
  <2>3. CASE RequestStart(r) \/ BadRequest(r) \/ RequestBody(r)
    BY <2>2, <2>3, Zenon DEF RequestStart, BadRequest, RequestBody
  <2>4. CASE RequestEnd(r) \/ CancelRequest(r)
    BY <2>2, <2>4 DEF RequestEnd, CancelRequest, CloseWriteEnd
  <2> QED
    BY <1>1, <2>3, <2>4, Zenon DEF Frame
<1>2. ASSUME NEW r \in Requests, Calls(r) PROVE Types'
  <2>1. PICK frames \in Seq(Frames), next \in {"run", "close"} : Call(r, frames, next)
    <3>1. \A x \in Frames : <<x>> \in Seq(Frames) /\ <<>> \o <<x>> \in Seq(Frames) /\ <<"ResponseStart">> \o <<x>> \in Seq(Frames)
      BY DEF Frames
    <3>2. \A x \in Frames : Header(r) \o <<x>> \in Seq(Frames)
      BY <3>1 DEF Header
    <3>3. {"ResponseStart", "ResponseBody", "ResponseEnd", "ResponseError"} \subseteq Frames
      BY DEF Frames
    <3> HIDE DEF Frames
    <3> QED
      BY <1>2, <3>1, <3>2, <3>3, Zenon DEF Calls, WriteHeader, Write, Finish, Fail
  <2> QED
    BY <2>1 DEF Call
<1>3. ASSUME NEW r \in Requests, Others(r) \/ HandlerLocks(r) PROVE Types'
  <2>1. CASE HandlerWaits(r)
    BY <2>1, Zenon DEF HandlerWaits
  <2>2. CASE ReadEnds(r)
    BY <2>2 DEF ReadEnds, Broken
  <2>3. CASE ContextEnds(r) \/ HandlerLocks(r)
    BY <2>3 DEF ContextEnds, HandlerLocks
  <2>4. CASE CloseRequest(r) \/ DeleteRequest(r)
    BY <2>4, Zenon DEF CloseRequest, DeleteRequest
  <2> QED
    BY <1>3, <2>1, <2>2, <2>3, <2>4, Zenon DEF Others
<1>4. ASSUME NEW r \in Requests, HandlerSends(r) PROVE Types'
  <2>1. pc[r] = "send"
    BY <1>4 DEF HandlerSends, Loop
  <2>2. stream = "up" => todo[r] # <<>>
    BY <2>1, NextFrame DEF Writer, Writing
  <2>3. todo' \in [Requests -> Seq(Frames)] /\ sent' \in [Requests -> Frames \cup {"none"}]
    <3>1. todo[r] \in Seq(Frames)
      OBVIOUS
    <3>2. CASE stream = "up"
      <4>1. Head(todo[r]) \in Frames /\ Tail(todo[r]) \in Seq(Frames)
        BY <2>2, <3>1, <3>2
      <4> QED
        BY <1>4, <3>2, <4>1, Zenon DEF HandlerSends
    <3>3. CASE stream # "up"
      BY <1>4, <3>3, <<>> \in Seq(Frames), Zenon DEF HandlerSends
    <3> QED
      BY <3>2, <3>3
  <2>4. PICK l \in HandlerStates : pc' = [pc EXCEPT ![r] = l]
    BY <1>4, Zenon DEF HandlerSends
  <2>5. UNCHANGED <<cur, fed, inflight, exit, wclosed, bodyEnd, got>>
    BY <1>4 DEF HandlerSends
  <2> QED
    BY <2>3, <2>4, <2>5
<1>5. ASSUME NEW r \in Requests, ReadChunk(r) PROVE Types'
  <2>1. Append(got[r], fed[r] - 1) \in Seq(Int)
    OBVIOUS
  <2> QED
    BY <1>5, <2>1 DEF ReadChunk
<1>6. CASE BodyWriteFails \/ StreamEnds \/ CloseReadEnds \/ ReceiverLocks \/ Ping \/ StreamFails \/ UNCHANGED vars
  BY <1>6 DEF BodyWriteFails, StreamEnds, CleanUp, errSessionEnded, CloseWriteEnd, CloseReadEnds, ReceiverLocks,
              Ping, StreamFails, vars
<1>7. CASE ReceiverSends
  BY <1>7 DEF ReceiverSends, CleanUp, errSessionEnded, CloseWriteEnd, Frames
<1> QED
  BY <1>1, <1>2, <1>3, <1>4, <1>5, <1>6, <1>7, StepCases, Zenon

LEMMA LoopStep == IInv /\ [Next]_vars => Loop'
<1> SUFFICES ASSUME IInv, [Next]_vars PROVE Loop'
  OBVIOUS
<1> USE SessionAssumption DEF IInv, Types, Loop, Goto, recvVars, pipeVars, writerVars, readVars
<1>1. ASSUME NEW r \in Requests, Frame(r) PROVE Loop'
  <2>1. CASE RequestStart(r)
    BY <2>1 DEF RequestStart, Receiving, Fresh
  <2>2. CASE BadRequest(r)
    BY <2>2 DEF BadRequest, Receiving, Fresh
  <2>3. CASE RequestBody(r)
    BY <2>3 DEF RequestBody, Receiving, Fresh
  <2>4. CASE RequestEnd(r) \/ CancelRequest(r)
    BY <2>4 DEF RequestEnd, CancelRequest, Receiving
  <2> QED
    BY <1>1, <2>1, <2>2, <2>3, <2>4 DEF Frame
<1>2. ASSUME NEW r \in Requests, Calls(r) \/ Others(r) PROVE Loop'
  <2>1. PICK l \in HandlerStates \ {"none"} : Goto(r, l)
    BY <1>2, LocalStep
  <2>2. UNCHANGED <<recv, cur, fed, sendMu, sent>> /\ pc[r] \notin {"none", "send"}
    BY <1>2, LocalStep, Zenon
  <2> QED
    BY <2>1, <2>2
<1>3. ASSUME NEW r \in Requests, HandlerLocks(r) PROVE Loop'
  BY <1>3 DEF HandlerLocks
<1>4. ASSUME NEW r \in Requests, HandlerSends(r) PROVE Loop'
  <2>1. PICK l \in {"send", "run", "close"} : pc' = [pc EXCEPT ![r] = l]
    BY <1>4, Zenon DEF HandlerSends
  <2>2. pc[r] = "send" /\ sendMu' = NoOne /\ UNCHANGED <<recv, cur, fed>>
    BY <1>4 DEF HandlerSends
  <2>3. \A q \in Requests \ {r} : sent'[q] = sent[q]
    BY <1>4, Zenon DEF HandlerSends
  <2> QED
    BY <2>1, <2>2, <2>3
<1>5. ASSUME NEW r \in Requests, ReadChunk(r) PROVE Loop'
  BY <1>5 DEF ReadChunk
<1>6. CASE BodyWriteFails \/ StreamEnds \/ CloseReadEnds \/ Ping \/ StreamFails \/ UNCHANGED vars
  BY <1>6 DEF BodyWriteFails, StreamEnds, CleanUp, CloseReadEnds, Ping, StreamFails, vars
<1>7. CASE ReceiverLocks \/ ReceiverSends
  BY <1>7 DEF ReceiverLocks, ReceiverSends, CleanUp
<1> QED
  BY <1>1, <1>2, <1>3, <1>4, <1>5, <1>6, <1>7, StepCases, Zenon

LEMMA FreshStep == IInv /\ [Next]_vars => Fresh'
<1> SUFFICES ASSUME IInv, [Next]_vars PROVE Fresh'
  OBVIOUS
<1> USE SessionAssumption DEF IInv, Types, Fresh, Goto, recvVars, pipeVars, writerVars, readVars
<1>1. ASSUME NEW r \in Requests, Frame(r) PROVE Fresh'
  <2>1. CASE RequestStart(r)
    BY <2>1 DEF RequestStart, Receiving
  <2>2. CASE BadRequest(r)
    BY <2>2 DEF BadRequest, Receiving
  <2>3. CASE RequestBody(r)
    BY <2>3 DEF RequestBody, Receiving
  <2>4. CASE RequestEnd(r) \/ CancelRequest(r)
    <3>1. \A p \in Requests : p \notin inflight => wclosed'[p] = wclosed[p]
      BY <2>4 DEF RequestEnd, CancelRequest, CloseWriteEnd
    <3>2. /\ fed' = [fed EXCEPT ![r] = fed[r] + 1]
          /\ UNCHANGED <<inflight, pc, got, bodyEnd, wroteHeader, rclosed, sent>>
      BY <2>4 DEF RequestEnd, CancelRequest, Receiving
    <3>3. fed[r] # 0
      BY <2>4 DEF RequestEnd, CancelRequest, Receiving
    <3>4. \A p \in Requests : fed'[p] = 0 => fed[p] = 0
      BY <3>2, <3>3
    <3> HIDE DEF IInv, Types
    <3>5. Fresh
      BY DEF IInv
    <3> QED
      BY <3>1, <3>2, <3>4, <3>5
  <2> QED
    BY <1>1, <2>1, <2>2, <2>3, <2>4 DEF Frame
<1>2. ASSUME NEW r \in Requests, Calls(r) PROVE Fresh'
  <2>1. UNCHANGED <<inflight, rclosed, wclosed, bodyEnd, got, sent, fed>> /\ wroteHeader' \subseteq wroteHeader \cup {r}
    BY <1>2, Zenon DEF Calls, WriteHeader, Write, Finish, Fail, Call
  <2>2. pc[r] # "none" /\ pc' = [pc EXCEPT ![r] = "send"]
    BY <1>2, Zenon DEF Calls, WriteHeader, Write, Finish, Fail, Call
  <2> QED
    BY <2>1, <2>2, Zenon
<1>3. ASSUME NEW r \in Requests, Others(r) PROVE Fresh'
  <2>1. /\ inflight' \subseteq inflight /\ rclosed' \subseteq rclosed \cup {r}
        /\ \A p \in Requests \ {r} : bodyEnd'[p] = bodyEnd[p]
        /\ UNCHANGED <<wclosed, wroteHeader>>
    BY <1>3 DEF Others, HandlerWaits, ReadEnds, ContextEnds, CloseRequest, DeleteRequest
  <2>2. PICK l \in HandlerStates \ {"none"} : pc' = [pc EXCEPT ![r] = l]
    BY <1>3, LocalStep
  <2>3. pc[r] # "none" /\ UNCHANGED <<got, sent, fed>>
    BY <1>3, LocalStep, Zenon
  <2> QED
    BY <2>1, <2>2, <2>3, Zenon
<1>4. ASSUME NEW r \in Requests, HandlerSends(r) PROVE Fresh'
  <2>1. PICK l \in {"send", "run", "close"} : pc' = [pc EXCEPT ![r] = l]
    BY <1>4, Zenon DEF HandlerSends
  <2>2. pc[r] = "send" /\ UNCHANGED <<fed, inflight, got, bodyEnd, wclosed, wroteHeader, rclosed>>
    BY <1>4 DEF HandlerSends, Loop
  <2>3. \A q \in Requests \ {r} : sent'[q] = sent[q]
    BY <1>4 DEF HandlerSends
  <2> QED
    BY <2>1, <2>2, <2>3
<1>5. ASSUME NEW r \in Requests, ReadChunk(r) \/ HandlerLocks(r) PROVE Fresh'
  <2>1. CASE ReadChunk(r)
    <3>1. pc[r] = "reading" /\ pc' = [pc EXCEPT ![r] = "run"]
      BY <2>1 DEF ReadChunk
    <3>2. \A p \in Requests \ {r} : got'[p] = got[p]
      BY <2>1 DEF ReadChunk
    <3>3. UNCHANGED <<fed, inflight, bodyEnd, wclosed, wroteHeader, rclosed, sent>>
      BY <2>1 DEF ReadChunk
    <3> QED
      BY <3>1, <3>2, <3>3
  <2>2. CASE HandlerLocks(r)
    BY <2>2, Zenon DEF HandlerLocks
  <2> QED
    BY <1>5, <2>1, <2>2
<1>6. CASE BodyWriteFails \/ CloseReadEnds \/ ReceiverLocks \/ Ping \/ StreamFails \/ UNCHANGED vars
  BY <1>6, Zenon DEF BodyWriteFails, CloseReadEnds, Told, ReceiverLocks, Ping, StreamFails, vars
<1>7. CASE StreamEnds
  BY <1>7, Zenon DEF StreamEnds, CleanUp, CloseWriteEnd, Told
<1>8. CASE ReceiverSends
  <2>1. cur # NoOne => fed[cur] # 0
    BY <1>8 DEF ReceiverSends, Loop
  <2>2. CASE cur = NoOne
    BY <1>8, <2>2, Zenon DEF ReceiverSends, CleanUp, CloseWriteEnd, Told
  <2>3. CASE cur # NoOne
    BY <1>8, <2>1, <2>3 DEF ReceiverSends
  <2> QED
    BY <2>2, <2>3
<1> QED
  BY <1>1, <1>2, <1>3, <1>4, <1>5, <1>6, <1>7, <1>8, StepCases, Zenon

(* A lost stream stays lost. *)
LEMMA StreamStep ==
  ASSUME [Next]_vars, stream' = "up"
  PROVE  stream = "up"
<1> USE DEF recvVars
<1>1. ASSUME NEW r \in Requests, Frame(r) PROVE stream = "up"
  BY <1>1 DEF Frame, RequestStart, BadRequest, RequestBody, RequestEnd, CancelRequest, Receiving
<1>2. ASSUME NEW r \in Requests, Calls(r) \/ Others(r) PROVE stream = "up"
  BY <1>2, LocalStep, Zenon
<1>3. ASSUME NEW r \in Requests, HandlerLocks(r) \/ HandlerSends(r) \/ ReadChunk(r) PROVE stream = "up"
  BY <1>3 DEF HandlerLocks, HandlerSends, ReadChunk
<1>4. CASE BodyWriteFails \/ StreamEnds \/ CloseReadEnds \/ ReceiverLocks \/ ReceiverSends
  BY <1>4 DEF BodyWriteFails, StreamEnds, CloseReadEnds, ReceiverLocks, ReceiverSends
<1>5. CASE Ping \/ StreamFails \/ UNCHANGED vars
  BY <1>5 DEF Ping, StreamFails, vars
<1> QED
  BY <1>1, <1>2, <1>3, <1>4, <1>5, StepCases

LEMMA WriterStep == IInv /\ [Next]_vars => Writer'
<1> SUFFICES ASSUME IInv, [Next]_vars, stream' = "up" PROVE Writer'
  BY DEF Writer
<1>0. stream = "up"
  BY StreamStep, Zenon
<1> USE DEF IInv, Types, Goto, recvVars, pipeVars, writerVars, readVars
<1> DEFINE Same(q) == /\ pc'[q] = pc[q] /\ sent'[q] = sent[q] /\ exit'[q] = exit[q] /\ todo'[q] = todo[q]
                      /\ q \in wroteHeader' <=> q \in wroteHeader
<1>a. ASSUME NEW r \in Requests, \A q \in Requests \ {r} : Same(q), Writing(r)' PROVE Writer'
  <2>1. ASSUME NEW q \in Requests \ {r} PROVE Writing(q)'
    <3>1. Same(q) /\ Writing(q)
      BY <1>0, <1>a DEF Writer
    <3> QED
      BY <3>1, Zenon DEF Writing, Continues
  <2> QED
    BY <1>a, <2>1, Zenon DEF Writer
<1>b. ASSUME \A q \in Requests : Same(q) PROVE Writer'
  <2>1. ASSUME NEW q \in Requests PROVE Writing(q)'
    <3>1. Same(q) /\ Writing(q)
      BY <1>0, <1>b DEF Writer
    <3> QED
      BY <3>1, Zenon DEF Writing, Continues
  <2> QED
    BY <2>1, Zenon DEF Writer
<1>c. \A q \in Requests : Writing(q)
  BY <1>0 DEF Writer
<1> HIDE DEF Writer
<1>1. ASSUME NEW r \in Requests, Frame(r) \/ HandlerLocks(r) PROVE Writer'
  <2>1. CASE RequestStart(r)
    <3>1. \A q \in Requests \ {r} : Same(q)
      BY <2>1 DEF RequestStart
    <3>2. Writing(r)'
      BY <2>1, Zenon DEF RequestStart, Receiving, Fresh, Writing
    <3> QED
      BY <1>a, <3>1, <3>2
  <2>2. CASE BadRequest(r) \/ RequestBody(r) \/ RequestEnd(r) \/ CancelRequest(r) \/ HandlerLocks(r)
    BY <1>b, <2>2, Zenon DEF BadRequest, RequestBody, RequestEnd, CancelRequest, HandlerLocks
  <2> QED
    BY <1>1, <2>1, <2>2, Zenon DEF Frame
<1>2. ASSUME NEW r \in Requests, Calls(r) PROVE Writer'
  <2>1. \A q \in Requests \ {r} : Same(q)
    BY <1>2, Zenon DEF Calls, WriteHeader, Write, Finish, Fail, Call
  <2>2. pc'[r] = "send" /\ sent'[r] = sent[r] /\ pc[r] = "run"
    BY <1>2, Zenon DEF Calls, WriteHeader, Write, Finish, Fail, Call
  <2>3. IF r \in wroteHeader THEN sent[r] \in Open ELSE sent[r] = "none"
    BY <1>c, <2>2 DEF Writing
  <2>4. Continues(r)'
    <3>1. CASE WriteHeader(r)
      BY <2>2, <2>3, <3>1 DEF WriteHeader, NeedHeader, Call, Continues
    <3>2. CASE Write(r)
      <4>1. r \in wroteHeader' /\ exit'[r] = "run" /\ todo'[r] = Header(r) \o <<"ResponseBody">>
        BY <3>2, Zenon DEF Write, Call
      <4>2. /\ r \in wroteHeader => Header(r) \o <<"ResponseBody">> = <<"ResponseBody">>
            /\ r \notin wroteHeader => Header(r) \o <<"ResponseBody">> = <<"ResponseStart", "ResponseBody">>
        BY Joined, Zenon DEF Header, NeedHeader
      <4>3. CASE r \in wroteHeader
        <5>1. todo'[r] = <<"ResponseBody">> /\ sent'[r] \in Open
          BY <2>2, <2>3, <4>1, <4>2, <4>3
        <5> QED
          BY <4>1, <5>1, Zenon DEF Continues
      <4>4. CASE r \notin wroteHeader
        <5>1. todo'[r] = <<"ResponseStart", "ResponseBody">> /\ sent'[r] = "none"
          BY <2>2, <2>3, <4>1, <4>2, <4>4
        <5> QED
          BY <4>1, <5>1, Zenon DEF Continues
      <4> QED
        BY <4>3, <4>4
    <3>3. CASE Finish(r)
      <4>1. exit'[r] = "close" /\ todo'[r] = Header(r) \o <<"ResponseEnd">>
        BY <3>3, Zenon DEF Finish, Call
      <4>2. /\ r \in wroteHeader => Header(r) \o <<"ResponseEnd">> = <<"ResponseEnd">>
            /\ r \notin wroteHeader => Header(r) \o <<"ResponseEnd">> = <<"ResponseStart", "ResponseEnd">>
        BY Joined, Zenon DEF Header, NeedHeader
      <4>3. CASE r \in wroteHeader
        <5>1. todo'[r] = <<"ResponseEnd">> /\ sent'[r] \in Open
          BY <2>2, <2>3, <4>1, <4>2, <4>3
        <5> QED
          BY <4>1, <5>1, Zenon DEF Continues
      <4>4. CASE r \notin wroteHeader
        <5>1. todo'[r] = <<"ResponseStart", "ResponseEnd">> /\ sent'[r] = "none"
          BY <2>2, <2>3, <4>1, <4>2, <4>4
        <5> QED
          BY <4>1, <5>1, Zenon DEF Continues
      <4> QED
        BY <4>3, <4>4
    <3>4. CASE Fail(r)
      BY <2>2, <2>3, <3>4 DEF Fail, Call, Continues
    <3> QED
      BY <1>2, <3>1, <3>2, <3>3, <3>4, Zenon DEF Calls
  <2> QED
    BY <1>a, <2>1, <2>2, <2>4, Zenon DEF Writing
<1>3. ASSUME NEW r \in Requests, Others(r) PROVE Writer'
  <2>1. \A q \in Requests \ {r} : Same(q)
    BY <1>3, Zenon DEF Others, HandlerWaits, ReadEnds, ContextEnds, CloseRequest, DeleteRequest
  <2>2. UNCHANGED <<sent, wroteHeader>>
    BY <1>3, Zenon DEF Others, HandlerWaits, ReadEnds, ContextEnds, CloseRequest, DeleteRequest
  <2>3. CASE HandlerWaits(r) \/ ReadEnds(r) \/ ContextEnds(r)
    <3>1. pc[r] \in {"run", "reading", "waiting"} /\ pc'[r] \in {"run", "reading", "waiting"}
      BY <2>3, Zenon DEF HandlerWaits, ReadEnds, ContextEnds
    <3> QED
      BY <1>a, <1>c, <2>1, <2>2, <3>1, Zenon DEF Writing
  <2>4. CASE CloseRequest(r) \/ DeleteRequest(r)
    <3>1. pc'[r] \in {"delete", "done"}
      BY <2>4 DEF CloseRequest, DeleteRequest
    <3> QED
      BY <1>a, <2>1, <3>1, Zenon DEF Writing
  <2> QED
    BY <1>3, <2>3, <2>4, Zenon DEF Others
<1>4. ASSUME NEW r \in Requests, HandlerSends(r) PROVE Writer'
  <2>1. \A q \in Requests \ {r} : Same(q)
    BY <1>0, <1>4 DEF HandlerSends
  <2>2. Continues(r)
    BY <1>4, <1>c DEF HandlerSends, Loop, Writing
  <2>3. /\ sent'[r] = Head(todo[r]) /\ todo'[r] = Tail(todo[r])
        /\ pc'[r] = (IF Tail(todo[r]) = <<>> THEN exit[r] ELSE "send")
        /\ UNCHANGED <<exit, wroteHeader>>
    BY <1>0, <1>4, Zenon DEF HandlerSends
  <2>4. <<"ResponseBody">> # <<>> /\ <<"ResponseEnd">> # <<>>
    BY Lists, Zenon
  <2>5. Writing(r)'
    BY <2>2, <2>3, <2>4, NextFrame, Zenon DEF Writing, Continues, Open
  <2> QED
    BY <1>a, <2>1, <2>5
<1>5. ASSUME NEW r \in Requests, ReadChunk(r) PROVE Writer'
  <2>1. \A q \in Requests \ {r} : Same(q)
    BY <1>5 DEF ReadChunk
  <2>2. pc[r] = "reading" /\ pc'[r] = "run" /\ UNCHANGED <<sent, wroteHeader>>
    BY <1>5, Zenon DEF ReadChunk
  <2> QED
    BY <1>a, <1>c, <2>1, <2>2, Zenon DEF Writing
<1>6. CASE BodyWriteFails \/ StreamEnds \/ CloseReadEnds \/ ReceiverLocks \/ Ping \/ StreamFails \/ UNCHANGED vars
  BY <1>b, <1>6 DEF BodyWriteFails, StreamEnds, CloseReadEnds, ReceiverLocks, Ping, StreamFails, vars
<1>7. CASE ReceiverSends
  <2>1. CASE cur = NoOne
    BY <1>b, <1>7, <2>1, Zenon DEF ReceiverSends
  <2>2. CASE cur # NoOne
    <3>1. cur \in Requests /\ pc[cur] = "none"
      BY <1>7, <2>2 DEF ReceiverSends, Loop
    <3>2. \A q \in Requests \ {cur} : Same(q)
      BY <1>7 DEF ReceiverSends
    <3>3. PICK r \in Requests : r = cur
      BY <3>1
    <3>4. pc'[r] = "none"
      BY <1>7, <3>1, <3>3 DEF ReceiverSends
    <3> QED
      BY <1>a, <3>2, <3>3, <3>4, Zenon DEF Writing
  <2> QED
    BY <2>1, <2>2
<1> QED
  BY <1>1, <1>2, <1>3, <1>4, <1>5, <1>6, <1>7, StepCases

LEMMA PipeStep == IInv /\ [Next]_vars => Pipe'
<1> SUFFICES ASSUME IInv, [Next]_vars PROVE Pipe'
  OBVIOUS
<1> USE DEF IInv, Types, Goto, recvVars, pipeVars, writerVars, readVars
<1> DEFINE Keeps(q) == /\ got'[q] = got[q] /\ bodyEnd'[q] = bodyEnd[q] /\ fed'[q] = fed[q]
                       /\ wclosed'[q] = wclosed[q] \/ (wclosed[q] = "open" /\ wclosed'[q] = "err")
                       /\ q \in inflight => q \in inflight' \/ recv' = "returned"
                       /\ q \in rclosed' => q \in rclosed \/ recv' = "returned"
                       /\ Reads(q)' => Reads(q)
                       /\ recv' \in {"closing", "returned"} \/ (recv \notin {"closing", "returned"} /\ (Busy(q)' <=> Busy(q)))
<1>a. ASSUME NEW q \in Requests, Keeps(q) PROVE PipeOf(q)'
  <2>1. PipeOf(q)
    BY Zenon DEF Pipe
  <2>2. Whole(q)' => Whole(q) /\ recv' \notin {"closing", "returned"}
    BY <1>a, Zenon DEF Whole
  <2> QED
    BY <1>a, <2>1, <2>2, Zenon DEF PipeOf
<1>b. ASSUME \A q \in Requests : Keeps(q) PROVE Pipe'
  BY <1>a, <1>b, Zenon DEF Pipe
<1>c. ASSUME NEW r \in Requests, \A q \in Requests \ {r} : Keeps(q), PipeOf(r)' PROVE Pipe'
  BY <1>a, <1>c, Zenon DEF Pipe
<1>d. \A r \in Requests : PipeOf(r) /\ Len(got[r]) \in Nat /\ BodyFrames[r] \in Nat
  BY SessionAssumption DEF Pipe
<1> HIDE DEF Pipe
<1>1. ASSUME NEW r \in Requests, RequestStart(r) PROVE Pipe'
  <2>1. \A q \in Requests \ {r} : Keeps(q)
    BY <1>1 DEF RequestStart, Receiving, Reads, Busy
  <2>2. /\ got'[r] = <<>> /\ bodyEnd'[r] = "no" /\ wclosed'[r] = "open" /\ r \notin rclosed' /\ r \in inflight'
        /\ fed'[r] = 1 /\ recv' = "recv"
    BY <1>1 DEF RequestStart, Receiving, Fresh
  <2>3. Len(<<>>) = 0 /\ \A i \in 1 .. 0 : FALSE
    OBVIOUS
  <2>4. PipeOf(r)'
    <3> HIDE DEF IInv, Types
    <3>1. ~Busy(r)' /\ BodyFrames[r] \in Nat
      BY <1>d, <2>2 DEF Busy
    <3> QED
      BY <2>2, <2>3, <3>1 DEF PipeOf
  <2> QED
    BY <1>c, <2>1, <2>4
<1>2. ASSUME NEW r \in Requests, BadRequest(r) PROVE Pipe'
  <2>1. \A q \in Requests \ {r} : Keeps(q)
    BY <1>2 DEF BadRequest, Receiving, Reads, Busy
  <2>2. pc'[r] = "none" /\ UNCHANGED <<got, bodyEnd, wclosed>>
    BY <1>2, Zenon DEF BadRequest, Receiving, Fresh
  <2>3. PipeOf(r)'
    BY <1>d, <2>2, Zenon DEF PipeOf, Whole, Reads
  <2> QED
    BY <1>c, <2>1, <2>3
<1>3. ASSUME NEW r \in Requests, RequestBody(r) PROVE Pipe'
  <2>1. \A q \in Requests \ {r} : Keeps(q)
    BY <1>3 DEF RequestBody, Receiving, Reads, Busy
  <2>2. UNCHANGED <<pc, got, bodyEnd, wclosed, inflight, rclosed>> /\ recv = "recv"
    BY <1>3 DEF RequestBody, Receiving
  <2>3. fed[r] \in 1 .. BodyFrames[r] /\ fed'[r] = fed[r] + 1
    BY <1>3 DEF RequestBody, Receiving
  <2>4. r \in inflight => recv' = "write" /\ cur' = r
    BY <1>3 DEF RequestBody
  <2>5. Whole(r)' => Whole(r)
    BY <2>2, Zenon DEF Whole, Reads
  <2>6. Whole(r)' => /\ r \in inflight /\ r \notin rclosed /\ Busy(r)'
                     /\ fed'[r] \in 1 .. BodyFrames[r] + 1 /\ fed'[r] = Len(got[r]) + 2
    <3> HIDE DEF IInv, Types
    <3>1. Whole(r) => ~Busy(r) /\ r \in inflight /\ r \notin rclosed /\ fed[r] = Len(got[r]) + 1
      BY <1>d, <2>2 DEF PipeOf, Busy
    <3>2. fed'[r] \in 1 .. BodyFrames[r] + 1
      BY <1>d, <2>3
    <3>3. Whole(r)' => fed'[r] = Len(got[r]) + 2
      BY <1>d, <2>3, <2>5, <3>1
    <3> QED
      BY <2>4, <2>5, <3>1, <3>2, <3>3, Zenon DEF Busy
  <2>7. PipeOf(r)'
    BY <1>d, <2>2, <2>6 DEF PipeOf, Reads
  <2> QED
    BY <1>c, <2>1, <2>7
<1>4. ASSUME NEW r \in Requests, RequestEnd(r) \/ CancelRequest(r) PROVE Pipe'
  <2>1. /\ UNCHANGED <<pc, got, bodyEnd, inflight, rclosed, recv, cur>> /\ recv = "recv"
        /\ fed' = [fed EXCEPT ![r] = fed[r] + 1]
    BY <1>4, Zenon DEF RequestEnd, CancelRequest, Receiving
  <2>2. \A q \in Requests \ {r} : wclosed'[q] = wclosed[q]
    BY <1>4 DEF RequestEnd, CancelRequest, CloseWriteEnd
  <2>3. \A q \in Requests \ {r} : Keeps(q)
    BY <2>1, <2>2 DEF Reads, Busy
  <2>4. ~Whole(r)'
    <3>1. SUFFICES ASSUME Whole(r)' PROVE FALSE
      OBVIOUS
    <3>2. wclosed[r] = "open" /\ r \notin inflight
      BY <1>4, <3>1 DEF RequestEnd, CancelRequest, CloseWriteEnd, Whole
    <3>3. Whole(r)
      BY <2>1, <3>1, <3>2 DEF Whole, Reads
    <3> QED
      BY <1>d, <3>2, <3>3 DEF PipeOf
  <2>5. CASE wclosed[r] = "open" /\ Reads(r)
    <3>1. Whole(r) /\ ~Busy(r)
      BY <2>1, <2>5 DEF Whole, Busy
    <3>2. fed[r] = Len(got[r]) + 1 /\ fed[r] \in 1 .. BodyFrames[r] + 1
      BY <1>d, <3>1, Zenon DEF PipeOf
    <3>3. Len(got[r]) = BodyFrames[r] \/ wclosed'[r] # "eof"
      <4>1. CASE RequestEnd(r)
        <5>1. fed[r] = BodyFrames[r] + 1
          BY <4>1 DEF RequestEnd, Receiving
        <5>2. Len(got[r]) \in Nat /\ BodyFrames[r] \in Nat
          BY <1>d, Zenon
        <5>3. \A m, n \in Nat : m + 1 = n + 1 => m = n
          OBVIOUS
        <5>4. Len(got[r]) + 1 = BodyFrames[r] + 1
          BY <3>2, <5>1, Zenon
        <5> QED
          BY <5>2, <5>3, <5>4, Zenon
      <4>2. CASE CancelRequest(r)
        BY <2>5, <4>2 DEF CancelRequest, CloseWriteEnd
      <4> QED
        BY <1>4, <4>1, <4>2
    <3>4. bodyEnd[r] # "eof"
      BY <1>d, <2>5, Zenon DEF PipeOf
    <3>5. PipeOf(r)'
      BY <1>d, <2>1, <2>4, <3>3, <3>4, Zenon DEF PipeOf
    <3> QED
      BY <1>c, <2>3, <3>5
  <2>6. CASE wclosed[r] # "open"
    <3>1. wclosed'[r] = wclosed[r]
      BY <1>4, <2>6, Zenon DEF RequestEnd, CancelRequest, CloseWriteEnd
    <3>2. PipeOf(r)'
      BY <1>d, <2>1, <2>4, <3>1, Zenon DEF PipeOf, Reads
    <3> QED
      BY <1>c, <2>3, <3>2
  <2>7. CASE wclosed[r] = "open" /\ ~Reads(r)
    <3>1. PipeOf(r)'
      BY <1>d, <2>1, <2>4, <2>7 DEF PipeOf, Reads
    <3> QED
      BY <1>c, <2>3, <3>1
  <2> QED
    BY <2>5, <2>6, <2>7, Zenon
<1>5. ASSUME NEW r \in Requests, Calls(r) PROVE Pipe'
  <2>1. pc[r] = "run" /\ pc' = [pc EXCEPT ![r] = "send"]
    BY <1>5, Zenon DEF Calls, WriteHeader, Write, Finish, Fail, Call
  <2>2. UNCHANGED <<recv, cur, fed, inflight, wclosed, rclosed, got, bodyEnd>>
    BY <1>5 DEF Calls, WriteHeader, Write, Finish, Fail, Call
  <2> QED
    BY <1>b, <2>1, <2>2, Zenon DEF Reads, Busy
<1>6. ASSUME NEW r \in Requests, Others(r) PROVE Pipe'
  <2>1. UNCHANGED <<recv, cur, fed, got>>
    BY <1>6, LocalStep
  <2>2. CASE HandlerWaits(r) \/ ContextEnds(r)
    <3>1. /\ pc[r] \in {"run", "waiting"} /\ \A q \in Requests \ {r} : pc'[q] = pc[q]
          /\ UNCHANGED <<inflight, wclosed, rclosed, bodyEnd>>
      BY <2>2, Zenon DEF HandlerWaits, ContextEnds
    <3>2. ASSUME NEW q \in Requests PROVE Reads(q)' => Reads(q)
      BY <3>1, Zenon DEF Reads
    <3> QED
      BY <1>b, <2>1, <3>1, <3>2, Zenon DEF Busy
  <2>3. CASE ReadEnds(r)
    <3>1. \A q \in Requests \ {r} : Keeps(q)
      BY <2>1, <2>3 DEF ReadEnds, Reads, Busy
    <3>2. Reads(r) /\ UNCHANGED <<inflight, wclosed, rclosed>>
      BY <2>3 DEF ReadEnds, Reads
    <3>3. bodyEnd'[r] = "eof" => wclosed[r] = "eof"
      BY <2>3 DEF ReadEnds
    <3>4. Whole(r)' => Whole(r)
      BY <2>1, <3>2, Zenon DEF Whole
    <3>5. PipeOf(r)'
      BY <1>d, <2>1, <3>2, <3>3, <3>4, Zenon DEF PipeOf, Busy
    <3> QED
      BY <1>c, <3>1, <3>5
  <2>4. CASE CloseRequest(r) \/ DeleteRequest(r)
    <3>1. \A q \in Requests \ {r} : Keeps(q)
      BY <2>1, <2>4, Zenon DEF CloseRequest, DeleteRequest, Reads, Busy
    <3>2. ~Reads(r)' /\ UNCHANGED <<wclosed, bodyEnd>>
      BY <2>4, Zenon DEF CloseRequest, DeleteRequest, Reads
    <3>3. PipeOf(r)'
      BY <1>d, <2>1, <3>2, Zenon DEF PipeOf, Whole
    <3> QED
      BY <1>c, <3>1, <3>3
  <2> QED
    BY <1>6, <2>2, <2>3, <2>4 DEF Others
<1>7. ASSUME NEW r \in Requests, HandlerLocks(r) \/ HandlerSends(r) PROVE Pipe'
  <2>1. /\ UNCHANGED <<recv, cur, fed, inflight, wclosed, rclosed, got, bodyEnd>>
        /\ \A q \in Requests \ {r} : pc'[q] = pc[q]
    BY <1>7, Zenon DEF HandlerLocks, HandlerSends
  <2>2. pc[r] = "send"
    BY <1>7 DEF HandlerLocks, HandlerSends, Loop
  <2>3. ASSUME NEW q \in Requests PROVE Reads(q)' => Reads(q)
    BY <2>1, <2>2, Zenon DEF Reads
  <2> QED
    BY <1>b, <2>1, <2>3, Zenon DEF Busy
<1>8. ASSUME NEW r \in Requests, ReadChunk(r) PROVE Pipe'
  <2>1. \A q \in Requests \ {r} : Keeps(q)
    BY <1>8, Zenon DEF ReadChunk, Reads, Busy
  <2>2. Whole(r) /\ Busy(r)
    BY <1>8, Zenon DEF ReadChunk, Broken, Whole, Reads, Busy
  <2>3. fed[r] \in 1 .. BodyFrames[r] + 1 /\ fed[r] = Len(got[r]) + 2 /\ r \in inflight /\ r \notin rclosed
    BY <1>d, <2>2, Zenon DEF PipeOf
  <2>4. /\ got'[r] = Append(got[r], fed[r] - 1) /\ UNCHANGED <<fed, inflight, wclosed, rclosed, bodyEnd>>
        /\ recv' = "recv"
    BY <1>8, Zenon DEF ReadChunk
  <2>5. Len(got'[r]) = Len(got[r]) + 1 /\ \A i \in 1 .. Len(got'[r]) : got'[r][i] = i
    <3> DEFINE g == got[r]
               x == fed[r] - 1
    <3>1. g \in Seq(Int) /\ x \in Int
      OBVIOUS
    <3>2. x = Len(g) + 1 /\ \A i \in 1 .. Len(g) : g[i] = i
      BY <1>d, <2>3 DEF PipeOf
    <3> HIDE DEF g, x
    <3>3. Len(Append(g, x)) = Len(g) + 1 /\ \A i \in 1 .. Len(g) + 1 : Append(g, x)[i] = i
      BY <3>1, <3>2
    <3> QED
      BY <2>4, <3>3 DEF g, x
  <2>6. wclosed[r] = "open" /\ bodyEnd[r] # "eof"
    BY <1>d, <2>2 DEF Whole, PipeOf
  <2> HIDE DEF IInv, Types
  <2>7. fed[r] = Len(got'[r]) + 1 /\ ~Busy(r)'
    <3>1. fed[r] = Len(got'[r]) + 1
      BY <1>d, <2>3, <2>5
    <3> QED
      BY <2>4, <3>1, Zenon DEF Busy
  <2>8. PipeOf(r)'
    BY <2>3, <2>4, <2>5, <2>6, <2>7, Zenon DEF PipeOf
  <2> QED
    BY <1>c, <2>1, <2>8, Zenon
<1>9. CASE BodyWriteFails
  <2>1. UNCHANGED <<fed, inflight, wclosed, rclosed, got, bodyEnd, pc>> /\ recv' = "recv"
    BY <1>9, Zenon DEF BodyWriteFails
  <2>2. cur \in Requests /\ Broken(cur) /\ recv = "write"
    BY <1>9 DEF BodyWriteFails, Loop
  <2>3. PICK r \in Requests : r = cur
    BY <2>2
  <2>4. \A q \in Requests \ {r} : Keeps(q)
    BY <2>1, <2>2, <2>3, Zenon DEF Reads, Busy
  <2>5. ~Whole(r)
    BY <1>d, <2>2, <2>3, Zenon DEF PipeOf, Broken, Whole
  <2>6. PipeOf(r)'
    BY <1>d, <2>1, <2>2, <2>5, Zenon DEF PipeOf, Whole, Reads
  <2> QED
    BY <1>c, <2>4, <2>6
<1>10. ASSUME CleanUp, UNCHANGED <<fed, pc, got, bodyEnd>> PROVE Pipe'
  <2>1. \A q \in Requests : wclosed'[q] = wclosed[q] \/ (wclosed[q] = "open" /\ wclosed'[q] = "err")
    BY <1>10 DEF CleanUp, CloseWriteEnd, errSessionEnded
  <2> QED
    BY <1>10, <1>b, <2>1 DEF CleanUp, Reads
<1>11. CASE StreamEnds
  BY <1>10, <1>11, Zenon DEF StreamEnds
<1>12. CASE CloseReadEnds
  BY <1>b, <1>12, Zenon DEF CloseReadEnds, Reads
<1>13. CASE ReceiverLocks \/ Ping \/ StreamFails \/ UNCHANGED vars
  BY <1>b, <1>13 DEF ReceiverLocks, Ping, StreamFails, vars, Reads, Busy
<1>14. CASE ReceiverSends
  <2>1. recv = "send" /\ UNCHANGED <<fed, pc, got, bodyEnd>>
    BY <1>14 DEF ReceiverSends, Loop
  <2>2. CASE CleanUp
    BY <1>10, <2>1, <2>2, Zenon
  <2>3. CASE recv' = "recv" /\ UNCHANGED <<inflight, pipeVars>>
    BY <1>b, <2>1, <2>3 DEF Reads, Busy
  <2> QED
    BY <1>14, <2>2, <2>3, Zenon DEF ReceiverSends
<1> QED
  BY <1>1, <1>2, <1>3, <1>4, <1>5, <1>6, <1>7, <1>8, <1>9, <1>11, <1>12, <1>13, <1>14, StepCases DEF Frame

LEMMA CountedStep == IInv /\ [Next]_vars => Counted'
<1> SUFFICES ASSUME IInv, [Next]_vars PROVE Counted'
  OBVIOUS
<1> USE DEF Goto, recvVars, pipeVars, writerVars, readVars
<1>t. /\ fed \in [Requests -> Nat] /\ got \in [Requests -> Seq(Int)]
      /\ wclosed \in [Requests -> {"open", "eof", "err"}]
  BY DEF IInv, Types
<1>n. \A q \in Requests : fed[q] \in Nat /\ Len(got[q]) \in Nat /\ BodyFrames[q] \in Nat /\ CountedOf(q)
  BY <1>t, SessionAssumption DEF IInv, Counted
<1> DEFINE Keeps(q) == /\ got'[q] = got[q]
                       /\ fed'[q] = fed[q] \/ fed'[q] = fed[q] + 1
                       /\ wclosed'[q] = wclosed[q] \/ wclosed'[q] = "err"
<1>a. ASSUME NEW q \in Requests, Keeps(q) PROVE CountedOf(q)'
  <2>1. fed[q] \in Nat /\ Len(got[q]) \in Nat /\ BodyFrames[q] \in Nat /\ CountedOf(q)
    BY <1>n
  <2>2. fed'[q] \in Nat /\ fed'[q] >= fed[q]
    BY <1>a, <2>1
  <2>3. wclosed'[q] = "eof" => wclosed[q] = "eof"
    BY <1>a, Zenon
  <2> QED
    BY <1>a, <2>1, <2>2, <2>3 DEF CountedOf
<1>b. ASSUME \A q \in Requests : Keeps(q) PROVE Counted'
  BY <1>a, <1>b DEF Counted
<1>1. ASSUME NEW r \in Requests, RequestStart(r) \/ BadRequest(r) \/ RequestBody(r) PROVE Counted'
  <2>1. UNCHANGED <<got, wclosed>> /\ fed' = [fed EXCEPT ![r] = fed[r] + 1]
    BY <1>1, Zenon DEF RequestStart, BadRequest, RequestBody, Receiving
  <2>2. \A q \in Requests : fed'[q] = fed[q] \/ fed'[q] = fed[q] + 1
    BY <1>t, <2>1
  <2>3. \A q \in Requests : Keeps(q)
    BY <2>1, <2>2, Zenon
  <2> QED
    BY <1>b, <2>3, Zenon
<1>2. ASSUME NEW r \in Requests, RequestEnd(r) PROVE Counted'
  <2>1. UNCHANGED got /\ fed' = [fed EXCEPT ![r] = BodyFrames[r] + 2] /\ fed[r] = BodyFrames[r] + 1
    <3>1. UNCHANGED got /\ fed' = [fed EXCEPT ![r] = fed[r] + 1] /\ fed[r] = BodyFrames[r] + 1
      BY <1>2 DEF RequestEnd, Receiving
    <3>2. \A n \in Nat : n + 1 + 1 = n + 2
      OBVIOUS
    <3>3. fed[r] + 1 = BodyFrames[r] + 2
      BY <1>n, <3>1, <3>2, Zenon
    <3> QED
      BY <3>1, <3>3, Zenon
  <2>2. \A q \in Requests \ {r} : wclosed'[q] = wclosed[q]
    BY <1>2, <1>t, Zenon DEF RequestEnd, CloseWriteEnd
  <2>3. \A q \in Requests \ {r} : Keeps(q)
    BY <1>t, <2>1, <2>2
  <2>4. fed'[r] = BodyFrames[r] + 2 /\ got'[r] = got[r]
    BY <1>t, <2>1, Zenon
  <2>5. CountedOf(r)'
    BY <1>n, <2>1, <2>4 DEF CountedOf
  <2> QED
    BY <1>a, <2>3, <2>5, Zenon DEF Counted
<1>3. ASSUME NEW r \in Requests, CancelRequest(r) PROVE Counted'
  <2>1. UNCHANGED got /\ fed' = [fed EXCEPT ![r] = fed[r] + 1]
    BY <1>3, Zenon DEF CancelRequest, Receiving
  <2>2. \A q \in Requests : wclosed'[q] = wclosed[q] \/ wclosed'[q] = "err"
    BY <1>3, <1>t DEF CancelRequest, CloseWriteEnd
  <2>3. \A q \in Requests : fed'[q] = fed[q] \/ fed'[q] = fed[q] + 1
    BY <1>t, <2>1
  <2>4. \A q \in Requests : Keeps(q)
    BY <2>1, <2>2, <2>3, Zenon
  <2> QED
    BY <1>b, <2>4, Zenon
<1>4. ASSUME NEW r \in Requests, ReadChunk(r) PROVE Counted'
  <2>1. /\ got' = [got EXCEPT ![r] = Append(got[r], fed[r] - 1)] /\ UNCHANGED <<fed, wclosed>>
        /\ pc[r] = "reading" /\ Busy(r) /\ wclosed[r] = "open"
    BY <1>4 DEF ReadChunk, Busy, Broken
  <2>2. \A q \in Requests \ {r} : Keeps(q)
    BY <1>t, <2>1, Zenon
  <2>3. fed[r] = Len(got[r]) + 2 /\ fed[r] <= BodyFrames[r] + 1
    <3>1. PipeOf(r) /\ BodyFrames[r] \in Nat
      BY <1>n, Zenon DEF IInv, Pipe
    <3>2. Whole(r)
      BY <2>1 DEF Whole, Reads, Busy
    <3>3. fed[r] \in 1 .. BodyFrames[r] + 1 /\ fed[r] = Len(got[r]) + 2
      BY <2>1, <3>1, <3>2, Zenon DEF PipeOf
    <3> QED
      BY <3>1, <3>3
  <2>4. got'[r] = Append(got[r], fed[r] - 1) /\ Len(got'[r]) = Len(got[r]) + 1
    BY <1>t, <2>1
  <2>5. CountedOf(r)'
    BY <1>n, <2>1, <2>3, <2>4 DEF CountedOf
  <2> QED
    BY <1>a, <2>2, <2>5 DEF Counted
<1>5. ASSUME NEW r \in Requests, Calls(r) \/ Others(r) PROVE Counted'
  <2>1. UNCHANGED <<fed, got>>
    BY <1>5, LocalStep, Zenon
  <2>2. UNCHANGED wclosed
    BY <1>5, Zenon DEF Calls, WriteHeader, Write, Finish, Fail, Call, Others, HandlerWaits, ReadEnds, ContextEnds,
                CloseRequest, DeleteRequest
  <2> QED
    BY <1>b, <2>1, <2>2
<1>6. ASSUME NEW r \in Requests, HandlerLocks(r) \/ HandlerSends(r) PROVE Counted'
  <2>1. UNCHANGED <<fed, got, wclosed>>
    BY <1>6, Zenon DEF HandlerLocks, HandlerSends
  <2> QED
    BY <1>b, <2>1, Zenon
<1>7. CASE BodyWriteFails \/ CloseReadEnds \/ ReceiverLocks \/ Ping \/ StreamFails \/ UNCHANGED vars
  <2>1. UNCHANGED <<fed, got, wclosed>>
    BY <1>7 DEF BodyWriteFails, CloseReadEnds, ReceiverLocks, Ping, StreamFails, vars
  <2> QED
    BY <1>b, <2>1, Zenon
<1>8. CASE StreamEnds \/ ReceiverSends
  <2>1. UNCHANGED <<fed, got>>
    BY <1>8, Zenon DEF StreamEnds, ReceiverSends
  <2>2. \A q \in Requests : wclosed'[q] = wclosed[q] \/ wclosed'[q] = "err"
    BY <1>8, <1>t DEF StreamEnds, ReceiverSends, CleanUp, CloseWriteEnd, errSessionEnded
  <2> QED
    BY <1>b, <2>1, <2>2
<1> QED
  BY <1>1, <1>2, <1>3, <1>4, <1>5, <1>6, <1>7, <1>8, StepCases DEF Frame

-----------------------------------------------------------------------------
LEMMA IInvStep == IInv /\ [Next]_vars => IInv'
BY TypesStep, LoopStep, FreshStep, WriterStep, PipeStep, CountedStep DEF IInv

(* The invariant holds in every state of a session: of the mutex, the response
   writer of tunnelResponseWriter and the body pipe that runSession and
   serveRequest share. *)
THEOREM SessionInvariance == Spec => []IInv
BY IInvStep, InitIInv, PTL DEF Spec

(* A handler that reads io.EOF from the pipe of serveRequest has read every chunk
   of the body, in order; CancelRequest and the clean-up of runSession end the
   body with an error. *)
THEOREM EOFIsTrue == Spec => []NoFalseEOF
<1>1. IInv => NoFalseEOF
  <2> SUFFICES ASSUME IInv, NEW r \in Requests
               PROVE  /\ got[r] = [i \in 1 .. Len(got[r]) |-> i]
                      /\ bodyEnd[r] = "eof" => Len(got[r]) = BodyFrames[r]
    BY Zenon DEF NoFalseEOF
  <2>1. PipeOf(r) /\ got[r] \in Seq(Int)
    BY DEF IInv, Pipe, Types
  <2>2. ASSUME NEW g \in Seq(Int), \A i \in 1 .. Len(g) : g[i] = i
        PROVE  g = [i \in 1 .. Len(g) |-> i]
    BY <2>2
  <2> QED
    BY <2>1, <2>2, Zenon DEF PipeOf
<1> QED
  BY <1>1, SessionInvariance, PTL

LEMMA SentStep == IInv /\ [Next]_vars => [Protocol!Next]_sent
<1> SUFFICES ASSUME IInv, [Next]_vars PROVE [Protocol!Next]_sent
  OBVIOUS
<1> USE DEF recvVars, pipeVars, writerVars, readVars
<1>1. ASSUME NEW r \in Requests, HandlerSends(r) PROVE [Protocol!Next]_sent
  <2>1. CASE stream # "up"
    BY <1>1, <2>1 DEF HandlerSends
  <2>2. CASE stream = "up"
    <3>1. Continues(r)
      BY <1>1, <2>2, Zenon DEF HandlerSends, IInv, Loop, Writer, Writing
    <3>2. sent' = [sent EXCEPT ![r] = Head(todo[r])]
      BY <1>1, <2>2, Zenon DEF HandlerSends
    <3>3. Protocol!Start(r) \/ Protocol!Body(r) \/ Protocol!End(r) \/ Protocol!Error(r)
      BY <3>1, <3>2, NextFrame, Zenon DEF Open, Protocol!Start, Protocol!Body, Protocol!End, Protocol!Error, Protocol!Send
    <3> QED
      BY <3>3, Zenon DEF Protocol!Next
  <2> QED
    BY <2>1, <2>2, Zenon
<1>2. CASE ReceiverSends
  <2>1. CASE stream = "up" /\ cur # NoOne
    <3>1. cur \in Requests /\ sent[cur] = "none"
      BY <1>2, <2>1 DEF ReceiverSends, IInv, Types, Loop
    <3>2. Protocol!Error(cur)
      BY <1>2, <2>1, <3>1 DEF ReceiverSends, Protocol!Error, Protocol!Send
    <3> QED
      BY <3>1, <3>2 DEF Protocol!Next
  <2>2. CASE ~(stream = "up" /\ cur # NoOne)
    BY <1>2, <2>2 DEF ReceiverSends
  <2> QED
    BY <2>1, <2>2
<1>3. ASSUME NEW r \in Requests, Calls(r) \/ Others(r) PROVE UNCHANGED sent
  BY <1>3, LocalStep, Zenon
<1>4. ASSUME NEW r \in Requests, Frame(r) \/ HandlerLocks(r) \/ ReadChunk(r) PROVE UNCHANGED sent
  BY <1>4, Zenon DEF Frame, RequestStart, BadRequest, RequestBody, RequestEnd, CancelRequest, HandlerLocks, ReadChunk
<1>5. CASE BodyWriteFails \/ StreamEnds \/ CloseReadEnds \/ ReceiverLocks \/ Ping \/ StreamFails \/ UNCHANGED vars
  BY <1>5 DEF BodyWriteFails, StreamEnds, CloseReadEnds, ReceiverLocks, Ping, StreamFails, vars
<1> QED
  BY <1>1, <1>2, <1>3, <1>4, <1>5, StepCases

(* A session implements ResponseProtocol: whatever the handlers of serveRequest
   do and wherever the stream breaks, the frames of a response are ResponseStart,
   ResponseBody any number of times, and one terminal frame. *)
THEOREM FramesKeepProtocol == Spec => KeepsProtocol
<1>1. Init => Protocol!Init
  BY DEF Init, Protocol!Init
<1> QED
  BY <1>1, SentStep, SessionInvariance, PTL DEF Spec, KeepsProtocol, Protocol!Spec

-----------------------------------------------------------------------------
(* A goroutine of serveRequest is registered until it is done, is told of a
   cancellation, and has ended its response when it closes the body; the loop
   leaves only a lost stream. *)
ServedOf(r) ==
  /\ pc[r] \in {"delete", "done"} => r \in rclosed
  /\ recv # "returned" /\ pc[r] \notin {"none", "done"} => r \in inflight
  /\ fed[r] >= BodyFrames[r] + 3 /\ pc[r] \notin {"none", "done"} => r \in ctxDone
  /\ stream = "up" /\ pc[r] \in {"close", "delete", "done"} => sent[r] \in {"ResponseEnd", "ResponseError"}

Served ==
  /\ sendMu \in Requests \cup {NoOne, Receiver}
  /\ stream = "up" => recv \in {"recv", "write", "send"}
  /\ \A r \in Requests : ServedOf(r)

LEMMA InitServed == Init => Served
BY SessionAssumption DEF Init, Served, ServedOf

LEMMA ServedStep == IInv /\ Served /\ [Next]_vars => Served'
<1> SUFFICES ASSUME IInv, Served, [Next]_vars PROVE Served'
  OBVIOUS
<1> USE DEF Goto, recvVars, pipeVars, writerVars, readVars
<1>0. /\ Types /\ Loop /\ Fresh /\ Writer
      /\ sendMu \in Requests \cup {NoOne, Receiver}
      /\ stream = "up" => recv \in {"recv", "write", "send"}
      /\ stream' = "up" => stream = "up"
  BY StreamStep DEF IInv, Served
<1>00. \A q \in Requests : ServedOf(q)
  BY DEF Served
<1>01. \A q \in Requests : fed[q] \in Nat /\ BodyFrames[q] \in Nat
  BY <1>0, SessionAssumption DEF Types
<1>1. ASSUME NEW r \in Requests, Frame(r) PROVE Served'
  <2>1. /\ recv = "recv" /\ stream = "up" /\ recv' \in {"recv", "write", "send"}
        /\ UNCHANGED <<stream, sendMu, rclosed, sent>>
        /\ inflight \subseteq inflight' /\ ctxDone \subseteq ctxDone'
    BY <1>1, Zenon DEF Frame, RequestStart, BadRequest, RequestBody, RequestEnd, CancelRequest, Receiving
  <2>2. fed' = [fed EXCEPT ![r] = @ + 1] /\ (fed[r] = BodyFrames[r] + 2 \/ fed[r] <= BodyFrames[r] + 1)
    BY <1>01, <1>1 DEF Frame, RequestStart, BadRequest, RequestBody, RequestEnd, CancelRequest, Receiving
  <2>3. \/ pc' = pc
        \/ pc' = [pc EXCEPT ![r] = "run"] /\ r \in inflight' /\ fed[r] = 0
    BY <1>1, Zenon DEF Frame, RequestStart, BadRequest, RequestBody, RequestEnd, CancelRequest, Receiving
  <2>4. fed[r] = BodyFrames[r] + 2 /\ r \in inflight => r \in ctxDone'
    BY <1>01, <1>1 DEF Frame, RequestStart, BadRequest, RequestBody, RequestEnd, CancelRequest, Receiving
  <2>5. ASSUME NEW q \in Requests PROVE ServedOf(q)'
    <3>1. ServedOf(q)
      BY <1>00
    <3>2. fed'[q] = IF q = r THEN fed[r] + 1 ELSE fed[q]
      BY <1>0, <2>2 DEF Types
    <3>3. \/ pc'[q] = pc[q]
          \/ q = r /\ pc'[q] = "run" /\ q \in inflight' /\ fed[r] = 0
      <4>1. pc \in [Requests -> HandlerStates]
        BY <1>0 DEF Types
      <4>2. CASE pc' = pc
        BY <4>2, Zenon
      <4>3. CASE pc' = [pc EXCEPT ![r] = "run"] /\ r \in inflight' /\ fed[r] = 0
        BY <4>1, <4>3
      <4> QED
        BY <2>3, <4>2, <4>3, Zenon
    <3>4. /\ pc'[q] \in {"delete", "done"} => q \in rclosed'
          /\ recv' # "returned" /\ pc'[q] \notin {"none", "done"} => q \in inflight'
          /\ stream' = "up" /\ pc'[q] \in {"close", "delete", "done"} => sent'[q] \in {"ResponseEnd", "ResponseError"}
      BY <2>1, <3>1, <3>3, Zenon DEF ServedOf
    <3>5. fed'[q] >= BodyFrames[q] + 3 /\ pc'[q] \notin {"none", "done"} => q \in ctxDone'
      <4>1. CASE q # r
        <5>1. fed'[q] = fed[q] /\ pc'[q] = pc[q]
          BY <3>2, <3>3, <4>1, Zenon
        <5>2. q \in ctxDone => q \in ctxDone'
          BY <2>1, Zenon
        <5> QED
          BY <3>1, <5>1, <5>2, Zenon DEF ServedOf
      <4>2. CASE q = r
        <5> SUFFICES ASSUME fed'[q] >= BodyFrames[q] + 3, pc'[q] \notin {"none", "done"} PROVE q \in ctxDone'
          OBVIOUS
        <5>1. fed[r] = BodyFrames[r] + 2
          BY <1>01, <2>2, <3>2, <4>2
        <5>2. r \in inflight
          BY <1>01, <2>1, <3>1, <3>3, <4>2, <5>1 DEF ServedOf
        <5> QED
          BY <2>4, <4>2, <5>1, <5>2, Zenon
      <4> QED
        BY <4>1, <4>2, Zenon
    <3> QED
      BY <3>4, <3>5 DEF ServedOf
  <2> QED
    BY <1>0, <2>1, <2>5, Zenon DEF Served
<1>2. ASSUME NEW r \in Requests, NEW l, pc' = [pc EXCEPT ![r] = l],
             l = "done" => pc[r] = "delete",
             l = "delete" => pc[r] = "close" /\ r \in rclosed',
             l = "close" => (stream = "up" => sent'[r] \in {"ResponseEnd", "ResponseError"}),
             l # "none", pc[r] \notin {"none", "done"},
             inflight' = inflight \/ (inflight' = inflight \ {r} /\ l = "done"),
             ctxDone \subseteq ctxDone', rclosed \subseteq rclosed',
             sent' = sent \/ pc[r] \notin {"close", "delete"},
             \A q \in Requests : q # r => sent'[q] = sent[q],
             UNCHANGED <<fed, stream>>,
             recv' = recv \/ (stream = "up" /\ recv = "write" /\ recv' = "recv"),
             sendMu' \in {sendMu, NoOne, r}
      PROVE  Served'
  <2>1. ASSUME NEW q \in Requests PROVE ServedOf(q)'
    <3>1. CASE q # r
      <4>1. pc'[q] = pc[q] /\ sent'[q] = sent[q] /\ fed'[q] = fed[q] /\ (q \in inflight' <=> q \in inflight)
        BY <1>0, <1>2, <3>1, Zenon DEF Types
      <4>2. recv' # "returned" => recv # "returned"
        BY <1>2, Zenon
      <4> QED
        BY <1>00, <1>2, <4>1, <4>2, Zenon DEF ServedOf
    <3>2. CASE q = r
      <4>1. pc'[q] = l
        BY <1>0, <1>2, <3>2, Zenon DEF Types
      <4>2. ServedOf(q) /\ (recv' # "returned" => recv # "returned") /\ fed'[q] = fed[q]
        BY <1>00, <1>2, Zenon
      <4>3. l # "done" => inflight' = inflight
        BY <1>2
      <4>4. l \in {"done", "delete"} => pc[q] \in {"close", "delete"} /\ sent' = sent /\ q \in rclosed'
        BY <1>2, <3>2, <4>2, Zenon DEF ServedOf
      <4>5. stream' = stream /\ ctxDone \subseteq ctxDone' /\ pc[q] \notin {"none", "done"}
        BY <1>2, <3>2, Zenon
      <4>6. l = "close" => (stream = "up" => sent'[q] \in {"ResponseEnd", "ResponseError"})
        BY <1>2, <3>2, Zenon
      <4> QED
        BY <4>1, <4>2, <4>3, <4>4, <4>5, <4>6, Zenon DEF ServedOf
    <3> QED
      BY <3>1, <3>2
  <2> QED
    BY <1>0, <1>2, <2>1, Zenon DEF Served
<1>3. ASSUME NEW r \in Requests, Calls(r) PROVE Served'
  <2>1. /\ UNCHANGED <<recv, fed, stream, inflight, ctxDone, rclosed, sendMu, sent>>
        /\ pc[r] = "run" /\ pc' = [pc EXCEPT ![r] = "send"]
    BY <1>3, Zenon DEF Calls, WriteHeader, Write, Finish, Fail, Call
  <2> QED
    BY <1>2, <2>1, Zenon
<1>4. ASSUME NEW r \in Requests, HandlerWaits(r) \/ ReadEnds(r) \/ ContextEnds(r) PROVE Served'
  <2>1. /\ UNCHANGED <<recv, fed, stream, inflight, ctxDone, rclosed, sendMu, sent>>
        /\ pc[r] \in {"run", "reading", "waiting"}
        /\ \E l \in {"run", "reading", "waiting"} : pc' = [pc EXCEPT ![r] = l]
    BY <1>4, Zenon DEF HandlerWaits, ReadEnds, ContextEnds
  <2> QED
    BY <1>2, <2>1, Zenon
<1>5. ASSUME NEW r \in Requests, CloseRequest(r) \/ DeleteRequest(r) PROVE Served'
  <2>1. CASE CloseRequest(r)
    BY <1>2, <2>1, Zenon DEF CloseRequest
  <2>2. CASE DeleteRequest(r)
    BY <1>2, <2>2, Zenon DEF DeleteRequest
  <2> QED
    BY <1>5, <2>1, <2>2
<1>6. ASSUME NEW r \in Requests, HandlerLocks(r) PROVE Served'
  <2>1. /\ UNCHANGED <<recv, fed, stream, inflight, ctxDone, rclosed, sent, pc>> /\ sendMu' = r
    BY <1>6, Zenon DEF HandlerLocks
  <2> QED
    BY <1>0, <1>00, <2>1 DEF Served, ServedOf
<1>7. ASSUME NEW r \in Requests, HandlerSends(r) PROVE Served'
  <2>1. pc[r] = "send"
    BY <1>0, <1>7 DEF HandlerSends, Loop
  <2>2. PICK l : pc' = [pc EXCEPT ![r] = l] /\ l = IF todo'[r] = <<>> THEN exit[r] ELSE "send"
    BY <1>7, Zenon DEF HandlerSends
  <2>3. exit[r] \in {"run", "close"}
    BY <1>0 DEF Types
  <2>4. l = "close" => (stream = "up" => sent'[r] \in {"ResponseEnd", "ResponseError"})
    <3> SUFFICES ASSUME l = "close", stream = "up" PROVE sent'[r] \in {"ResponseEnd", "ResponseError"}
      OBVIOUS
    <3>1. exit[r] = "close" /\ todo'[r] = <<>>
      BY <2>2, Zenon
    <3>2. sent'[r] = Head(todo[r]) /\ todo'[r] = Tail(todo[r])
      BY <1>0, <1>7, Zenon DEF HandlerSends, Types
    <3>3. Continues(r)
      BY <1>0, <2>1, Zenon DEF Writer, Writing
    <3>4. \A x : <<x>> # <<>>
      BY Zenon
    <3> QED
      BY <3>1, <3>2, <3>3, <3>4, NextFrame, Zenon
  <2>5. /\ UNCHANGED <<recv, fed, stream, inflight, ctxDone, rclosed>> /\ sendMu' = NoOne
        /\ \A q \in Requests : q # r => sent'[q] = sent[q]
    BY <1>0, <1>7 DEF HandlerSends, Types
  <2> QED
    BY <1>2, <2>1, <2>2, <2>3, <2>4, <2>5, Zenon
<1>8. ASSUME NEW r \in Requests, ReadChunk(r) PROVE Served'
  <2>1. /\ UNCHANGED <<fed, stream, inflight, ctxDone, rclosed, sendMu, sent>>
        /\ recv = "write" /\ recv' = "recv"
        /\ pc[r] = "reading" /\ pc' = [pc EXCEPT ![r] = "run"]
    BY <1>8, Zenon DEF ReadChunk
  <2>2. ASSUME NEW q \in Requests PROVE ServedOf(q)'
    BY <1>0, <1>00, <2>1 DEF Types, ServedOf
  <2> QED
    BY <1>0, <2>1, <2>2 DEF Served
<1>9. ASSUME UNCHANGED <<fed, pc, inflight, rclosed>>, ctxDone \subseteq ctxDone',
             \A q \in Requests : pc[q] # "none" => sent'[q] = sent[q],
             sendMu' \in {sendMu, NoOne, Receiver},
             recv # "returned", stream' = "up" => recv' \in {"recv", "write", "send"}
      PROVE  Served'
  <2>1. ASSUME NEW q \in Requests PROVE ServedOf(q)'
    <3>1. ServedOf(q) /\ (pc[q] # "none" => sent'[q] = sent[q]) /\ (stream' = "up" => stream = "up")
      BY <1>0, <1>00, <1>9, Zenon
    <3> QED
      BY <1>9, <3>1, Zenon DEF ServedOf
  <2> QED
    BY <1>0, <1>9, <2>1, Zenon DEF Served
<1>10. CASE BodyWriteFails \/ StreamEnds \/ ReceiverLocks \/ Ping
  <2>1. /\ UNCHANGED <<fed, pc, inflight, rclosed, sent>> /\ ctxDone \subseteq ctxDone'
        /\ sendMu' \in {sendMu, NoOne, Receiver}
        /\ recv # "returned" /\ (stream' = "up" => recv' \in {"recv", "write", "send"})
    BY <1>10 DEF BodyWriteFails, StreamEnds, CleanUp, ReceiverLocks, Ping
  <2> QED
    BY <1>9, <2>1, Zenon
<1>11. CASE ReceiverSends
  <2>1. /\ UNCHANGED <<fed, pc, inflight, rclosed>> /\ ctxDone \subseteq ctxDone' /\ sendMu' = NoOne
        /\ recv = "send" /\ (stream' = "up" => recv' \in {"recv", "write", "send"})
    BY <1>0, <1>11, Zenon DEF ReceiverSends, CleanUp, Loop
  <2>2. \A q \in Requests : pc[q] # "none" => sent'[q] = sent[q]
    BY <1>0, <1>11, <2>1, Zenon DEF ReceiverSends, Loop, Types
  <2> QED
    BY <1>9, <2>1, <2>2, Zenon
<1>12. CASE CloseReadEnds
  <2>1. /\ UNCHANGED <<fed, pc, ctxDone, sendMu, sent, stream>> /\ rclosed \subseteq rclosed'
        /\ recv = "closing" /\ recv' = "returned"
    BY <1>12 DEF CloseReadEnds
  <2>2. stream # "up"
    BY <1>0, <2>1, Zenon
  <2> QED
    BY <1>0, <1>00, <2>1, <2>2 DEF Served, ServedOf
<1>13. CASE StreamFails
  <2>1. /\ UNCHANGED <<fed, pc, inflight, rclosed, sendMu, sent, recv>> /\ stream' = "down"
        /\ ctxDone' = ctxDone \/ ctxDone' = Requests
    BY <1>13, Zenon DEF StreamFails
  <2> QED
    BY <1>0, <1>00, <2>1 DEF Served, ServedOf
<1>14. CASE UNCHANGED vars
  BY <1>0, <1>00, <1>14 DEF Served, ServedOf, vars
<1> QED
  BY <1>1, <1>3, <1>4, <1>5, <1>6, <1>7, <1>8, <1>10, <1>11, <1>12, <1>13, <1>14, StepCases,
     Zenon DEF Others

(* A started request does not go back. *)
LEMMA NeverNoneAgain ==
  ASSUME IInv, [Next]_vars, NEW r \in Requests, pc[r] # "none"
  PROVE  pc'[r] # "none"
<1> USE DEF Goto, recvVars, pipeVars, writerVars, readVars
<1>0. Types
  BY DEF IInv
<1>1. ASSUME NEW q \in Requests, NEW l, l # "none", pc' = [pc EXCEPT ![q] = l] PROVE pc'[r] # "none"
  BY <1>0, <1>1 DEF Types
<1>2. ASSUME NEW q \in Requests, Frame(q) PROVE pc' = pc \/ pc' = [pc EXCEPT ![q] = "run"]
  BY <1>2, Zenon DEF Frame, RequestStart, BadRequest, RequestBody, RequestEnd, CancelRequest
<1>3. ASSUME NEW q \in Requests, Calls(q) \/ Others(q) PROVE \E l : l # "none" /\ pc' = [pc EXCEPT ![q] = l]
  BY <1>3, LocalStep
<1>4. ASSUME NEW q \in Requests, HandlerSends(q) \/ ReadChunk(q) PROVE \E l : l # "none" /\ pc' = [pc EXCEPT ![q] = l]
  <2>1. exit[q] # "none"
    BY <1>0, Zenon DEF Types
  <2> QED
    BY <1>4, <2>1, Zenon DEF HandlerSends, ReadChunk
<1>5. ASSUME NEW q \in Requests, HandlerLocks(q) PROVE pc' = pc
  BY <1>5, Zenon DEF HandlerLocks
<1>6. CASE BodyWriteFails \/ StreamEnds \/ CloseReadEnds \/ ReceiverLocks \/ ReceiverSends \/ Ping \/ StreamFails \/ UNCHANGED vars
  BY <1>6, Zenon DEF BodyWriteFails, StreamEnds, CloseReadEnds, ReceiverLocks, ReceiverSends, Ping, StreamFails, vars
<1> QED
  BY <1>1, <1>2, <1>3, <1>4, <1>5, <1>6, StepCases, Zenon
=============================================================================
