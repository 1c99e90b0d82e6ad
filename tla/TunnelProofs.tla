---------------------------- MODULE TunnelProofs ----------------------------
(***************************************************************************)
(* Safety of the way of a request and of the whole tunnel, for any number  *)
(* of requests and bodies of any length.  The client is sent the frames of *)
(* a request in order; the tunnel's two sides behave as EdgeStream and     *)
(* ClientSession say; what the application reads, and the browser gets, is *)
(* what the other side sent; each side sends only what the other expects;  *)
(* and when everything waits it does so in a known way, of which the wait  *)
(* cycle is for good.                                                      *)
(***************************************************************************)
EXTENDS Tunnel, EdgeStreamProofs

-----------------------------------------------------------------------------
(* Two sequences with the same elements are the same. *)
LEMMA SameElements ==
  ASSUME NEW S, NEW s \in Seq(S), NEW t \in Seq(S), Len(s) = Len(t),
         \A i \in 1 .. Len(s) : s[i] = t[i]
  PROVE  s = t
<1>1. s = [i \in 1 .. Len(s) |-> s[i]]
  OBVIOUS
<1>2. t = [i \in 1 .. Len(t) |-> t[i]]
  OBVIOUS
<1>3. 1 .. Len(s) = 1 .. Len(t)
  OBVIOUS
<1>4. [i \in 1 .. Len(s) |-> s[i]] = [i \in 1 .. Len(t) |-> t[i]]
  BY <1>3, Zenon
<1> QED
  BY <1>1, <1>2, <1>4, Zenon

(* Facts of arithmetic. *)
LEMMA AtLeastZero == \A n \in Nat : 0 <= n
OBVIOUS

LEMMA NotBelow == \A n, b \in Nat : n >= b + 2 => ~(n <= b + 1)
OBVIOUS

LEMMA UpTo == \A b \in Nat : \A n \in 1 .. b + 1 : n <= b + 1
OBVIOUS

LEMMA Below == \A n, b \in Nat : ~(n >= b + 3) => n < b + 3
OBVIOUS

LEMMA Under == \A n, b \in Nat : n <= b + 1 => n < b + 3 /\ n < b + 2
OBVIOUS

LEMMA Reach == \A n, c \in Nat : \A i \in 1 .. n : i >= c => n >= c
OBVIOUS

LEMMA NoMore ==
  \A n, c, b \in Nat : c <= (b + 1) + 1 /\ (n + 1 <= c \/ n = c) => n <= b + 2
OBVIOUS

(* The kinds of a request's frames, by their numbers. *)
LEMMA KindAt ==
  ASSUME NEW r \in Requests, NEW i \in Nat \ {0}
  PROVE  /\ RequestFrame(r, i).kind = "CancelRequest" => i >= BodyFrames[r] + 3
         /\ RequestFrame(r, i).kind = "RequestEnd" => i >= BodyFrames[r] + 2
<1> DEFINE k == RequestFrame(r, i).kind
<1>1. k = CASE i = 1                        -> "RequestStart"
            [] i \in 2 .. BodyFrames[r] + 1 -> "RequestBody"
            [] i = BodyFrames[r] + 2        -> "RequestEnd"
            [] OTHER                        -> "CancelRequest"
  BY DEF RequestFrame
<1>2. BodyFrames[r] \in Nat
  BY StreamAssumption
<1> HIDE DEF k
<1>3. (k = "CancelRequest" => i >= BodyFrames[r] + 3) /\ (k = "RequestEnd" => i >= BodyFrames[r] + 2)
  BY <1>1, <1>2
<1> QED
  BY <1>3 DEF k

LEMMA NextKind ==
  ASSUME NEW r \in Requests, NEW n \in Nat, n <= BodyFrames[r] + 2
  PROVE  \/ n = 0 /\ RequestFrame(r, n + 1).kind = "RequestStart"
         \/ n \in 1 .. BodyFrames[r] /\ RequestFrame(r, n + 1).kind = "RequestBody"
         \/ n = BodyFrames[r] + 1 /\ RequestFrame(r, n + 1).kind = "RequestEnd"
         \/ n = BodyFrames[r] + 2 /\ RequestFrame(r, n + 1).kind = "CancelRequest"
<1> DEFINE k == RequestFrame(r, n + 1).kind
<1>1. k = CASE n + 1 = 1                        -> "RequestStart"
            [] n + 1 \in 2 .. BodyFrames[r] + 1 -> "RequestBody"
            [] n + 1 = BodyFrames[r] + 2        -> "RequestEnd"
            [] OTHER                            -> "CancelRequest"
  BY DEF RequestFrame
<1>2. BodyFrames[r] \in Nat
  BY StreamAssumption
<1> HIDE DEF k
<1>3. \/ n = 0 /\ k = "RequestStart"
      \/ n \in 1 .. BodyFrames[r] /\ k = "RequestBody"
      \/ n = BodyFrames[r] + 1 /\ k = "RequestEnd"
      \/ n = BodyFrames[r] + 2 /\ k = "CancelRequest"
  BY <1>1, <1>2
<1> QED
  BY <1>3 DEF k

-----------------------------------------------------------------------------
(* The request: what a handler queues, what stands in line, what the client was
   sent. *)

(* A handler's place tells how much of the request it has queued. *)
Counted ==
  \A r \in Requests :
    /\ sentFrames[r] <= LastFrame(r) + 1
    /\ pc[r] \in {"idle", "fwd", "read"} => sentFrames[r] <= LastFrame(r)
    /\ pc[r] \notin {"idle", "fwd", "read"} /\ ~Left(r) => sentFrames[r] = LastFrame(r) + 1

(* The client was sent the first frames of r, and no more than were queued: the
   one that sentFrames does not count is CancelRequest. *)
Wired ==
  /\ wire \in [Requests -> Seq(Frames)]
  /\ \A r \in Requests :
       /\ \/ Len(wire[r]) <= sentFrames[r]
          \/ Left(r) /\ sentFrames[r] = LastFrame(r) + 1 /\ Len(wire[r]) = sentFrames[r] + 1
       /\ \A i \in 1 .. Len(wire[r]) : wire[r][i] = RequestFrame(r, i)

(* Of r's c frames w were sent: s holds the others, in order and none twice, and
   perhaps a CancelRequest when the handler has left. *)
InLine(r, s, w, c, left) ==
  /\ \A i \in 1 .. Len(s) : s[i].id = r =>
       /\ s[i] = RequestFrame(r, s[i].n)
       /\ s[i].n > w
       /\ s[i].n <= c \/ (left /\ c = LastFrame(r) + 1 /\ s[i].n = c + 1)
  /\ \A i, j \in 1 .. Len(s) : s[i].id = r /\ s[j].id = r /\ i < j => s[i].n < s[j].n
  /\ \A m \in w + 1 .. c : \E i \in 1 .. Len(s) : s[i].id = r /\ s[i].n = m

(* The frame being sent stands before the queue. *)
Line == inSend \o outbound

LineOf(r) == InLine(r, Line, Len(wire[r]), sentFrames[r], Left(r))

(* Until the sender ends, every frame is on its way. *)
Lined ==
  /\ send = "sending" <=> inSend # <<>>
  /\ send # "ended" => \A r \in Requests : LineOf(r)

RInv == IInv /\ Counted /\ Wired /\ Lined

LEMMA WireLen == ASSUME Wired, NEW r \in Requests PROVE Len(wire[r]) \in Nat
BY DEF Wired

LEMMA NumberedFrames == \A f \in Frames : f.n \in Nat
BY DEF Frames, PingFrame

(* A frame of another request makes no difference. *)
LEMMA LinePasses ==
  ASSUME NEW q \in Requests, NEW s \in Seq(Frames), NEW f \in Frames, NEW w \in Nat, NEW c \in Nat,
         NEW left \in BOOLEAN, InLine(q, s, w, c, left), f.id # q
  PROVE  InLine(q, Append(s, f), w, c, left)
<1> DEFINE t == Append(s, f)
<1>1. /\ Len(s) \in Nat /\ Len(t) = Len(s) + 1 /\ t[Len(s) + 1] = f
      /\ \A i \in 1 .. Len(s) : t[i] = s[i]
  OBVIOUS
<1>2. \A i \in 1 .. Len(t) : t[i].id = q => i \in 1 .. Len(s)
  BY <1>1
<1>3. \A i \in 1 .. Len(s) : i \in 1 .. Len(t)
  BY <1>1
<1> HIDE DEF t
<1>4. \A i \in 1 .. Len(t) : t[i].id = q =>
        /\ t[i] = RequestFrame(q, t[i].n)
        /\ t[i].n > w
        /\ t[i].n <= c \/ (left /\ c = LastFrame(q) + 1 /\ t[i].n = c + 1)
  BY <1>1, <1>2 DEF InLine
<1>5. \A i, j \in 1 .. Len(t) : t[i].id = q /\ t[j].id = q /\ i < j => t[i].n < t[j].n
  BY <1>1, <1>2 DEF InLine
<1>6. \A m \in w + 1 .. c : \E i \in 1 .. Len(t) : t[i].id = q /\ t[i].n = m
  BY <1>1, <1>3 DEF InLine
<1> QED
  BY <1>4, <1>5, <1>6, Zenon DEF InLine, t

(* A handler adds the next frame of its request to the line. *)
LEMMA LineGrows ==
  ASSUME NEW r \in Requests, NEW s \in Seq(Frames), NEW f \in Frames, NEW w \in Nat, NEW c \in Nat,
         InLine(r, s, w, c, FALSE), f = RequestFrame(r, c + 1), w <= c
  PROVE  /\ InLine(r, Append(s, f), w, c + 1, FALSE)
         /\ c = LastFrame(r) + 1 => InLine(r, Append(s, f), w, c, TRUE)
<1> DEFINE t == Append(s, f)
<1>1. /\ Len(s) \in Nat /\ Len(t) = Len(s) + 1 /\ t[Len(s) + 1] = f
      /\ \A i \in 1 .. Len(s) : t[i] = s[i]
  OBVIOUS
<1>2. f.id = r /\ f.n = c + 1
  BY DEF RequestFrame
<1>3. \A i \in 1 .. Len(t) : i = Len(s) + 1 \/ i \in 1 .. Len(s)
  BY <1>1
<1>4. \A i \in 1 .. Len(s) : s[i] \in Frames
  OBVIOUS
<1>5. \A i \in 1 .. Len(s) : s[i].id = r => /\ s[i] = RequestFrame(r, s[i].n)
                                            /\ s[i].n > w /\ s[i].n <= c /\ s[i].n \in Nat
  BY <1>4, NumberedFrames DEF InLine
<1>6. \A i \in 1 .. Len(t) : t[i].id = r => /\ t[i] = RequestFrame(r, t[i].n)
                                            /\ t[i].n > w /\ (t[i].n <= c \/ t[i].n = c + 1)
  BY <1>1, <1>2, <1>3, <1>5
<1>7. \A i, j \in 1 .. Len(t) : t[i].id = r /\ t[j].id = r /\ i < j => t[i].n < t[j].n
  <2> SUFFICES ASSUME NEW i \in 1 .. Len(t), NEW j \in 1 .. Len(t), t[i].id = r, t[j].id = r, i < j
               PROVE  t[i].n < t[j].n
    OBVIOUS
  <2>1. i \in 1 .. Len(s)
    BY <1>1
  <2>2. CASE j = Len(s) + 1
    BY <1>1, <1>2, <1>5, <2>1, <2>2
  <2>3. CASE j \in 1 .. Len(s)
    <3>1. s[i].n < s[j].n
      BY <1>1, <2>1, <2>3 DEF InLine
    <3> QED
      BY <1>1, <2>1, <2>3, <3>1
  <2> QED
    BY <1>3, <2>2, <2>3
<1>8. \A m \in w + 1 .. c : \E i \in 1 .. Len(t) : t[i].id = r /\ t[i].n = m
  <2> SUFFICES ASSUME NEW m \in w + 1 .. c PROVE \E i \in 1 .. Len(t) : t[i].id = r /\ t[i].n = m
    BY Zenon
  <2>1. PICK i \in 1 .. Len(s) : s[i].id = r /\ s[i].n = m
    BY DEF InLine
  <2>2. i \in 1 .. Len(t) /\ t[i] = s[i]
    BY <1>1
  <2> QED
    BY <2>1, <2>2
<1>9. \A m \in w + 1 .. c + 1 : m \in w + 1 .. c \/ m = c + 1
  OBVIOUS
<1>10. Len(s) + 1 \in 1 .. Len(t)
  BY <1>1
<1> HIDE DEF t
<1>11. \A m \in w + 1 .. c + 1 : \E i \in 1 .. Len(t) : t[i].id = r /\ t[i].n = m
  BY <1>1, <1>2, <1>8, <1>9, <1>10
<1>12. InLine(r, t, w, c + 1, FALSE)
  <2>1. \A i \in 1 .. Len(t) : t[i].id = r => t[i].n \in Nat
    BY <1>1, <1>2, <1>3, <1>5
  <2>2. \A i \in 1 .. Len(t) : t[i].id = r => t[i].n <= c + 1
    BY <1>6, <2>1
  <2> QED
    BY <1>6, <1>7, <1>11, <2>2, Zenon DEF InLine
<1>13. c = LastFrame(r) + 1 => InLine(r, t, w, c, TRUE)
  BY <1>6, <1>7, <1>8 DEF InLine
<1> QED
  BY <1>12, <1>13, Zenon DEF t

(* The front of the line is the frame the client is to be sent next. *)
LEMMA LineShrinks ==
  ASSUME NEW q \in Requests, NEW s \in Seq(Frames), s # <<>>, NEW w \in Nat, NEW c \in Nat,
         NEW left \in BOOLEAN, InLine(q, s, w, c, left)
  PROVE  /\ s[1].id # q => InLine(q, Tail(s), w, c, left)
         /\ s[1].id = q => /\ s[1] = RequestFrame(q, w + 1)
                           /\ w + 1 <= c \/ (left /\ c = LastFrame(q) + 1 /\ w = c)
                           /\ InLine(q, Tail(s), w + 1, c, left)
<1> DEFINE t == Tail(s)
<1>1. /\ Len(s) \in Nat \ {0} /\ Len(t) = Len(s) - 1
      /\ \A i \in 1 .. Len(t) : t[i] = s[i + 1]
  OBVIOUS
<1>2. \A i \in 1 .. Len(t) : i + 1 \in 1 .. Len(s)
  BY <1>1
<1>3. \A i \in 1 .. Len(s) : i = 1 \/ (i - 1 \in 1 .. Len(t) /\ t[i - 1] = s[i])
  BY <1>1
<1>4. \A i \in 1 .. Len(s) : s[i] \in Frames /\ s[i].n \in Nat
  BY NumberedFrames
<1>5. 1 \in 1 .. Len(s)
  BY <1>1
<1> HIDE DEF t
<1>6. ASSUME NEW i \in 1 .. Len(t), t[i].id = q
      PROVE  /\ t[i] = RequestFrame(q, t[i].n) /\ t[i].n > w /\ t[i].n \in Nat
             /\ t[i].n <= c \/ (left /\ c = LastFrame(q) + 1 /\ t[i].n = c + 1)
             /\ s[1].id = q => s[1].n < t[i].n
  <2>1. i + 1 \in 1 .. Len(s) /\ t[i] = s[i + 1] /\ 1 < i + 1
    BY <1>1, <1>2
  <2> QED
    BY <1>4, <1>5, <1>6, <2>1 DEF InLine
<1>7. ASSUME NEW i \in 1 .. Len(t), NEW j \in 1 .. Len(t), t[i].id = q, t[j].id = q, i < j
      PROVE  t[i].n < t[j].n
  <2>1. i + 1 \in 1 .. Len(s) /\ j + 1 \in 1 .. Len(s) /\ t[i] = s[i + 1] /\ t[j] = s[j + 1] /\ i + 1 < j + 1
    BY <1>1, <1>2, <1>7
  <2> QED
    BY <1>7, <2>1 DEF InLine
<1>8. ASSUME NEW m \in w + 1 .. c
      PROVE  (s[1].id = q /\ s[1].n = m) \/ \E i \in 1 .. Len(t) : t[i].id = q /\ t[i].n = m
  <2>1. PICK i \in 1 .. Len(s) : s[i].id = q /\ s[i].n = m
    BY DEF InLine
  <2> QED
    BY <1>3, <2>1, Zenon
<1>9. s[1].id # q => InLine(q, t, w, c, left)
  BY <1>6, <1>7, <1>8 DEF InLine
<1>10. ASSUME s[1].id = q
       PROVE  /\ s[1] = RequestFrame(q, w + 1)
              /\ w + 1 <= c \/ (left /\ c = LastFrame(q) + 1 /\ w = c)
              /\ InLine(q, t, w + 1, c, left)
  <2> DEFINE n == s[1].n
  <2>1. /\ n \in Nat /\ n > w /\ s[1] = RequestFrame(q, n)
        /\ n <= c \/ (left /\ c = LastFrame(q) + 1 /\ n = c + 1)
    BY <1>4, <1>5, <1>10, Zenon DEF InLine
  <2>2. n = w + 1
    <3>1. SUFFICES ASSUME n # w + 1 PROVE FALSE
      OBVIOUS
    <3> HIDE DEF n
    <3>2. w + 1 \in w + 1 .. c /\ w + 1 < n
      BY <2>1, <3>1
    <3>3. PICK i \in 1 .. Len(t) : t[i].id = q /\ t[i].n = w + 1
      BY <1>8, <3>1, <3>2, Zenon DEF n
    <3>4. n < w + 1
      BY <1>6, <1>10, <3>3 DEF n
    <3> QED
      BY <2>1, <3>2, <3>4
  <2>3. w + 1 <= c \/ (left /\ c = LastFrame(q) + 1 /\ w = c)
    <3> HIDE DEF n
    <3> QED
      BY <2>1, <2>2
  <2>4. ASSUME NEW m \in (w + 1) + 1 .. c PROVE \E i \in 1 .. Len(t) : t[i].id = q /\ t[i].n = m
    <3>1. m \in w + 1 .. c /\ m # w + 1
      OBVIOUS
    <3> QED
      BY <1>8, <2>2, <3>1
  <2>5. \A i \in 1 .. Len(t) : t[i].id = q =>
           /\ t[i] = RequestFrame(q, t[i].n) /\ t[i].n > w + 1
           /\ t[i].n <= c \/ (left /\ c = LastFrame(q) + 1 /\ t[i].n = c + 1)
    BY <1>6, <1>10, <2>2, Zenon
  <2> HIDE DEF n
  <2>6. InLine(q, t, w + 1, c, left)
    BY <1>7, <2>4, <2>5, Zenon DEF InLine
  <2> QED
    BY <2>1, <2>2, <2>3, <2>6
<1> QED
  BY <1>9, <1>10 DEF t

(* The first of the line is the next frame of its request. *)
LEMMA LineHead ==
  ASSUME NEW r \in Requests, Line \in Seq(Frames), Line # <<>>, LineOf(r), Line[1].id = r,
         Len(wire[r]) \in Nat, sentFrames[r] \in Nat, Left(r) \in BOOLEAN
  PROVE  /\ Line[1] = RequestFrame(r, Len(wire[r]) + 1)
         /\ \/ Len(wire[r]) + 1 <= sentFrames[r]
            \/ sentFrames[r] = LastFrame(r) + 1 /\ Len(wire[r]) = sentFrames[r]
BY LineShrinks DEF LineOf

Served == {"headers", "stream", "write", "drain", "drainWrite"}

(* How a handler goes on. *)
Follows(a, b) ==
  \/ b = a
  \/ a \in {"idle", "read"} /\ b = "fwd"
  \/ a \notin {"idle", "returned"} /\ b = "returning"
  \/ a = "returning" /\ b = "returned"
  \/ a \in Served /\ b \in Served

LEMMA PlaceStep ==
  ASSUME Types, [Next]_vars, NEW r \in Requests
  PROVE  Forward(r) \/ (sentFrames'[r] = sentFrames[r] /\ Follows(pc[r], pc'[r]))
<1> USE DEF Goto
<1>t. pc \in [Requests -> HandlerStates] /\ sentFrames \in [Requests -> Nat]
  BY DEF Types
<1>1. ASSUME NEW q \in Requests, Forward(q), q # r
      PROVE  sentFrames'[r] = sentFrames[r] /\ pc'[r] = pc[r]
  BY <1>1, <1>t, Zenon DEF Forward
<1>2. ASSUME NEW q \in Requests,
             \/ TryStart(q) \/ ForwardFails(q) \/ ReadBody(q) \/ BodyReadFails(q) \/ ForwardCancelled(q)
             \/ SeeDone(q) \/ EndOfBody(q) \/ FinishRequest(q)
      PROVE  sentFrames' = sentFrames /\ \E l : pc' = [pc EXCEPT ![q] = l] /\ Follows(pc[q], l)
  BY <1>2 DEF TryStart, ForwardFails, ReadBody, BodyReadFails, BadGateway, ForwardCancelled, SeeDone, EndOfBody,
              FinishRequest, Follows, Served
<1>3. ASSUME NEW q \in Requests, AwaitHeaders(q)
      PROVE  sentFrames' = sentFrames /\ \E l : pc' = [pc EXCEPT ![q] = l] /\ Follows(pc[q], l)
  <2>1. WriteHeader(q) \/ TakeErr(q)
    BY <1>3, Zenon DEF AwaitHeaders
  <2>2. pc[q] = "headers" /\ sentFrames' = sentFrames
    BY <1>3, Zenon DEF AwaitHeaders
  <2> QED
    BY <2>1, <2>2 DEF WriteHeader, TakeErr, BadGateway, Follows, Served
<1>4. ASSUME NEW q \in Requests, TakeChunk(q) \/ ChunkWritten(q) \/ Cancelled(q)
      PROVE  sentFrames' = sentFrames /\ \E l : pc' = [pc EXCEPT ![q] = l] /\ Follows(pc[q], l)
  BY <1>4, Zenon DEF TakeChunk, ChunkWritten, Cancelled, Follows, Served
<1>5. ASSUME NEW q \in Requests, BrowserGone(q) \/ ClientFrame(q)
      PROVE  sentFrames' = sentFrames /\ pc' = pc
  BY <1>5 DEF BrowserGone, ClientFrame, ReceiveStart, ReceiveBody, ReceiveEnd, Receiving, handlerVars
<1>6. Deliver \/ Discard \/ failAll => sentFrames' = sentFrames /\ pc' = pc
  BY DEF Deliver, Discard, failAll, handlerVars
<1>7. Aside => sentFrames' = sentFrames /\ pc' = pc
  BY Zenon DEF Aside, StreamEnds, CloseDone, ConnectReturns, Replace, TakeFrame, Sent, SendExits,
         Heartbeat, HeartbeatExits, StreamFails, vars, handlerVars
<1>8. ASSUME NEW q \in Requests, sentFrames' = sentFrames,
             \E l : pc' = [pc EXCEPT ![q] = l] /\ Follows(pc[q], l)
      PROVE  sentFrames'[r] = sentFrames[r] /\ Follows(pc[r], pc'[r])
  BY <1>8, <1>t DEF Follows
<1>9. Follows(pc[r], pc[r])
  BY DEF Follows
<1>10. ASSUME NEW q \in Requests, ~Forward(q),
              TryStart(q) \/ HandlerStep(q) \/ ChunkWritten(q) \/ ReadBody(q) \/ BodyReadFails(q)
       PROVE  sentFrames'[r] = sentFrames[r] /\ Follows(pc[r], pc'[r])
  BY <1>2, <1>3, <1>4, <1>8, <1>10, Zenon DEF HandlerStep
<1> QED
  BY <1>1, <1>5, <1>6, <1>7, <1>9, <1>10, StepCases, Zenon

(* A handler that has left stays away. *)
LEMMA LeftStays ==
  ASSUME Types, [Next]_vars, NEW r \in Requests, Left(r)
  PROVE  Left(r)' /\ sentFrames'[r] = sentFrames[r]
<1>1. ~Forward(r)
  BY DEF Left, Forward
<1>2. sentFrames'[r] = sentFrames[r] /\ Follows(pc[r], pc'[r])
  BY <1>1, PlaceStep
<1> QED
  BY <1>2 DEF Left, Follows, Served

LEMMA LastNat ==
  ASSUME NEW r \in Requests
  PROVE  LastFrame(r) \in Nat /\ LastFrame(r) = BodyFrames[r] + 1 /\ BodyFrames[r] \in Nat
BY StreamAssumption DEF LastFrame

LEMMA CountedStep == Types /\ Counted /\ [Next]_vars => Counted'
<1> SUFFICES ASSUME Types, Counted, [Next]_vars PROVE Counted'
  OBVIOUS
<1> SUFFICES ASSUME NEW r \in Requests
             PROVE  /\ sentFrames'[r] <= LastFrame(r) + 1
                    /\ pc'[r] \in {"idle", "fwd", "read"} => sentFrames'[r] <= LastFrame(r)
                    /\ pc'[r] \notin {"idle", "fwd", "read"} /\ ~Left(r)' => sentFrames'[r] = LastFrame(r) + 1
  BY DEF Counted, LastFrame, Left
<1>2. LastFrame(r) \in Nat /\ sentFrames[r] \in Nat
  BY LastNat DEF Types
<1>3. CASE Forward(r)
  <2>1. /\ sentFrames[r] <= LastFrame(r) /\ sentFrames'[r] = sentFrames[r] + 1
        /\ pc'[r] = IF sentFrames[r] = LastFrame(r) THEN "headers" ELSE "read"
    BY <1>3, Zenon DEF Forward, Goto, Counted, Types
  <2> QED
    BY <1>2, <2>1
<1>4. CASE sentFrames'[r] = sentFrames[r] /\ Follows(pc[r], pc'[r])
  <2>1. /\ sentFrames[r] <= LastFrame(r) + 1
        /\ pc[r] \in {"idle", "fwd", "read"} => sentFrames[r] <= LastFrame(r)
        /\ pc[r] \notin {"idle", "fwd", "read"} /\ ~Left(r) => sentFrames[r] = LastFrame(r) + 1
    BY Zenon DEF Counted
  <2>2. pc'[r] \in {"idle", "fwd", "read"} => pc[r] \in {"idle", "fwd", "read"}
    BY <1>4, Zenon DEF Follows, Served
  <2>3. pc'[r] \notin {"idle", "fwd", "read"} /\ ~Left(r)' => pc[r] \notin {"idle", "fwd", "read"} /\ ~Left(r)
    BY <1>4, Zenon DEF Follows, Served, Left
  <2> QED
    BY <1>4, <2>1, <2>2, <2>3, Zenon
<1> QED
  BY <1>3, <1>4, PlaceStep

LEMMA LineLeaves ==
  ASSUME NEW q, NEW s, NEW w, NEW c, NEW l, NEW k, InLine(q, s, w, c, l), l => k
  PROVE  InLine(q, s, w, c, k)
BY Zenon DEF InLine

(* The frame being sent stands before the queue. *)
LEMMA Fronts ==
  ASSUME NEW s \in Seq(Frames), NEW f \in Frames
  PROVE  /\ <<>> \o s = s
         /\ <<f>> \o s \in Seq(Frames) /\ <<f>> \o s # <<>>
         /\ (<<f>> \o s)[1] = f /\ Tail(<<f>> \o s) = s
         /\ \A g \in Frames : <<f>> \o Append(s, g) = Append(<<f>> \o s, g)
<1>1. <<>> \o s = s /\ <<f>> \in Seq(Frames)
  OBVIOUS
<1>2. /\ <<f>> \o s \in Seq(Frames) /\ Len(<<f>> \o s) = Len(s) + 1 /\ (<<f>> \o s)[1] = f
      /\ \A i \in 1 .. Len(s) : (<<f>> \o s)[i + 1] = s[i]
  OBVIOUS
<1> DEFINE u == <<f>> \o s
<1>3. u \in Seq(Frames) /\ Len(u) = Len(s) + 1 /\ Len(s) \in Nat /\ u[1] = f /\ \A i \in 1 .. Len(s) : u[i + 1] = s[i]
  BY <1>2
<1>4. ASSUME NEW g \in Frames PROVE <<f>> \o Append(s, g) = Append(<<f>> \o s, g)
  OBVIOUS
<1> HIDE DEF u
<1>5. u # <<>>
  BY <1>3
<1>6. Tail(u) \in Seq(Frames) /\ Len(Tail(u)) = Len(s) /\ \A i \in 1 .. Len(s) : Tail(u)[i] = s[i]
  BY <1>3, <1>5
<1>7. Tail(u) = s
  BY <1>6
<1> QED
  BY <1>1, <1>3, <1>4, <1>5, <1>7 DEF u

LEMMA LineGrew ==
  ASSUME Queues, NEW f \in Frames, outbound' = Append(outbound, f), inSend' = inSend
  PROVE  Line' = Append(Line, f)
<1>1. outbound \in Seq(Frames)
  BY DEF Queues
<1>2. CASE inSend = <<>>
  <2>1. Append(outbound, f) \in Seq(Frames)
    BY <1>1
  <2> QED
    BY <1>1, <1>2, <2>1, Fronts, Zenon DEF Line
<1>3. CASE inSend # <<>>
  <2>1. inSend = <<inSend[1]>> /\ inSend[1] \in Frames
    BY <1>3 DEF Queues
  <2>2. <<inSend[1]>> \o Append(outbound, f) = Append(<<inSend[1]>> \o outbound, f)
    BY <1>1, <2>1, Fronts
  <2>3. inSend \o Append(outbound, f) = Append(inSend \o outbound, f)
    BY <2>1, <2>2, Zenon
  <2> QED
    BY <2>3, Zenon DEF Line
<1> QED
  BY <1>2, <1>3, Zenon

LEMMA LineIs ==
  ASSUME Queues
  PROVE  /\ Line \in Seq(Frames)
         /\ inSend # <<>> => Line # <<>> /\ Line[1] = inSend[1] /\ Tail(Line) = outbound
         /\ inSend = <<>> => Line = outbound
<1>1. outbound \in Seq(Frames)
  BY DEF Queues
<1>2. CASE inSend = <<>>
  <2>1. <<>> \o outbound = outbound
    BY <1>1
  <2> QED
    BY <1>1, <1>2, <2>1, Zenon DEF Line
<1>3. CASE inSend # <<>>
  <2>1. inSend = <<inSend[1]>> /\ inSend[1] \in Frames
    BY <1>3 DEF Queues
  <2> DEFINE f == inSend[1]
  <2>2. Line = <<f>> \o outbound
    BY <2>1, Zenon DEF Line
  <2>3. f \in Frames
    BY <2>1
  <2> HIDE DEF f
  <2>4. Line \in Seq(Frames) /\ Line # <<>> /\ Line[1] = f /\ Tail(Line) = outbound
    BY <1>1, <2>2, <2>3, Fronts, Zenon
  <2> QED
    BY <1>3, <2>4, Zenon DEF f
<1> QED
  BY <1>2, <1>3

(* A frame joins the line. *)
LEMMA LineAppends ==
  ASSUME Types, Types', Queues, Wired, Lined, NEW f \in Frames,
         outbound' = Append(outbound, f), UNCHANGED <<send, inSend, wire>>,
         NEW r, f.id = r,
         \A q \in Requests \ {r} : sentFrames'[q] = sentFrames[q] /\ pc'[q] = pc[q],
         r \in Requests => /\ f = RequestFrame(r, sentFrames[r] + 1) /\ ~Left(r)
                           /\ \/ sentFrames'[r] = sentFrames[r] + 1 /\ ~Left(r)'
                              \/ sentFrames'[r] = sentFrames[r] /\ sentFrames[r] = LastFrame(r) + 1 /\ Left(r)'
  PROVE  Wired' /\ Lined'
<1>1. Line' = Append(Line, f) /\ Line \in Seq(Frames)
  BY LineGrew, LineIs, Zenon
<1>2. ASSUME NEW q \in Requests
      PROVE  Len(wire[q]) \in Nat /\ sentFrames[q] \in Nat /\ sentFrames'[q] \in Nat /\ LastFrame(q) \in Nat
             /\ Left(q) \in BOOLEAN
  BY LastNat DEF Types, Wired, Left
<1>3. Wired'
  <2> SUFFICES ASSUME NEW q \in Requests
               PROVE  \/ Len(wire[q]) <= sentFrames'[q]
                      \/ Left(q)' /\ sentFrames'[q] = LastFrame(q) + 1 /\ Len(wire[q]) = sentFrames'[q] + 1
    BY Zenon DEF Wired, LastFrame
  <2>1. \/ Len(wire[q]) <= sentFrames[q]
        \/ Left(q) /\ sentFrames[q] = LastFrame(q) + 1 /\ Len(wire[q]) = sentFrames[q] + 1
    BY Zenon DEF Wired
  <2>2. CASE q = r
    BY <1>2, <2>1, <2>2
  <2>3. CASE q # r
    BY <2>1, <2>3, Zenon DEF Left
  <2> QED
    BY <2>2, <2>3, Zenon
<1>4. ASSUME send # "ended", NEW q \in Requests PROVE LineOf(q)'
  <2>1. InLine(q, Line, Len(wire[q]), sentFrames[q], Left(q))
    BY <1>4, Zenon DEF Lined, LineOf
  <2>2. CASE q # r
    <3>1. InLine(q, Append(Line, f), Len(wire[q]), sentFrames[q], Left(q))
      BY <1>1, <1>2, <2>1, <2>2, LinePasses, Zenon
    <3>2. Left(q)' = Left(q)
      BY <2>2, Zenon DEF Left
    <3> QED
      BY <1>1, <2>2, <3>1, <3>2, Zenon DEF LineOf
  <2>3. CASE q = r
    <3>1. Left(q) = FALSE /\ f = RequestFrame(q, sentFrames[q] + 1)
      BY <1>2, <2>3, Zenon
    <3>2. Len(wire[q]) <= sentFrames[q]
      BY <2>3, Zenon DEF Wired
    <3>3. InLine(q, Line, Len(wire[q]), sentFrames[q], FALSE)
      BY <2>1, <3>1, Zenon
    <3>4. /\ InLine(q, Append(Line, f), Len(wire[q]), sentFrames[q] + 1, FALSE)
          /\ sentFrames[q] = LastFrame(q) + 1 => InLine(q, Append(Line, f), Len(wire[q]), sentFrames[q], TRUE)
      BY <1>1, <1>2, <3>1, <3>2, <3>3, LineGrows, Zenon
    <3>5. CASE sentFrames'[r] = sentFrames[r] + 1 /\ ~Left(r)'
      <4>1. Left(q)' = FALSE
        BY <2>3, <3>5 DEF Left
      <4> QED
        BY <1>1, <2>3, <3>4, <3>5, <4>1, Zenon DEF LineOf
    <3>6. CASE sentFrames'[r] = sentFrames[r] /\ sentFrames[r] = LastFrame(r) + 1 /\ Left(r)'
      <4>1. Left(q)' = TRUE
        BY <2>3, <3>6 DEF Left
      <4> QED
        BY <1>1, <2>3, <3>4, <3>6, <4>1, Zenon DEF LineOf
    <3> QED
      BY <2>3, <3>5, <3>6, Zenon
  <2> QED
    BY <2>2, <2>3, Zenon
<1> QED
  BY <1>3, <1>4, Zenon DEF Lined

(* No frame joins the line or leaves it. *)
LEMMA LineWaits ==
  ASSUME Types, Wired, Lined, [Next]_vars,
         UNCHANGED <<wire, sentFrames>>, Line' = Line, send' = "sending" <=> inSend' # <<>>,
         send = "ended" => send' = "ended"
  PROVE  Wired' /\ Lined'
<1>1. \A q \in Requests : Left(q) => Left(q)'
  BY LeftStays, Zenon
<1>2. Wired'
  BY <1>1 DEF Wired, LastFrame
<1>3. ASSUME send' # "ended", NEW q \in Requests PROVE LineOf(q)'
  <2>1. InLine(q, Line, Len(wire[q]), sentFrames[q], Left(q))
    BY <1>3, Zenon DEF Lined, LineOf
  <2>2. InLine(q, Line, Len(wire[q]), sentFrames[q], Left(q)')
    BY <1>1, <2>1, LineLeaves
  <2> QED
    BY <2>2 DEF LineOf
<1> QED
  BY <1>2, <1>3 DEF Lined

LEMMA AppendSeq ==
  ASSUME NEW S, NEW s \in Seq(S), NEW e \in S PROVE Append(s, e) \in Seq(S)
  OBVIOUS

(* The client is sent the front of the line. *)
LEMMA SentStep ==
  ASSUME Types, Queues, Wired, Lined, Sent PROVE Wired' /\ Lined'
<1>1. /\ inSend # <<>> /\ inSend' = <<>> /\ send # "ended" /\ UNCHANGED <<outbound, sentFrames, pc>>
      /\ IF stream = "down" THEN send' = "ended" /\ wire' = wire
         ELSE /\ send' = "run"
              /\ wire' = [r \in Requests |-> IF r = inSend[1].id THEN Append(wire[r], inSend[1]) ELSE wire[r]]
  BY DEF Sent, Queues, handlerVars
<1>2. \A q : Left(q)' = Left(q)
  BY <1>1, Zenon DEF Left
<1>3. CASE stream = "down"
  BY <1>1, <1>2, <1>3 DEF Wired, Lined, LastFrame
<1>4. CASE stream # "down"
  <2> DEFINE f == inSend[1]
  <2>1. /\ Line \in Seq(Frames) /\ Line # <<>> /\ Line[1] = f /\ Tail(Line) = outbound
        /\ f \in Frames /\ outbound \in Seq(Frames)
    BY <1>1, LineIs DEF Queues
  <2>2. Line' = Tail(Line)
    <3>1. <<>> \o outbound = outbound
      BY <2>1
    <3> QED
      BY <1>1, <2>1, <3>1 DEF Line
  <2>3. ASSUME NEW q \in Requests
        PROVE  /\ Len(wire[q]) \in Nat /\ sentFrames[q] \in Nat /\ Left(q) \in BOOLEAN /\ wire[q] \in Seq(Frames)
               /\ InLine(q, Line, Len(wire[q]), sentFrames[q], Left(q))
    BY <1>1 DEF Types, Wired, Left, Lined, LineOf
  <2>4. \A q \in Requests : wire'[q] = IF q = f.id THEN Append(wire[q], f) ELSE wire[q]
    BY <1>1, <1>4, Zenon
  <2>5. wire' \in [Requests -> Seq(Frames)]
    <3> HIDE DEF f
    <3>1. f \in Frames /\ \A q \in Requests : wire[q] \in Seq(Frames)
      BY <2>1 DEF Wired
    <3>2. \A q \in Requests : Append(wire[q], f) \in Seq(Frames)
      BY <3>1, AppendSeq, Zenon
    <3> QED
      BY <1>1, <1>4, <3>1, <3>2, Zenon DEF f
  <2> HIDE DEF f
  <2>6. ASSUME NEW q \in Requests
        PROVE  /\ \/ Len(wire'[q]) <= sentFrames[q]
                  \/ Left(q) /\ sentFrames[q] = LastFrame(q) + 1 /\ Len(wire'[q]) = sentFrames[q] + 1
               /\ \A i \in 1 .. Len(wire'[q]) : wire'[q][i] = RequestFrame(q, i)
               /\ InLine(q, Tail(Line), Len(wire'[q]), sentFrames[q], Left(q))
    <3>1. /\ \/ Len(wire[q]) <= sentFrames[q]
             \/ Left(q) /\ sentFrames[q] = LastFrame(q) + 1 /\ Len(wire[q]) = sentFrames[q] + 1
          /\ \A i \in 1 .. Len(wire[q]) : wire[q][i] = RequestFrame(q, i)
      BY Zenon DEF Wired
    <3>2. /\ f.id # q => InLine(q, Tail(Line), Len(wire[q]), sentFrames[q], Left(q))
          /\ f.id = q => /\ f = RequestFrame(q, Len(wire[q]) + 1)
                         /\ \/ Len(wire[q]) + 1 <= sentFrames[q]
                            \/ Left(q) /\ sentFrames[q] = LastFrame(q) + 1 /\ Len(wire[q]) = sentFrames[q]
                         /\ InLine(q, Tail(Line), Len(wire[q]) + 1, sentFrames[q], Left(q))
      BY <2>1, <2>3, LineShrinks
    <3>3. CASE f.id # q
      BY <2>4, <3>1, <3>2, <3>3, Zenon
    <3>4. CASE f.id = q
      <4>1. wire'[q] = Append(wire[q], f) /\ wire[q] \in Seq(Frames)
        BY <2>3, <2>4, <3>4, Zenon
      <4>2. /\ Len(wire'[q]) = Len(wire[q]) + 1 /\ wire'[q][Len(wire[q]) + 1] = f
            /\ \A i \in 1 .. Len(wire[q]) : wire'[q][i] = wire[q][i]
        BY <2>1, <4>1
      <4>3. \A i \in 1 .. Len(wire'[q]) : i = Len(wire[q]) + 1 \/ i \in 1 .. Len(wire[q])
        BY <2>3, <4>2
      <4>4. \A i \in 1 .. Len(wire'[q]) : wire'[q][i] = RequestFrame(q, i)
        BY <3>1, <3>2, <3>4, <4>2, <4>3, Zenon
      <4> QED
        BY <3>2, <3>4, <4>2, <4>4, Zenon
    <3> QED
      BY <3>3, <3>4
  <2>7. Wired'
    BY <1>1, <1>2, <2>5, <2>6, Zenon DEF Wired, LastFrame
  <2>8. \A q \in Requests : LineOf(q)'
    BY <1>1, <1>2, <2>2, <2>6 DEF LineOf
  <2>9. send' = "sending" <=> inSend' # <<>>
    BY <1>1, <1>4
  <2> QED
    BY <2>7, <2>8, <2>9, Zenon DEF Lined
<1> QED
  BY <1>3, <1>4, Zenon

LEMMA LineStep ==
  ASSUME Types, Types', Queues, Counted, Wired, Lined, [Next]_vars PROVE Wired' /\ Lined'
<1> USE DEF sendVars, connVars
<1>1. ASSUME NEW r \in Requests, Forward(r) PROVE Wired' /\ Lined'
  <2> DEFINE f == NewFrame(r, FrameOf(r))
  <2>1. pc[r] = "fwd" /\ outbound' = Append(outbound, f) /\ UNCHANGED <<send, inSend, wire>>
    BY <1>1, Zenon DEF Forward
  <2>2. LastFrame(r) = BodyFrames[r] + 1 /\ BodyFrames[r] \in Nat /\ sentFrames[r] \in Nat /\ sentFrames[r] <= LastFrame(r)
    BY <2>1, LastNat DEF Types, Counted
  <2>3. f = RequestFrame(r, sentFrames[r] + 1)
    <3>1. CASE sentFrames[r] = 0
      BY <2>2, <3>1 DEF NewFrame, FrameOf, RequestFrame
    <3>2. CASE sentFrames[r] = LastFrame(r)
      <4>1. sentFrames[r] # 0 /\ sentFrames[r] + 1 # 1 /\ sentFrames[r] + 1 \notin 2 .. BodyFrames[r] + 1
            /\ sentFrames[r] + 1 = BodyFrames[r] + 2
        BY <2>2, <3>2
      <4> QED
        BY <3>2, <4>1, Zenon DEF NewFrame, FrameOf, RequestFrame
    <3>3. CASE sentFrames[r] # 0 /\ sentFrames[r] # LastFrame(r)
      <4>1. sentFrames[r] + 1 # 1 /\ sentFrames[r] + 1 \in 2 .. BodyFrames[r] + 1
        BY <2>2, <3>3
      <4>2. sentFrames[r] + 1 # BodyFrames[r] + 2
        BY <2>2, <4>1
      <4> QED
        BY <3>3, <4>1, <4>2 DEF NewFrame, FrameOf, RequestFrame
    <3> QED
      BY <3>1, <3>2, <3>3
  <2>4. f \in Frames /\ f.id = r
    <3>1. FrameOf(r) \in {"RequestStart", "RequestBody", "RequestEnd", "CancelRequest"}
      BY Zenon DEF FrameOf
    <3>2. sentFrames[r] + 1 \in Nat
      BY <2>2
    <3>3. f = [id |-> r, kind |-> FrameOf(r), n |-> sentFrames[r] + 1]
      BY Zenon DEF NewFrame
    <3> QED
      BY <3>1, <3>2, <3>3 DEF Frames
  <2>5. /\ sentFrames'[r] = sentFrames[r] + 1 /\ ~Left(r) /\ ~Left(r)'
        /\ \A q \in Requests \ {r} : sentFrames'[q] = sentFrames[q] /\ pc'[q] = pc[q]
    BY <1>1, <2>1 DEF Forward, Goto, Left, Types
  <2> HIDE DEF f
  <2> QED
    BY <2>1, <2>3, <2>4, <2>5, LineAppends, Zenon
<1>2. ASSUME NEW r \in Requests, Cancelled(r), outbound' # outbound PROVE Wired' /\ Lined'
  <2> DEFINE f == NewFrame(r, "CancelRequest")
  <2>1. /\ pc[r] \in Served \ {"drain"} /\ outbound' = Append(outbound, f)
        /\ UNCHANGED <<send, inSend, wire, sentFrames>> /\ pc' = [pc EXCEPT ![r] = "returning"]
    BY <1>2, Zenon DEF Cancelled, CancelRequest, Goto, Served
  <2>2. /\ LastFrame(r) = BodyFrames[r] + 1 /\ BodyFrames[r] \in Nat
        /\ sentFrames[r] \in Nat /\ sentFrames[r] = LastFrame(r) + 1
    BY <2>1, LastNat, Zenon DEF Types, Counted, Served, Left
  <2>3. f = RequestFrame(r, sentFrames[r] + 1)
    <3>1. sentFrames[r] + 1 # 1 /\ sentFrames[r] + 1 \notin 2 .. BodyFrames[r] + 1 /\ sentFrames[r] + 1 # BodyFrames[r] + 2
      BY <2>2
    <3> QED
      BY <3>1 DEF NewFrame, RequestFrame
  <2>4. f \in Frames /\ f.id = r
    BY <2>2 DEF NewFrame, Frames
  <2>5. /\ ~Left(r) /\ Left(r)'
        /\ \A q \in Requests \ {r} : sentFrames'[q] = sentFrames[q] /\ pc'[q] = pc[q]
    BY <2>1 DEF Left, Types, Served
  <2> HIDE DEF f
  <2> QED
    BY <2>1, <2>2, <2>3, <2>4, <2>5, LineAppends, Zenon
<1>3. CASE Heartbeat
  <2> DEFINE f == PingFrame
  <2>1. outbound' = Append(outbound, f) /\ UNCHANGED <<send, inSend, wire, sentFrames, pc>>
    BY <1>3 DEF Heartbeat, handlerVars
  <2>2. f \in Frames /\ f.id = NoRequest /\ NoRequest \notin Requests
    BY StreamAssumption DEF Frames, PingFrame
  <2> HIDE DEF f
  <2> QED
    BY <2>1, <2>2, LineAppends, Zenon
<1>4. CASE TakeFrame
  <2>1. /\ outbound # <<>> /\ inSend' = <<Head(outbound)>> /\ outbound' = Tail(outbound)
        /\ send = "run" /\ send' = "sending" /\ UNCHANGED <<wire, sentFrames>>
    BY <1>4 DEF TakeFrame, handlerVars
  <2>2. inSend = <<>> /\ outbound \in Seq(Frames)
    BY <2>1 DEF Lined, Queues
  <2>3. Line = outbound
    BY <2>2, LineIs
  <2>4. <<Head(outbound)>> \o Tail(outbound) = outbound /\ <<Head(outbound)>> # <<>>
    BY <2>1, <2>2
  <2>5. Line' = Line
    BY <2>1, <2>3, <2>4 DEF Line
  <2>6. send' = "sending" <=> inSend' # <<>>
    BY <2>1, <2>4
  <2> QED
    BY <2>1, <2>5, <2>6, LineWaits, Zenon
<1>5. CASE SendExits
  <2>1. send = "run" /\ send' = "ended" /\ UNCHANGED <<outbound, inSend, wire, sentFrames>>
    BY <1>5 DEF SendExits, handlerVars
  <2>2. send' = "sending" <=> inSend' # <<>>
    BY <2>1 DEF Lined
  <2> QED
    BY <2>1, <2>2, LineWaits DEF Line
<1>6. CASE UNCHANGED <<outbound, send, inSend, wire, sentFrames>>
  BY <1>6, LineWaits, Zenon DEF Line, Lined
<1>7. ASSUME NEW r \in Requests,
             TryStart(r) \/ HandlerStep(r) \/ ChunkWritten(r) \/ ReadBody(r) \/ BodyReadFails(r),
             ~Forward(r), ~Cancelled(r)
      PROVE  UNCHANGED <<outbound, send, inSend, wire, sentFrames>>
  BY <1>7, Zenon DEF TryStart, HandlerStep, ChunkWritten, ReadBody, BodyReadFails, ForwardFails,
         ForwardCancelled, AwaitHeaders, TakeChunk, SeeDone, EndOfBody, FinishRequest
<1>8. ASSUME NEW r \in Requests, Cancelled(r), outbound' = outbound
      PROVE  UNCHANGED <<outbound, send, inSend, wire, sentFrames>>
  BY <1>8, Zenon DEF Cancelled
<1>9. ASSUME NEW r \in Requests, BrowserGone(r) \/ ClientFrame(r)
      PROVE  UNCHANGED <<outbound, send, inSend, wire, sentFrames>>
  BY <1>9, Zenon DEF BrowserGone, ClientFrame, ReceiveStart, ReceiveBody, ReceiveEnd, Receiving, handlerVars
<1>10. Deliver \/ Discard \/ failAll => UNCHANGED <<outbound, send, inSend, wire, sentFrames>>
  BY DEF Deliver, Discard, failAll, handlerVars
<1>11. CASE Aside
  <2>1. CASE StreamEnds \/ CloseDone \/ ConnectReturns \/ Replace \/ HeartbeatExits \/ StreamFails \/ UNCHANGED vars
    BY <1>6, <2>1, Zenon DEF StreamEnds, CloseDone, ConnectReturns, Replace, HeartbeatExits, StreamFails, vars, handlerVars
  <2> QED
    BY <1>3, <1>4, <1>5, <1>11, <2>1, SentStep, Zenon DEF Aside
<1> HIDE DEF sendVars, connVars
<1> QED
  BY <1>1, <1>2, <1>6, <1>7, <1>8, <1>9, <1>10, <1>11, StepCases, Zenon

LEMMA InitRInv == Init => RInv
<1> SUFFICES ASSUME Init PROVE RInv
  OBVIOUS
<1>1. Counted
  <2>1. \A r \in Requests : sentFrames[r] = 0 /\ pc[r] = "idle" /\ LastFrame(r) \in Nat
    BY LastNat, Zenon DEF Init
  <2>2. \A n \in Nat : 0 <= n /\ 0 <= n + 1
    OBVIOUS
  <2> QED
    BY <2>1, <2>2, Zenon DEF Counted
<1>2. Wired
  <2>1. <<>> \in Seq(Frames) /\ Len(<<>>) = 0
    OBVIOUS
  <2>2. \A r \in Requests : wire[r] = <<>> /\ sentFrames[r] = 0
    BY Zenon DEF Init
  <2>3. wire \in [Requests -> Seq(Frames)]
    BY <2>1 DEF Init
  <2> QED
    BY <2>1, <2>2, <2>3 DEF Wired
<1>3. Lined
  <2>1. Line = <<>>
    BY DEF Init, Line
  <2>2. \A r \in Requests : Len(wire[r]) = 0 /\ sentFrames[r] = 0
    BY Zenon DEF Init
  <2>3. Len(Line) = 0 /\ (\A i \in 1 .. 0 : FALSE) /\ (\A i \in 0 + 1 .. 0 : FALSE)
    BY <2>1
  <2>4. \A r \in Requests : LineOf(r)
    BY <2>2, <2>3, Zenon DEF LineOf, InLine
  <2> QED
    BY <2>4 DEF Init, Lined
<1> QED
  BY <1>1, <1>2, <1>3, InitIInv DEF RInv

LEMMA RInvStep == RInv /\ [Next]_vars => RInv'
<1> SUFFICES ASSUME RInv, [Next]_vars PROVE RInv'
  OBVIOUS
<1>1. IInv'
  BY IInvStep DEF RInv
<1>2. Types /\ Types' /\ Queues
  BY <1>1 DEF RInv, IInv
<1>3. Counted'
  BY <1>2, CountedStep DEF RInv
<1>4. Wired' /\ Lined'
  BY <1>2, LineStep DEF RInv
<1> QED
  BY <1>1, <1>3, <1>4 DEF RInv

(* The invariant holds in every state of a session: of what forwardRequest has
   queued, what stands in line and what the client was sent. *)
THEOREM RequestInvariance == Spec => []RInv
  BY InitRInv, RInvStep, PTL DEF Spec

(* Whatever the depth of the queue and the length of the bodies, the client is
   sent the frames of a request in order, none twice and none left out. *)
THEOREM RequestsInOrder == Spec => []RequestOrder
<1>1. RInv => RequestOrder
  <2> SUFFICES ASSUME RInv, NEW r \in Requests
               PROVE  /\ Len(wire[r]) <= BodyFrames[r] + 3
                      /\ \A i \in DOMAIN wire[r] : wire[r][i] = RequestFrame(r, i)
    BY Zenon DEF RequestOrder
  <2>1. Len(wire[r]) \in Nat /\ DOMAIN wire[r] = 1 .. Len(wire[r])
    BY DEF RInv, Wired
  <2>2. /\ Len(wire[r]) <= sentFrames[r] \/ Len(wire[r]) = sentFrames[r] + 1
        /\ \A i \in 1 .. Len(wire[r]) : wire[r][i] = RequestFrame(r, i)
    BY Zenon DEF RInv, Wired
  <2>3. sentFrames[r] \in Nat /\ sentFrames[r] <= LastFrame(r) + 1
    BY DEF RInv, IInv, Types, Counted
  <2>4. LastFrame(r) = BodyFrames[r] + 1 /\ BodyFrames[r] \in Nat
    BY LastNat
  <2>5. Len(wire[r]) <= BodyFrames[r] + 3
    BY <2>1, <2>2, <2>3, <2>4
  <2> QED
    BY <2>1, <2>2, <2>5
<1> QED
  BY RequestInvariance, <1>1, PTL


-----------------------------------------------------------------------------
(* The two sides. *)

(* What the tunnel does is a step of the edge, or leaves the edge alone. *)
LEMMA EdgeSide == [TunnelNext]_tunnelVars => [Next]_vars
<1> SUFFICES ASSUME [TunnelNext]_tunnelVars PROVE [Next]_vars
  OBVIOUS
<1>1. CASE EdgeAlone
  BY <1>1, Zenon DEF EdgeAlone, Next
<1>2. CASE ClientAlone \/ PongSent
  BY <1>2, Zenon DEF ClientAlone, PongSent
<1>3. CASE EdgeSends
  BY <1>3, Zenon DEF EdgeSends, Next
<1>4. ASSUME NEW r \in Requests, ClientSends(r) PROVE [Next]_vars
  <2>1. Receives(r, Head(todo[r])) \/ UNCHANGED vars
    BY <1>4, Zenon DEF ClientSends
  <2>2. Receives(r, Head(todo[r])) => ClientFrame(r)
    BY Zenon DEF Receives, ClientFrame
  <2> QED
    BY <2>1, <2>2, Zenon DEF Next
<1>5. CASE Loss
  BY <1>5, Zenon DEF Loss, Next
<1>6. ASSUME NEW r \in Requests, Leaves(r) PROVE [Next]_vars
  BY <1>6, Zenon DEF Leaves, Next
<1>7. CASE UNCHANGED tunnelVars
  BY <1>7, Zenon DEF tunnelVars
<1> QED
  BY <1>1, <1>2, <1>3, <1>4, <1>5, <1>6, <1>7, Zenon DEF TunnelNext, Progress

LEMMA ClientSame == UNCHANGED clientState => UNCHANGED Client!vars
BY DEF clientState, Client!vars, Client!recvVars, Client!pipeVars, Client!writerVars, Client!readVars

(* A frame that is taken is a step of the client. *)
LEMMA TakenFrame ==
  ASSUME NEW f \in Frames, Takes(f.id, f.kind) PROVE Client!Next
<1>1. f.id \in Requests \/ f.kind = "Ping"
  BY DEF Frames, PingFrame
<1>2. Takes(f.id, f.kind) => Client!Ping \/ Client!RequestFrame(f.id)
  BY Zenon DEF Takes, Client!RequestFrame
<1>3. f.kind = "Ping" /\ Takes(f.id, f.kind) => Client!Ping
  BY DEF Takes
<1> QED
  BY <1>1, <1>2, <1>3, Zenon DEF Client!Next

(* And it is one of the client, or leaves the client alone. *)
LEMMA ClientSide == Queues /\ [TunnelNext]_tunnelVars => [Client!Next]_(Client!vars)
<1> SUFFICES ASSUME Queues, [TunnelNext]_tunnelVars PROVE [Client!Next]_(Client!vars)
  OBVIOUS
<1>1. CASE EdgeAlone \/ \E r \in Requests : Leaves(r)
  BY <1>1, ClientSame, Zenon DEF EdgeAlone, Leaves
<1>2. CASE ClientAlone
  BY <1>2, Zenon DEF ClientAlone, Client!Next, Client!ReceiverStep
<1>3. CASE EdgeSends
  <2>1. inSend[1] \in Frames
    BY <1>3 DEF EdgeSends, Sent, Queues
  <2>2. Takes(inSend[1].id, inSend[1].kind) \/ UNCHANGED clientState
    BY <1>3, Zenon DEF EdgeSends
  <2> QED
    BY <2>1, <2>2, ClientSame, TakenFrame, Zenon
<1>4. ASSUME NEW r \in Requests, ClientSends(r) PROVE [Client!Next]_(Client!vars)
  BY <1>4, Zenon DEF ClientSends, Client!Next
<1>5. CASE PongSent
  BY <1>5, Zenon DEF PongSent, Client!Next
<1>6. CASE Loss
  BY <1>6, ClientSame, Zenon DEF Loss, Client!Next
<1>7. CASE UNCHANGED tunnelVars
  BY <1>7, ClientSame, Zenon DEF tunnelVars
<1> QED
  BY <1>1, <1>2, <1>3, <1>4, <1>5, <1>6, <1>7, Zenon DEF TunnelNext, Progress

ResponseFrames == {"ResponseStart", "ResponseBody", "ResponseEnd", "ResponseError"}

ChunkCalls == {<<"ResponseBody">>, <<"ResponseStart", "ResponseBody">>}

(* What a call of the response writer has still to send while the stream is up. *)
CallOf(r) ==
  \/ todo[r] \in ChunkCalls \cup {<<"ResponseStart">>, <<"ResponseStart", "ResponseEnd">>}
  \/ exit[r] = "close" /\ todo[r] \in {<<"ResponseEnd">>, <<"ResponseError">>}

(* What the tunnel needs to know of the client's state; ClientSession's invariant
   implies it. *)
Session ==
  /\ fed \in [Requests -> Nat]
  /\ app \in [Requests -> Client!HandlerStates]
  /\ todo \in [Requests -> Seq(ResponseFrames)]
  /\ \A r \in Requests :
       /\ sendMu = r => app[r] = "send"
       /\ fed[r] = 0 => app[r] = "none"
       /\ cstream = "up" /\ app[r] = "send" => CallOf(r)

(* And of what the application has read. *)
ReadOf(r) ==
  /\ got[r] \in Seq(Int) /\ \A i \in 1 .. Len(got[r]) : got[r][i] = i
  /\ got[r] = <<>> \/ Len(got[r]) < fed[r]
  /\ Len(got[r]) <= BodyFrames[r]
  /\ bodyEnd[r] = "eof" => fed[r] >= BodyFrames[r] + 2 /\ Len(got[r]) = BodyFrames[r]

LEMMA Lists ==
  \A x, y : /\ Head(<<x>>) = x /\ Tail(<<x>>) = <<>>
            /\ Head(<<x, y>>) = x /\ Tail(<<x, y>>) = <<y>> /\ <<x, y>> # <<>> /\ <<y>> # <<>>
OBVIOUS

LEMMA HeaderJoined ==
  ASSUME NEW r, NEW x
  PROVE  Client!Header(r) \o <<x>> = <<x>> \/ Client!Header(r) \o <<x>> = <<"ResponseStart", x>>
<1>1. <<>> \o <<x>> = <<x>>
  OBVIOUS
<1>2. <<"ResponseStart">> \o <<x>> = <<"ResponseStart", x>>
  <2> DEFINE s == <<"ResponseStart">> \o <<x>>
             t == <<"ResponseStart", x>>
  <2>1. /\ s \in Seq({"ResponseStart", x}) /\ Len(s) = 2 /\ s[1] = "ResponseStart" /\ s[2] = x
        /\ t \in Seq({"ResponseStart", x}) /\ Len(t) = 2 /\ t[1] = "ResponseStart" /\ t[2] = x
    OBVIOUS
  <2> HIDE DEF s, t
  <2>2. \A i \in 1 .. Len(s) : s[i] = t[i]
    BY <2>1
  <2>3. s = t
    BY <2>1, <2>2, SameElements
  <2> QED
    BY <2>3 DEF s, t
<1>3. Client!Header(r) = <<>> \/ Client!Header(r) = <<"ResponseStart">>
  BY DEF Client!Header
<1> QED
  BY <1>1, <1>2, <1>3, Zenon

-----------------------------------------------------------------------------
(* The way up: a request and its body. *)

(* The client has received no frame that it was not sent. *)
Uploads == \A r \in Requests : fed[r] <= Len(wire[r])

LEMMA WireStep == [Next]_vars => Sent \/ UNCHANGED wire
<1> SUFFICES ASSUME [Next]_vars PROVE Sent \/ UNCHANGED wire
  BY Zenon
<1> USE DEF sendVars, connVars
<1>1. ASSUME NEW r \in Requests,
             TryStart(r) \/ ChunkWritten(r) \/ BrowserGone(r) \/ ReadBody(r) \/ BodyReadFails(r)
      PROVE  UNCHANGED wire
  BY <1>1, Zenon DEF TryStart, ChunkWritten, BrowserGone, ReadBody, BodyReadFails
<1>2. ASSUME NEW r \in Requests, HandlerStep(r) PROVE UNCHANGED wire
  BY <1>2, Zenon DEF HandlerStep, Forward, ForwardFails, ForwardCancelled, AwaitHeaders, TakeChunk, Cancelled,
              SeeDone, EndOfBody, FinishRequest
<1>3. ASSUME NEW r \in Requests, ClientFrame(r) PROVE UNCHANGED wire
  BY <1>3, Zenon DEF ClientFrame, ReceiveStart, ReceiveBody, ReceiveEnd, Receiving
<1>4. Deliver \/ Discard \/ failAll => UNCHANGED wire
  BY Zenon DEF Deliver, Discard, failAll
<1>5. Aside => Sent \/ UNCHANGED wire
  BY Zenon DEF Aside, StreamEnds, CloseDone, ConnectReturns, Replace, TakeFrame, SendExits,
         Heartbeat, HeartbeatExits, StreamFails, vars
<1> QED
  BY <1>1, <1>2, <1>3, <1>4, <1>5, StepCases, Zenon

LEMMA FedStep == [TunnelNext]_tunnelVars => EdgeSends \/ UNCHANGED fed
<1> SUFFICES ASSUME [TunnelNext]_tunnelVars PROVE EdgeSends \/ UNCHANGED fed
  OBVIOUS
<1> USE DEF Client!recvVars
<1>1. UNCHANGED clientState => UNCHANGED fed
  BY Zenon DEF clientState
<1>2. CASE EdgeAlone \/ \E r \in Requests : Leaves(r)
  BY <1>1, <1>2, Zenon DEF EdgeAlone, Leaves
<1>3. ASSUME NEW r \in Requests, Client!HandlerStep(r) \/ Client!ReadChunk(r) PROVE UNCHANGED fed
  BY <1>3, Zenon
     DEF Client!HandlerStep, Client!HandlerLocks, Client!WriteHeader, Client!Write, Client!Finish, Client!Fail,
         Client!Call, Client!HandlerWaits, Client!ReadEnds, Client!ContextEnds, Client!CloseRequest,
         Client!DeleteRequest, Client!ReadChunk
<1>4. CASE ClientAlone
  BY <1>3, <1>4, Zenon
     DEF ClientAlone, Client!BodyWriteFails, Client!StreamEnds, Client!CloseReadEnds, Client!ReceiverLocks
<1>5. ASSUME NEW r \in Requests, ClientSends(r) PROVE UNCHANGED fed
  BY <1>5, Zenon DEF ClientSends, Client!HandlerSends
<1>6. CASE PongSent
  BY <1>6, Zenon DEF PongSent, Client!ReceiverSends
<1>7. CASE Loss
  BY <1>1, <1>7, Zenon DEF Loss, Client!StreamFails
<1>8. CASE UNCHANGED tunnelVars
  BY <1>1, <1>8, Zenon DEF tunnelVars
<1> QED
  BY <1>2, <1>4, <1>5, <1>6, <1>7, <1>8, Zenon DEF TunnelNext, Progress

LEMMA TakesOne ==
  ASSUME NEW r, NEW kind, Takes(r, kind)
  PROVE  UNCHANGED fed \/ fed' = [fed EXCEPT ![r] = fed[r] + 1]
BY Zenon DEF Takes, Client!RequestStart, Client!RequestBody, Client!RequestEnd, Client!CancelRequest,
             Client!Ping, Client!Receiving

LEMMA UploadsStep ==
  ASSUME RInv, RInv', Session, Uploads, [TunnelNext]_tunnelVars PROVE Uploads'
<1> SUFFICES ASSUME NEW r \in Requests PROVE fed'[r] <= Len(wire'[r])
  BY DEF Uploads
<1>1. fed \in [Requests -> Nat] /\ fed[r] <= Len(wire[r])
  BY Zenon DEF Session, Uploads
<1>2. wire[r] \in Seq(Frames) /\ wire'[r] \in Seq(Frames)
  BY Zenon DEF RInv, Wired
<1>3. fed[r] \in Nat /\ Len(wire[r]) \in Nat /\ Len(wire'[r]) \in Nat
  BY <1>1, <1>2
<1>4. CASE Sent
  <2>1. inSend[1] \in Frames /\ wire \in [Requests -> Seq(Frames)]
    BY <1>4, Zenon DEF RInv, IInv, Queues, Wired, Sent
  <2>2. wire'[r] = wire[r] \/ (r = inSend[1].id /\ wire'[r] = Append(wire[r], inSend[1]))
    BY <1>4, <2>1 DEF Sent
  <2>3. Len(Append(wire[r], inSend[1])) = Len(wire[r]) + 1
    BY <1>2, <2>1
  <2>4. stream = "up" => wire'[r] = IF r = inSend[1].id THEN Append(wire[r], inSend[1]) ELSE wire[r]
    BY <1>4, Zenon DEF Sent
  <2>5. CASE UNCHANGED fed
    BY <1>1, <1>3, <2>2, <2>3, <2>5
  <2>6. CASE ~UNCHANGED fed
    <3>1. stream = "up" /\ Takes(inSend[1].id, inSend[1].kind)
      BY <2>6, FedStep, Zenon DEF EdgeSends, clientState
    <3>2. fed' = [fed EXCEPT ![inSend[1].id] = fed[inSend[1].id] + 1]
      BY <2>6, <3>1, TakesOne, Zenon
    <3>3. CASE r = inSend[1].id
      <4>1. fed'[r] = fed[r] + 1 /\ Len(wire'[r]) = Len(wire[r]) + 1
        BY <1>1, <2>3, <2>4, <3>1, <3>2, <3>3, Zenon
      <4> QED
        BY <1>1, <1>3, <4>1
    <3>4. CASE r # inSend[1].id
      BY <1>1, <2>4, <3>1, <3>2, <3>4, Zenon
    <3> QED
      BY <3>3, <3>4
  <2> QED
    BY <2>5, <2>6, Zenon
<1>5. CASE ~Sent
  <2>1. UNCHANGED wire
    BY <1>5, EdgeSide, WireStep, Zenon
  <2>2. UNCHANGED fed
    BY <1>5, FedStep, Zenon DEF EdgeSends
  <2> QED
    BY <1>1, <2>1, <2>2
<1> QED
  BY <1>4, <1>5, Zenon

-----------------------------------------------------------------------------
(* The way down: a response and its body. *)

(* A call of Write has its chunk still to send. *)
Owes(r) == app[r] = "send" /\ todo[r] \in ChunkCalls

Finished == {"close", "delete", "done"}

(* The edge has received at most what was written: all but the chunk that the
   handler is sending, while neither side has noticed a loss; and all of it when
   it was told of the end. *)
DownloadOf(r) ==
  /\ chunks[r] <= writes[r]
  /\ cstream = "up" /\ Owes(r) => chunks[r] < writes[r]
  /\ stream = "up" /\ cstream = "up" => writes[r] = IF Owes(r) THEN chunks[r] + 1 ELSE chunks[r]
  /\ cause[r] = "end" => chunks[r] = writes[r] /\ app[r] \in Finished

Downloads == writes \in [Requests -> Nat] /\ \A r \in Requests : DownloadOf(r)

(* Steps of the edge that receive no frame, and of the client that send none. *)
EdgeQuiet ==
  /\ UNCHANGED chunks
  /\ stream' = "up" => stream = "up"
  /\ \A r \in Requests : cause'[r] = "end" => cause[r] = "end"

ClientQuietFor(r) ==
  /\ app[r] \in Finished => app'[r] \in Finished
  /\ Owes(r)' <=> Owes(r)

ClientQuiet ==
  /\ UNCHANGED writes
  /\ cstream' = "up" => cstream = "up"
  /\ \A r \in Requests : ClientQuietFor(r)

LEMMA QuietStep == Downloads /\ EdgeQuiet /\ ClientQuiet => Downloads'
<1> SUFFICES ASSUME Downloads, EdgeQuiet, ClientQuiet, NEW r \in Requests PROVE DownloadOf(r)'
  BY Zenon DEF Downloads, ClientQuiet
<1>1. chunks'[r] = chunks[r] /\ writes'[r] = writes[r] /\ Owes(r)' = Owes(r)
  BY DEF EdgeQuiet, ClientQuiet, ClientQuietFor, Owes
<1>2. DownloadOf(r)
  BY DEF Downloads
<1> QED
  BY <1>1, <1>2, Zenon DEF DownloadOf, EdgeQuiet, ClientQuiet, ClientQuietFor

LEMMA EdgeIsQuiet ==
  ASSUME Types,
         \/ EdgeAlone \/ Sent \/ StreamFails \/ UNCHANGED vars
         \/ \E r \in Requests : BrowserGone(r) \/ BodyReadFails(r)
  PROVE  EdgeQuiet
<1> USE DEF connVars, clientVars, rsVars
<1>1. ASSUME NEW r \in Requests,
             TryStart(r) \/ ChunkWritten(r) \/ BrowserGone(r) \/ ReadBody(r) \/ BodyReadFails(r)
      PROVE  UNCHANGED <<chunks, cause, stream>>
  BY <1>1, Zenon DEF TryStart, ChunkWritten, BrowserGone, ReadBody, BodyReadFails
<1>2. ASSUME NEW r \in Requests, HandlerStep(r) PROVE UNCHANGED <<chunks, cause, stream>>
  BY <1>2, Zenon DEF HandlerStep, Forward, ForwardFails, ForwardCancelled, AwaitHeaders, TakeChunk, Cancelled,
              SeeDone, EndOfBody, FinishRequest
<1>3. Deliver \/ Discard => UNCHANGED <<chunks, cause, stream>>
  BY Zenon DEF Deliver, Discard
<1>4. failAll => EdgeQuiet
  <2> SUFFICES ASSUME failAll PROVE EdgeQuiet
    BY Zenon
  <2>1. UNCHANGED <<chunks, stream>>
    BY Zenon DEF failAll
  <2>2. \A r \in Requests : cause'[r] = cause[r] \/ cause'[r] = "error"
    BY Zenon DEF failAll
  <2> QED
    BY <2>1, <2>2, Zenon DEF EdgeQuiet
<1>5. Aside => UNCHANGED <<chunks, cause>> /\ (stream' = "up" => stream = "up")
  BY Zenon DEF Aside, StreamEnds, CloseDone, ConnectReturns, Replace, TakeFrame, Sent, SendExits,
         Heartbeat, HeartbeatExits, StreamFails, vars
<1>6. UNCHANGED <<chunks, cause>> /\ (stream' = "up" => stream = "up") => EdgeQuiet
  BY Zenon DEF EdgeQuiet
<1>7. EdgeAlone => \/ \E r \in Requests : TryStart(r) \/ HandlerStep(r) \/ ChunkWritten(r) \/ ReadBody(r)
                   \/ Deliver \/ Discard \/ failAll \/ Aside
  BY Zenon DEF EdgeAlone, ReceiverStep, FailAll, Aside
<1>8. Sent \/ StreamFails \/ UNCHANGED vars => Aside
  BY Zenon DEF Aside
<1> QED
  BY <1>1, <1>2, <1>3, <1>4, <1>5, <1>6, <1>7, <1>8, Zenon

LEMMA SameIsQuiet == UNCHANGED clientState => ClientQuiet
BY Zenon DEF clientState, ClientQuiet, ClientQuietFor, Owes

LEMMA OtherCalls ==
  /\ <<"ResponseStart">> \notin ChunkCalls /\ <<"ResponseEnd">> \notin ChunkCalls
  /\ <<"ResponseError">> \notin ChunkCalls /\ <<"ResponseStart", "ResponseEnd">> \notin ChunkCalls
  /\ <<>> \notin ChunkCalls
BY DEF ChunkCalls

(* A goroutine that neither enters nor leaves a call of the response writer. *)
LEMMA MovesOn ==
  ASSUME Session, NEW r \in Requests, NEW l, Client!Goto(r, l), app[r] # "send", l # "send",
         app[r] \in Finished => l \in Finished, UNCHANGED <<todo, writes, cstream>>
  PROVE  ClientQuiet
<1>1. ASSUME NEW q \in Requests PROVE ClientQuietFor(q)
  <2>1. app'[q] = IF q = r THEN l ELSE app[q]
    BY DEF Session, Client!Goto
  <2> QED
    BY <2>1 DEF ClientQuietFor, Owes
<1> QED
  BY <1>1, Zenon DEF ClientQuiet

(* A call that sends no chunk. *)
LEMMA NoChunk ==
  ASSUME Session, NEW r \in Requests, NEW frames, NEW next, Client!Call(r, frames, next),
         frames \notin ChunkCalls, UNCHANGED writes
  PROVE  ClientQuiet
<1>1. ASSUME NEW q \in Requests PROVE ClientQuietFor(q)
  <2>1. /\ app'[q] = IF q = r THEN "send" ELSE app[q]
        /\ todo'[q] = IF q = r THEN frames ELSE todo[q]
        /\ app[r] = "run"
    BY DEF Session, Client!Goto, Client!Call
  <2> QED
    BY <2>1 DEF ClientQuietFor, Owes, Finished
<1>2. UNCHANGED cstream
  BY Zenon DEF Client!Call, Client!recvVars
<1> QED
  BY <1>1, <1>2, Zenon DEF ClientQuiet

LEMMA HandlerIsQuiet ==
  ASSUME Session, NEW r \in Requests, Client!HandlerStep(r), ~Client!Write(r) PROVE ClientQuiet
<1> USE DEF Client!recvVars, Client!pipeVars, Client!writerVars
<1>1. CASE Client!HandlerLocks(r)
  <2>1. UNCHANGED <<app, todo, writes, cstream>>
    BY <1>1, Zenon DEF Client!HandlerLocks
  <2> QED
    BY <2>1, Zenon DEF ClientQuiet, ClientQuietFor, Owes
<1>2. CASE Client!WriteHeader(r) \/ Client!Fail(r)
  BY <1>2, NoChunk, OtherCalls, Zenon DEF Client!WriteHeader, Client!Fail
<1>3. CASE Client!Finish(r)
  <2>1. Client!Header(r) \o <<"ResponseEnd">> \in {<<"ResponseEnd">>, <<"ResponseStart", "ResponseEnd">>}
    BY HeaderJoined, Zenon
  <2> QED
    BY <1>3, <2>1, NoChunk, OtherCalls, Zenon DEF Client!Finish
<1>4. CASE Client!HandlerWaits(r)
  <2>1. /\ app[r] = "run" /\ (Client!Goto(r, "reading") \/ Client!Goto(r, "waiting"))
        /\ UNCHANGED <<todo, writes, cstream>>
    BY <1>4, Zenon DEF Client!HandlerWaits
  <2> QED
    BY <2>1, MovesOn DEF Finished
<1>5. CASE Client!ReadEnds(r) \/ Client!ContextEnds(r)
  <2>1. /\ app[r] \in {"reading", "waiting"} /\ Client!Goto(r, "run")
        /\ UNCHANGED <<todo, writes, cstream>>
    BY <1>5, Zenon DEF Client!ReadEnds, Client!ContextEnds
  <2> QED
    BY <2>1, MovesOn DEF Finished
<1>6. CASE Client!CloseRequest(r) \/ Client!DeleteRequest(r)
  <2>1. /\ app[r] \in Finished /\ (Client!Goto(r, "delete") \/ Client!Goto(r, "done"))
        /\ UNCHANGED <<todo, writes, cstream>>
    BY <1>6, Zenon DEF Client!CloseRequest, Client!DeleteRequest, Finished
  <2> QED
    BY <2>1, MovesOn DEF Finished
<1> QED
  BY <1>1, <1>2, <1>3, <1>4, <1>5, <1>6, Zenon DEF Client!HandlerStep

LEMMA LoopIsQuiet ==
  ASSUME \/ Client!BodyWriteFails \/ Client!StreamEnds \/ Client!CloseReadEnds \/ Client!ReceiverLocks
         \/ Client!ReceiverSends \/ Client!StreamFails
  PROVE  ClientQuiet
<1>1. UNCHANGED <<app, todo, writes>> /\ (cstream' = "up" => cstream = "up")
  BY Zenon
     DEF Client!BodyWriteFails, Client!StreamEnds, Client!CloseReadEnds, Client!ReceiverLocks,
         Client!ReceiverSends, Client!StreamFails, Client!recvVars, Client!writerVars
<1> QED
  BY <1>1, Zenon DEF ClientQuiet, ClientQuietFor, Owes

LEMMA TakesIsQuiet ==
  ASSUME Session, NEW f \in Frames, Takes(f.id, f.kind) PROVE ClientQuiet
<1>1. CASE f.kind = "RequestStart"
  <2>5. f.id \in Requests /\ Client!RequestStart(f.id)
    BY <1>1 DEF Frames, PingFrame, Takes
  <2>1. fed[f.id] = 0 /\ Client!Goto(f.id, "run") /\ UNCHANGED <<todo, writes, cstream>>
    BY <2>5, Zenon DEF Client!RequestStart, Client!Receiving, Client!writerVars
  <2>2. app[f.id] = "none"
    BY <2>5, <2>1, Zenon DEF Session
  <2> QED
    BY <2>5, <2>1, <2>2, MovesOn, Zenon DEF Finished
<1>2. CASE f.kind # "RequestStart"
  <2>1. UNCHANGED <<app, todo, writes, cstream>>
    BY <1>2, Zenon
       DEF Takes, Client!RequestBody, Client!RequestEnd, Client!CancelRequest, Client!Ping, Client!writerVars
  <2> QED
    BY <2>1, Zenon DEF ClientQuiet, ClientQuietFor, Owes
<1> QED
  BY <1>1, <1>2, Zenon

(* A new call of Write owes its chunk. *)
LEMMA WriteOwes ==
  ASSUME Session, Types, Downloads, NEW w \in Requests, Client!Write(w), UNCHANGED vars PROVE Downloads'
<1> USE DEF Client!recvVars
<1>1. Session /\ writes \in [Requests -> Nat]
  BY Zenon DEF Downloads
<1>2. Client!Header(w) \o <<"ResponseBody">> \in ChunkCalls
  BY HeaderJoined, Zenon DEF ChunkCalls
<1>3. /\ writes' = [writes EXCEPT ![w] = @ + 1] /\ cstream' = cstream
      /\ app[w] = "run" /\ app' = [app EXCEPT ![w] = "send"]
      /\ todo' = [todo EXCEPT ![w] = Client!Header(w) \o <<"ResponseBody">>]
  BY Zenon DEF Client!Write, Client!Call, Client!Goto
<1>4. UNCHANGED <<chunks, stream, cause>>
  BY DEF vars, clientVars, connVars, rsVars
<1>5. ASSUME NEW r \in Requests, r # w PROVE DownloadOf(r)'
  <2>1. app'[r] = app[r] /\ todo'[r] = todo[r] /\ writes'[r] = writes[r]
    BY <1>1, <1>3, <1>5 DEF Session
  <2> QED
    BY <1>3, <1>4, <2>1, Zenon DEF Downloads, DownloadOf, Owes
<1>6. DownloadOf(w)'
  <2>1. writes'[w] = writes[w] + 1 /\ app'[w] = "send" /\ ~Owes(w) /\ app[w] \notin Finished
    BY <1>1, <1>3, Zenon DEF Session, Owes, Finished
  <2>2. Owes(w)'
    BY <1>1, <1>2, <1>3, <2>1, Zenon DEF Session, Owes
  <2>3. chunks[w] \in Nat /\ writes[w] \in Nat /\ chunks'[w] = chunks[w]
    BY <1>1, <1>4 DEF Types
  <2>4. /\ chunks[w] <= writes[w] /\ cause[w] # "end"
        /\ stream = "up" /\ cstream = "up" => writes[w] = chunks[w]
    BY <2>1, Zenon DEF Downloads, DownloadOf
  <2>5. chunks[w] < writes[w] + 1 /\ chunks[w] <= writes[w] + 1
    BY <2>3, <2>4
  <2> QED
    BY <1>3, <1>4, <2>1, <2>2, <2>3, <2>4, <2>5, Zenon DEF DownloadOf
<1>7. writes' \in [Requests -> Nat]
  BY <1>1, <1>3
<1> QED
  BY <1>5, <1>6, <1>7, Zenon DEF Downloads

(* What a frame that was sent leaves of a call. *)
LEMMA SendsOne ==
  ASSUME Session, NEW r \in Requests, Client!HandlerSends(r)
  PROVE  /\ app[r] = "send" /\ UNCHANGED <<writes, cstream>>
         /\ \A q \in Requests \ {r} : app'[q] = app[q] /\ todo'[q] = todo[q]
         /\ cstream = "up" =>
              \/ Head(todo[r]) = "ResponseStart" /\ (Owes(r)' <=> Owes(r))
              \/ Head(todo[r]) = "ResponseBody" /\ Owes(r) /\ ~Owes(r)'
              \/ Head(todo[r]) \in {"ResponseEnd", "ResponseError"} /\ ~Owes(r) /\ ~Owes(r)' /\ app'[r] = "close"
<1> USE DEF Client!recvVars
<1>2. sendMu = r /\ app[r] = "send"
  BY Zenon DEF Client!HandlerSends, Session
<1>3. UNCHANGED <<writes, cstream>>
  BY Zenon DEF Client!HandlerSends
<1>4. /\ app' = [app EXCEPT ![r] = IF todo'[r] = <<>> THEN exit[r] ELSE "send"]
      /\ todo' = [todo EXCEPT ![r] = <<>>] \/ todo' = [todo EXCEPT ![r] = Tail(@)]
      /\ cstream = "up" => todo' = [todo EXCEPT ![r] = Tail(@)]
  BY Zenon DEF Client!HandlerSends, Client!Goto
<1>5. ASSUME NEW q \in Requests \ {r} PROVE app'[q] = app[q] /\ todo'[q] = todo[q]
  BY <1>4 DEF Session
<1>6. ASSUME cstream = "up"
      PROVE  \/ Head(todo[r]) = "ResponseStart" /\ (Owes(r)' <=> Owes(r))
             \/ Head(todo[r]) = "ResponseBody" /\ Owes(r) /\ ~Owes(r)'
             \/ Head(todo[r]) \in {"ResponseEnd", "ResponseError"} /\ ~Owes(r) /\ ~Owes(r)' /\ app'[r] = "close"
  <2>1. CallOf(r)
    BY <1>2, <1>6, Zenon DEF Session
  <2>2. todo'[r] = Tail(todo[r]) /\ app'[r] = IF Tail(todo[r]) = <<>> THEN exit[r] ELSE "send"
    BY <1>4, <1>6, Zenon DEF Session
  <2>3. (Owes(r) <=> todo[r] \in ChunkCalls) /\ (Owes(r)' => Tail(todo[r]) \in ChunkCalls)
    BY <1>2, <2>2, Zenon DEF Owes
  <2>5. CASE todo[r] \in {<<"ResponseStart">>, <<"ResponseStart", "ResponseEnd">>}
    <3>1. Head(todo[r]) = "ResponseStart" /\ Tail(todo[r]) \in {<<>>, <<"ResponseEnd">>}
      BY Lists, <2>5, Zenon
    <3> QED
      BY <2>3, <2>5, <3>1, OtherCalls, Zenon
  <2>6. CASE todo[r] = <<"ResponseStart", "ResponseBody">>
    <3>1. Head(todo[r]) = "ResponseStart" /\ Tail(todo[r]) = <<"ResponseBody">> /\ Tail(todo[r]) # <<>>
      BY Lists, <2>6, Zenon
    <3>2. Owes(r) /\ Owes(r)'
      BY <2>2, <2>3, <2>6, <3>1, Zenon DEF Owes, ChunkCalls
    <3> QED
      BY <3>1, <3>2
  <2>7. CASE todo[r] = <<"ResponseBody">>
    <3>1. Head(todo[r]) = "ResponseBody" /\ Tail(todo[r]) = <<>> /\ todo[r] \in ChunkCalls
      BY Lists, <2>7, Zenon DEF ChunkCalls
    <3> QED
      BY <2>3, <3>1, OtherCalls, Zenon
  <2>8. CASE exit[r] = "close" /\ todo[r] \in {<<"ResponseEnd">>, <<"ResponseError">>}
    <3>1. Head(todo[r]) \in {"ResponseEnd", "ResponseError"} /\ Tail(todo[r]) = <<>>
      BY Lists, <2>8, Zenon
    <3> QED
      BY <2>2, <2>3, <2>8, <3>1, OtherCalls, Zenon
  <2> QED
    BY <2>1, <2>5, <2>6, <2>7, <2>8, Zenon DEF CallOf, ChunkCalls
<1> QED
  BY <1>2, <1>3, <1>5, <1>6, Zenon

LEMMA SendsStep ==
  ASSUME Session, Types, Downloads, NEW w \in Requests, ClientSends(w) PROVE Downloads'
<1> USE DEF rsVars, clientVars, connVars
<1>1. Client!HandlerSends(w)
  BY Zenon DEF ClientSends
<1>2. /\ app[w] = "send" /\ UNCHANGED <<writes, cstream>>
      /\ \A q \in Requests \ {w} : app'[q] = app[q] /\ todo'[q] = todo[q]
  BY <1>1, SendsOne, Zenon
<1>3. writes \in [Requests -> Nat] /\ writes' \in [Requests -> Nat] /\ DownloadOf(w)
  BY <1>2, Zenon DEF Downloads
<1>4. ASSUME NEW r \in Requests, r # w, chunks'[r] = chunks[r], cause'[r] = cause[r], stream' = stream
      PROVE  DownloadOf(r)'
  <2>1. app'[r] = app[r] /\ todo'[r] = todo[r]
    BY <1>2, <1>4, Zenon
  <2> QED
    BY <1>2, <1>4, <2>1, Zenon DEF Downloads, DownloadOf, Owes
<1>5. cause[w] # "end"
  BY <1>2, <1>3, Zenon DEF DownloadOf, Finished
<1>6. chunks[w] \in Nat /\ writes[w] \in Nat /\ chunks \in [Requests -> Nat]
  BY <1>3 DEF Types
<1>7. CASE UNCHANGED vars /\ (stream = "down" \/ cstream = "down")
  <2>1. UNCHANGED <<chunks, stream, cause>>
    BY <1>7 DEF vars
  <2>2. cstream = "up" /\ Owes(w)' => Owes(w)
    BY <1>1, SendsOne, Zenon
  <2>3. DownloadOf(w)'
    BY <1>2, <1>3, <1>5, <1>7, <2>1, <2>2, Zenon DEF DownloadOf
  <2> QED
    BY <1>3, <1>4, <2>1, <2>3, Zenon DEF Downloads
<1>8. CASE cstream = "up" /\ Head(todo[w]) = "ResponseStart" /\ ReceiveStart(w)
  <2>1. UNCHANGED <<chunks, stream, cause>>
    BY <1>8, Zenon DEF ReceiveStart, Receiving
  <2>2. Owes(w)' <=> Owes(w)
    BY <1>1, <1>8, SendsOne, Zenon
  <2>3. DownloadOf(w)'
    BY <1>2, <1>3, <1>5, <2>1, <2>2, Zenon DEF DownloadOf
  <2> QED
    BY <1>3, <1>4, <2>1, <2>3, Zenon DEF Downloads
<1>9. CASE cstream = "up" /\ Head(todo[w]) = "ResponseBody" /\ ReceiveBody(w)
  <2>1. UNCHANGED <<stream, cause>> /\ chunks' = [chunks EXCEPT ![w] = @ + 1]
    BY <1>9, Zenon DEF ReceiveBody, Receiving
  <2>2. Owes(w) /\ ~Owes(w)'
    BY <1>1, <1>9, SendsOne, Zenon
  <2>3. chunks'[w] = chunks[w] + 1 /\ \A q \in Requests \ {w} : chunks'[q] = chunks[q]
    <3>1. ASSUME NEW f \in [Requests -> Nat], NEW v
          PROVE  /\ [f EXCEPT ![w] = v][w] = v
                 /\ \A q \in Requests \ {w} : [f EXCEPT ![w] = v][q] = f[q]
      BY SMTT(20)
    <3> QED
      BY <1>6, <2>1, <3>1, Zenon
  <2>4. chunks[w] < writes[w] /\ (stream = "up" => writes[w] = chunks[w] + 1)
    <3>1. chunks[w] < writes[w]
      BY <1>3, <1>9, <2>2, Zenon DEF DownloadOf
    <3>2. stream = "up" => writes[w] = chunks[w] + 1
      BY <1>3, <1>9, <2>2, Zenon DEF DownloadOf
    <3> QED
      BY <3>1, <3>2, Zenon
  <2>5. DownloadOf(w)'
    <3>1. \A c, n \in Nat : c < n => c + 1 <= n
      BY SMTT(20)
    <3>2. chunks'[w] <= writes'[w]
      BY <1>2, <1>6, <2>3, <2>4, <3>1, Zenon
    <3>3. stream' = "up" => writes'[w] = chunks'[w]
      BY <1>2, <2>1, <2>3, <2>4, Zenon
    <3>4. cause'[w] # "end"
      BY <1>5, <2>1, Zenon
    <3> QED
      BY <2>2, <3>2, <3>3, <3>4, Zenon DEF DownloadOf
  <2> QED
    BY <1>3, <1>4, <2>1, <2>3, <2>5, Zenon DEF Downloads
<1>10. CASE /\ cstream = "up" /\ Head(todo[w]) \in {"ResponseEnd", "ResponseError"}
            /\ ReceiveEnd(w, "end") \/ ReceiveEnd(w, "error")
  <2>1. UNCHANGED <<chunks, stream>> /\ stream = "up"
    BY <1>10, Zenon DEF ReceiveEnd, Receiving
  <2>2. \A q \in Requests \ {w} : cause'[q] = cause[q]
    BY <1>10 DEF ReceiveEnd, Close, Types
  <2>3. ~Owes(w) /\ ~Owes(w)' /\ app'[w] \in Finished
    BY <1>1, <1>10, SendsOne, Zenon DEF Finished
  <2>4. DownloadOf(w)'
    BY <1>2, <1>3, <1>10, <2>1, <2>3, Zenon DEF DownloadOf
  <2> QED
    BY <1>3, <1>4, <2>1, <2>2, <2>4, Zenon DEF Downloads
<1> QED
  BY <1>7, <1>8, <1>9, <1>10, Zenon DEF ClientSends, Receives

LEMMA DownloadsStep ==
  ASSUME IInv, Session, Downloads, [TunnelNext]_tunnelVars PROVE Downloads'
<1>1. Types /\ Queues
  BY Zenon DEF IInv
<1>2. UNCHANGED vars => EdgeQuiet
  BY <1>1, EdgeIsQuiet, Zenon
<1>3. CASE EdgeAlone
  BY <1>1, <1>3, EdgeIsQuiet, SameIsQuiet, QuietStep, Zenon DEF EdgeAlone
<1>4. CASE \E r \in Requests : Leaves(r)
  BY <1>1, <1>4, EdgeIsQuiet, SameIsQuiet, QuietStep, Zenon DEF Leaves
<1>5. ASSUME NEW r \in Requests, Client!HandlerStep(r), UNCHANGED vars PROVE Downloads'
  BY <1>1, <1>2, <1>5, HandlerIsQuiet, WriteOwes, QuietStep, Zenon
<1>6. ASSUME NEW r \in Requests, Client!ReadChunk(r), UNCHANGED vars PROVE Downloads'
  <2>1. /\ app[r] = "reading" /\ Client!Goto(r, "run") /\ UNCHANGED <<todo, writes, cstream>>
    BY <1>6, Zenon DEF Client!ReadChunk, Client!writerVars
  <2>2. ClientQuiet
    BY <1>1, <2>1, MovesOn, Zenon DEF Finished
  <2> QED
    BY <1>2, <1>6, <2>2, QuietStep, Zenon
<1>7. CASE ClientAlone
  BY <1>2, <1>5, <1>6, <1>7, LoopIsQuiet, QuietStep, Zenon DEF ClientAlone
<1>8. CASE EdgeSends
  <2>1. inSend[1] \in Frames
    BY <1>1, <1>8 DEF EdgeSends, Sent, Queues
  <2>2. ClientQuiet
    BY <1>1, <1>8, <2>1, TakesIsQuiet, SameIsQuiet, Zenon DEF EdgeSends
  <2> QED
    BY <1>1, <1>8, <2>2, EdgeIsQuiet, QuietStep, Zenon DEF EdgeSends
<1>9. CASE PongSent
  BY <1>2, <1>9, LoopIsQuiet, QuietStep, Zenon DEF PongSent
<1>10. ASSUME NEW r \in Requests, ClientSends(r) PROVE Downloads'
  BY <1>1, <1>10, SendsStep, Zenon
<1>11. CASE Loss
  BY <1>1, <1>2, <1>11, EdgeIsQuiet, LoopIsQuiet, SameIsQuiet, QuietStep, Zenon DEF Loss
<1>12. CASE UNCHANGED tunnelVars
  BY <1>2, <1>12, SameIsQuiet, QuietStep, Zenon DEF tunnelVars
<1> QED
  BY <1>3, <1>4, <1>7, <1>8, <1>9, <1>10, <1>11, <1>12, Zenon DEF TunnelNext, Progress

-----------------------------------------------------------------------------
(* The tunnel's two sides behave as EdgeStream and ClientSession say. *)

(* In the tunnel the edge does what EdgeStream allows it: what was environment
   there, the frames a client may send and when, is what this client does. *)
THEOREM EdgeRefined == TunnelSpec => Spec
<1>1. TunnelInit => Init
  BY Zenon DEF TunnelInit
<1> QED
  BY <1>1, EdgeSide, PTL DEF TunnelSpec, Spec

LEMMA QueuesHold == TunnelSpec => []Queues
<1>1. RInv => Queues
  BY Zenon DEF RInv, IInv
<1> QED
  BY <1>1, EdgeRefined, RequestInvariance, PTL

(* In the tunnel the client does what ClientSession allows it: the edge sends the
   frames of a request in the order, and as many, as the client's session expects. *)
THEOREM ClientRefined == TunnelSpec => Client!Spec
<1>1. TunnelInit => Client!Init
  BY Zenon DEF TunnelInit
<1> QED
  BY <1>1, ClientSide, QueuesHold, PTL DEF TunnelSpec, Client!Spec

LEMMA InitData == TunnelInit => Uploads /\ Downloads
<1> SUFFICES ASSUME TunnelInit PROVE Uploads /\ Downloads
  BY Zenon
<1>1. ASSUME NEW r \in Requests
      PROVE  /\ fed[r] = 0 /\ Len(wire[r]) = 0 /\ writes[r] = 0 /\ chunks[r] = 0
             /\ cause[r] # "end" /\ ~Owes(r)
  BY SMTT(20) DEF TunnelInit, Init, Client!Init, Owes
<1>2. writes \in [Requests -> Nat]
  BY SMTT(20) DEF TunnelInit, Client!Init
<1>3. 0 <= 0
  BY SMTT(20)
<1> QED
  BY <1>1, <1>2, <1>3, Zenon DEF Uploads, Downloads, DownloadOf

(* How much of a request was read (g), fed (f), sent (w) and queued (s). *)
LEMMA Amounts ==
  \A b, f, g, s, w \in Nat : \A last :
    last = b + 1 /\ f <= w /\ s <= last + 1 /\ (w <= s \/ s = last + 1) =>
      /\ g < f /\ g <= b => g < s
      /\ f >= b + 2 => s = last + 1
<1> TAKE b, f, g, s, w \in Nat
<1> TAKE last
<1> QED
  BY SMTT(20)

LEMMA Lengths ==
  /\ \A S : \A x \in Seq(S) : Len(x) \in Nat
  /\ \A k, m, n \in Nat : k <= m /\ m <= n => k <= n
BY SMTT(20)

LEMMA UploadsFollow ==
  RInv /\ Session /\ Uploads /\ (\A r \in Requests : ReadOf(r)) => UploadTruthful
<1> SUFFICES ASSUME RInv, Session, Uploads, \A q \in Requests : ReadOf(q), NEW r \in Requests
             PROVE  /\ Len(got[r]) < sentFrames[r] \/ got[r] = <<>>
                    /\ got[r] = FirstChunks(Len(got[r]))
                    /\ bodyEnd[r] = "eof" => sentFrames[r] = LastFrame(r) + 1 /\ Len(got[r]) = BodyFrames[r]
  BY Zenon DEF UploadTruthful
<1> DEFINE g == Len(got[r])
           w == Len(wire[r])
           b == BodyFrames[r]
           f == fed[r]
           s == sentFrames[r]
<1>1. f <= w
  BY Zenon DEF Uploads
<1>2. Types /\ Counted /\ Wired
  BY Zenon DEF RInv, IInv
<1>3. ReadOf(r)
  BY Zenon
<1>4. /\ got[r] \in Seq(Int) /\ wire[r] \in Seq(Frames) /\ f \in Nat /\ s \in Nat
  BY <1>2, <1>3, SMTT(20), Zenon DEF Types, Wired, Session, ReadOf
<1>5. g \in Nat /\ w \in Nat
  BY <1>4, Lengths, Zenon
<1>6. b \in Nat /\ LastFrame(r) = b + 1
  BY StreamAssumption, Zenon DEF LastFrame
<1>7. s <= LastFrame(r) + 1 /\ (w <= s \/ s = LastFrame(r) + 1)
  BY <1>2, Zenon DEF Counted, Wired
<1>8. /\ got[r] = <<>> \/ g < f
      /\ g <= b
      /\ bodyEnd[r] = "eof" => f >= b + 2 /\ g = b
  BY <1>3, Zenon DEF ReadOf
<1>9. got[r] = FirstChunks(g)
  <2>1. ASSUME NEW h \in Seq(Int), \A i \in 1 .. Len(h) : h[i] = i PROVE h = [i \in 1 .. Len(h) |-> i]
    BY <2>1, SMTT(20)
  <2> QED
    BY <1>3, <1>4, <2>1, Zenon DEF ReadOf, FirstChunks
<1> HIDE DEF g, w, b, f, s
<1>10. /\ g < f /\ g <= b => g < s
       /\ f >= b + 2 => s = LastFrame(r) + 1
  <2>1. LastFrame(r) = b + 1 /\ f <= w /\ s <= LastFrame(r) + 1 /\ (w <= s \/ s = LastFrame(r) + 1) =>
          /\ g < f /\ g <= b => g < s
          /\ f >= b + 2 => s = LastFrame(r) + 1
    BY <1>4, <1>5, <1>6, Amounts, Zenon
  <2> QED
    BY <1>1, <1>6, <1>7, <2>1, Zenon
<1>11. got[r] = <<>> \/ g < s
  BY <1>8, <1>10, Zenon
<1>12. bodyEnd[r] = "eof" => s = LastFrame(r) + 1 /\ g = b
  BY <1>8, <1>10, Zenon
<1> QED
  BY <1>9, <1>11, <1>12, Zenon DEF g, b, s

LEMMA DownloadsFollow == IInv /\ Downloads /\ BodyConserved => DownloadTruthful
<1> SUFFICES ASSUME IInv, Downloads, BodyConserved, NEW r \in Requests
             PROVE  /\ received[r] = FirstChunks(Len(received[r])) /\ Len(received[r]) <= writes[r]
                    /\ SeesEnd(r) /\ hdr[r] = "ok" /\ cause[r] = "end" => Len(received[r]) = writes[r]
  BY Zenon DEF DownloadTruthful
<1>2. DeliveredOf(r) /\ DownloadOf(r) /\ Types /\ writes \in [Requests -> Nat]
  BY Zenon DEF IInv, Rest, Delivered, Downloads
<1>3. received[r] \in Seq(Nat) /\ chunks[r] \in Nat /\ writes[r] \in Nat
  BY <1>2, SMTT(20) DEF Types
<1>4. received[r] = FirstChunks(Len(received[r]))
  <2>1. ASSUME NEW h \in Seq(Nat), \A i \in 1 .. Len(h) : h[i] = i PROVE h = [i \in 1 .. Len(h) |-> i]
    BY <2>1, SMTT(20)
  <2> QED
    BY <1>2, <1>3, <2>1, Zenon DEF DeliveredOf, FirstChunks
<1>5. Len(received[r]) <= chunks[r] /\ chunks[r] <= writes[r] /\ (cause[r] = "end" => chunks[r] = writes[r])
  BY <1>2, Zenon DEF DeliveredOf, DownloadOf
<1>6. Len(received[r]) \in Nat
  BY <1>3, Lengths, Zenon
<1>7. Len(received[r]) <= writes[r]
  BY <1>3, <1>5, <1>6, Lengths, Zenon
<1>8. SeesEnd(r) /\ hdr[r] = "ok" /\ cause[r] = "end" => Len(received[r]) = writes[r]
  BY <1>5, Zenon DEF BodyConserved
<1> QED
  BY <1>4, <1>7, <1>8, Zenon

-----------------------------------------------------------------------------
(* What both sides know of each other while the stream is up. *)

(* No side's stream comes up again. *)
LEMMA EdgeStaysDown == [Next]_vars /\ stream' = "up" => stream = "up"
<1> SUFFICES ASSUME [Next]_vars, stream' = "up" PROVE stream = "up"
  OBVIOUS
<1> USE DEF connVars
<1>1. ASSUME NEW r \in Requests,
             TryStart(r) \/ ChunkWritten(r) \/ BrowserGone(r) \/ ReadBody(r) \/ BodyReadFails(r)
      PROVE  UNCHANGED stream
  BY <1>1, Zenon DEF TryStart, ChunkWritten, BrowserGone, ReadBody, BodyReadFails
<1>2. ASSUME NEW r \in Requests, HandlerStep(r) PROVE UNCHANGED stream
  BY <1>2, Zenon DEF HandlerStep, Forward, ForwardFails, ForwardCancelled, AwaitHeaders, TakeChunk, Cancelled,
              SeeDone, EndOfBody, FinishRequest
<1>3. ASSUME NEW r \in Requests, ClientFrame(r) PROVE UNCHANGED stream
  BY <1>3, Zenon DEF ClientFrame, ReceiveStart, ReceiveBody, ReceiveEnd, Receiving
<1>4. Deliver \/ Discard \/ failAll => UNCHANGED stream
  BY Zenon DEF Deliver, Discard, failAll
<1>5. Aside => stream = "up"
  BY Zenon DEF Aside, StreamEnds, CloseDone, ConnectReturns, Replace, TakeFrame, SendExits, Sent,
         Heartbeat, HeartbeatExits, StreamFails, vars
<1> QED
  BY <1>1, <1>2, <1>3, <1>4, <1>5, StepCases, Zenon

(* While the edge has not noticed a loss its goroutines run. *)
EdgeRuns == stream = "up" => once = "open" /\ recv = "recv" /\ send # "ended"

LEMMA EdgeRunsStep == EdgeRuns /\ [TunnelNext]_tunnelVars => EdgeRuns'
<1> SUFFICES ASSUME EdgeRuns, [TunnelNext]_tunnelVars, stream' = "up"
             PROVE  once' = "open" /\ recv' = "recv" /\ send' # "ended"
  BY Zenon DEF EdgeRuns
<1>1. stream = "up" /\ once = "open" /\ recv = "recv" /\ send # "ended"
  BY EdgeSide, EdgeStaysDown, Zenon DEF EdgeRuns
<1> USE DEF connVars, sendVars
<1>2. ASSUME NEW r \in Requests,
             \/ TryStart(r) \/ HandlerStep(r) \/ ChunkWritten(r) \/ BrowserGone(r) \/ ReadBody(r) \/ BodyReadFails(r)
             \/ ReceiveStart(r) \/ ReceiveBody(r) \/ ReceiveEnd(r, "end") \/ ReceiveEnd(r, "error")
      PROVE  UNCHANGED <<once, recv, send>>
  BY <1>2, Zenon DEF TryStart, ChunkWritten, BrowserGone, ReadBody, BodyReadFails, HandlerStep, Forward, ForwardFails,
         ForwardCancelled, AwaitHeaders, TakeChunk, Cancelled, SeeDone, EndOfBody, FinishRequest,
         ReceiveStart, ReceiveBody, ReceiveEnd, Receiving
<1>3. Deliver \/ Discard \/ Heartbeat => UNCHANGED <<once, recv, send>>
  BY Zenon DEF Deliver, Discard, Heartbeat
<1>4. ~StreamEnds /\ ~CloseDone /\ ~FailAll /\ ~ConnectReturns /\ ~SendExits /\ ~HeartbeatExits
  BY <1>1 DEF StreamEnds, CloseDone, FailAll, ConnectReturns, SendExits, HeartbeatExits, sessDone
<1>5. TakeFrame \/ Sent => UNCHANGED <<once, recv>> /\ send' # "ended"
  BY <1>1 DEF TakeFrame, Sent
<1>6. UNCHANGED vars => UNCHANGED <<once, recv, send>>
  BY Zenon DEF vars
<1>7. EdgeAlone => UNCHANGED <<once, recv, send>> \/ TakeFrame
  BY <1>2, <1>3, <1>4, Zenon DEF EdgeAlone, ReceiverStep
<1>8. ASSUME NEW r \in Requests, ClientSends(r) \/ Leaves(r) PROVE UNCHANGED <<once, recv, send>>
  BY <1>2, <1>6, <1>8, Zenon DEF ClientSends, Receives, Leaves
<1>9. Loss => UNCHANGED <<once, recv, send>>
  BY <1>6, Zenon DEF Loss, StreamFails
<1>10. ClientAlone \/ PongSent \/ UNCHANGED tunnelVars => UNCHANGED <<once, recv, send>>
  BY <1>6, Zenon DEF ClientAlone, PongSent, tunnelVars
<1>11. EdgeSends => Sent
  BY Zenon DEF EdgeSends
<1>12. UNCHANGED <<once, recv, send>> => once' = "open" /\ recv' = "recv" /\ send' # "ended"
  BY <1>1, Zenon
<1> QED
  BY <1>1, <1>5, <1>7, <1>8, <1>9, <1>10, <1>11, <1>12, Zenon DEF TunnelNext, Progress

(* Who sends a frame of a response, and who counts a Write. *)
LEMMA ClientMoves ==
  ASSUME [TunnelNext]_tunnelVars
  PROVE  /\ UNCHANGED writes \/ \E r \in Requests : Client!Write(r)
         /\ UNCHANGED sent \/ PongSent \/ \E r \in Requests : ClientSends(r)
<1> USE DEF Client!writerVars
<1>1. UNCHANGED clientState => UNCHANGED <<writes, sent>>
  BY Zenon DEF clientState
<1>2. CASE EdgeAlone \/ \E r \in Requests : Leaves(r)
  BY <1>1, <1>2, Zenon DEF EdgeAlone, Leaves
<1>3. ASSUME NEW r \in Requests, Client!HandlerStep(r) \/ Client!ReadChunk(r)
      PROVE  UNCHANGED sent /\ (UNCHANGED writes \/ Client!Write(r))
  BY <1>3, Zenon
     DEF Client!HandlerStep, Client!HandlerLocks, Client!WriteHeader, Client!Write, Client!Finish, Client!Fail,
         Client!Call, Client!HandlerWaits, Client!ReadEnds, Client!ContextEnds, Client!CloseRequest,
         Client!DeleteRequest, Client!ReadChunk
<1>4. CASE ClientAlone
  BY <1>3, <1>4, Zenon
     DEF ClientAlone, Client!BodyWriteFails, Client!StreamEnds, Client!CloseReadEnds, Client!ReceiverLocks
<1>5. ASSUME NEW r \in Requests, ClientSends(r) PROVE UNCHANGED writes
  BY <1>5, Zenon DEF ClientSends, Client!HandlerSends
<1>6. PongSent => UNCHANGED writes
  BY Zenon DEF PongSent, Client!ReceiverSends
<1>7. CASE Loss
  BY <1>1, <1>7, Zenon DEF Loss, Client!StreamFails
<1>8. CASE UNCHANGED tunnelVars
  BY <1>1, <1>8, Zenon DEF tunnelVars
<1>9. ASSUME NEW r, NEW kind, Takes(r, kind) PROVE UNCHANGED <<writes, sent>>
  BY <1>9, Zenon DEF Takes, Client!RequestStart, Client!RequestBody, Client!RequestEnd, Client!CancelRequest, Client!Ping
<1>10. CASE EdgeSends
  BY <1>1, <1>9, <1>10, Zenon DEF EdgeSends
<1> QED
  BY <1>2, <1>4, <1>5, <1>6, <1>7, <1>8, <1>10, Zenon DEF TunnelNext, Progress

(* And who receives one. *)
LEMMA ReplyMoves ==
  ASSUME [TunnelNext]_tunnelVars
  PROVE  UNCHANGED reply \/ \E r \in Requests : ClientSends(r)
<1> USE DEF connVars, clientVars
<1>1. ASSUME NEW r \in Requests,
             TryStart(r) \/ ChunkWritten(r) \/ BrowserGone(r) \/ ReadBody(r) \/ BodyReadFails(r)
      PROVE  UNCHANGED reply
  BY <1>1, Zenon DEF TryStart, ChunkWritten, BrowserGone, ReadBody, BodyReadFails
<1>2. ASSUME NEW r \in Requests, HandlerStep(r) PROVE UNCHANGED reply
  BY <1>2, Zenon DEF HandlerStep, Forward, ForwardFails, ForwardCancelled, AwaitHeaders, TakeChunk, Cancelled,
              SeeDone, EndOfBody, FinishRequest
<1>3. Deliver \/ Discard \/ failAll \/ Aside => UNCHANGED reply
  BY Zenon DEF Deliver, Discard, failAll, Aside, StreamEnds, CloseDone, ConnectReturns, Replace, TakeFrame,
         SendExits, Sent, Heartbeat, HeartbeatExits, StreamFails, vars
<1>4. EdgeAlone => \/ \E r \in Requests : TryStart(r) \/ HandlerStep(r) \/ ChunkWritten(r) \/ ReadBody(r)
                   \/ Deliver \/ Discard \/ failAll \/ Aside
  BY Zenon DEF EdgeAlone, ReceiverStep, FailAll, Aside
<1>5. Sent \/ StreamFails \/ UNCHANGED vars => Aside
  BY Zenon DEF Aside
<1> QED
  BY <1>1, <1>2, <1>3, <1>4, <1>5, Zenon DEF TunnelNext, Progress, ClientAlone, EdgeSends, PongSent, Loss, Leaves,
     tunnelVars

LEMMA UpNotDown == \A x : x = "up" => x # "down"
OBVIOUS

(* A frame of a request is counted by the loop; the first one starts its goroutine. *)
LEMMA TakesCounts ==
  ASSUME Session, NEW f \in Frames, Takes(f.id, f.kind)
  PROVE  /\ f.id \in Requests => /\ fed' = [fed EXCEPT ![f.id] = fed[f.id] + 1]
                                 /\ fed[f.id] # 0 \/ app' = [app EXCEPT ![f.id] = "run"]
         /\ f.id \notin Requests => UNCHANGED fed
<1>1. f.id \notin Requests => f.kind = "Ping"
  BY DEF Frames, PingFrame
<1>2. f.kind = "Ping" => f.id \notin Requests
  BY StreamAssumption DEF Frames, PingFrame
<1>3. f.kind = "Ping" => UNCHANGED fed
  BY Zenon DEF Takes, Client!Ping
<1>4. ASSUME NEW r \in Requests, f.id = r
      PROVE  /\ fed' = [fed EXCEPT ![r] = fed[r] + 1]
             /\ fed[r] # 0 \/ app' = [app EXCEPT ![r] = "run"]
  <2>1. \/ Client!RequestStart(r) \/ Client!RequestBody(r) \/ Client!RequestEnd(r) \/ Client!CancelRequest(r)
    BY <1>2, <1>4, Zenon DEF Takes
  <2>2. BodyFrames[r] \in Nat
    BY StreamAssumption
  <2>3. CASE Client!RequestStart(r)
    BY <2>3, Zenon DEF Client!RequestStart, Client!Receiving, Client!Goto
  <2>4. CASE Client!RequestBody(r)
    BY <2>2, <2>4 DEF Client!RequestBody, Client!Receiving
  <2>5. CASE Client!RequestEnd(r) \/ Client!CancelRequest(r)
    BY <2>2, <2>5 DEF Client!RequestEnd, Client!CancelRequest, Client!Receiving
  <2> QED
    BY <2>1, <2>3, <2>4, <2>5, Zenon
<1> QED
  BY <1>1, <1>3, <1>4, Zenon

(* Every request the client knows of has a goroutine: the edge sends none that
   http.NewRequestWithContext would refuse. *)
Started == \A r \in Requests : app[r] = "none" => fed[r] = 0

LEMMA StartedStep ==
  ASSUME Session, Queues, Started, [TunnelNext]_tunnelVars,
         \A r \in Requests : app[r] # "none" => app'[r] # "none"
  PROVE  Started'
<1> SUFFICES ASSUME NEW r \in Requests, app'[r] = "none" PROVE fed'[r] = 0
  BY Zenon DEF Started
<1>1. app[r] = "none" /\ fed[r] = 0 /\ fed \in [Requests -> Nat] /\ app \in [Requests -> Client!HandlerStates]
  BY Zenon DEF Started, Session
<1>2. CASE UNCHANGED fed
  BY <1>1, <1>2
<1>3. CASE EdgeSends /\ ~UNCHANGED fed
  <2>1. Takes(inSend[1].id, inSend[1].kind) /\ inSend[1] \in Frames
    BY <1>3, Zenon DEF EdgeSends, clientState, Sent, Queues
  <2>2. PICK q \in Requests : /\ fed' = [fed EXCEPT ![q] = fed[q] + 1]
                              /\ fed[q] # 0 \/ app' = [app EXCEPT ![q] = "run"]
    BY <1>3, <2>1, TakesCounts, Zenon
  <2>3. q # r
    BY <1>1, <2>2
  <2> QED
    BY <1>1, <2>2, <2>3
<1> QED
  BY <1>2, <1>3, FedStep, Zenon

(* What the edge has received of a response whose last frame was of this kind. *)
Answered(kind) ==
  CASE kind = "none"                            -> "start"
    [] kind \in {"ResponseStart", "ResponseBody"} -> "body"
    [] OTHER                                    -> "over"

(* While neither side has noticed a loss they agree on what was sent. *)
Agrees(r) == fed[r] = Len(wire[r]) /\ reply[r] = Answered(sent[r])

Agree == stream = "up" /\ cstream = "up" => \A r \in Requests : Agrees(r)

(* The loop answers pings only. *)
PongsOnly == sendMu = Receiver => cur = NoOne

LEMMA WireMoves == [TunnelNext]_tunnelVars => EdgeSends \/ UNCHANGED <<wire, fed>>
<1> SUFFICES ASSUME [TunnelNext]_tunnelVars, ~EdgeSends PROVE UNCHANGED wire
  BY FedStep, Zenon
<1> USE DEF connVars, sendVars
<1>1. ASSUME NEW r \in Requests,
             TryStart(r) \/ ChunkWritten(r) \/ BrowserGone(r) \/ ReadBody(r) \/ BodyReadFails(r)
      PROVE  UNCHANGED wire
  BY <1>1, Zenon DEF TryStart, ChunkWritten, BrowserGone, ReadBody, BodyReadFails
<1>2. ASSUME NEW r \in Requests, HandlerStep(r) PROVE UNCHANGED wire
  BY <1>2, Zenon DEF HandlerStep, Forward, ForwardFails, ForwardCancelled, AwaitHeaders, TakeChunk, Cancelled,
              SeeDone, EndOfBody, FinishRequest
<1>3. Deliver \/ Discard \/ failAll \/ StreamFails \/ UNCHANGED vars => UNCHANGED wire
  BY Zenon DEF Deliver, Discard, failAll, StreamFails, vars
<1>4. StreamEnds \/ CloseDone \/ ConnectReturns \/ TakeFrame \/ SendExits \/ Heartbeat \/ HeartbeatExits
        => UNCHANGED wire
  BY Zenon DEF StreamEnds, CloseDone, ConnectReturns, TakeFrame, SendExits, Heartbeat, HeartbeatExits
<1>5. ASSUME NEW r, NEW kind, Receives(r, kind) PROVE UNCHANGED wire
  BY <1>5, Zenon DEF Receives, ReceiveStart, ReceiveBody, ReceiveEnd, Receiving
<1>6. EdgeAlone => UNCHANGED wire
  BY <1>1, <1>2, <1>3, <1>4, Zenon DEF EdgeAlone, ReceiverStep, FailAll
<1>7. ASSUME NEW r \in Requests, ClientSends(r) \/ Leaves(r) PROVE UNCHANGED wire
  BY <1>1, <1>3, <1>5, <1>7, Zenon DEF ClientSends, Leaves
<1>8. ClientAlone \/ PongSent \/ Loss \/ UNCHANGED tunnelVars => UNCHANGED wire
  BY <1>3, Zenon DEF ClientAlone, PongSent, Loss, tunnelVars
<1> QED
  BY <1>6, <1>7, <1>8, Zenon DEF TunnelNext, Progress

LEMMA Appended ==
  ASSUME NEW S, NEW s \in Seq(S), NEW e \in S PROVE Len(Append(s, e)) = Len(s) + 1
OBVIOUS

LEMMA FedAgrees ==
  ASSUME RInv, Session, stream = "up", cstream = "up", [TunnelNext]_tunnelVars,
         NEW r \in Requests, fed[r] = Len(wire[r])
  PROVE  fed'[r] = Len(wire'[r])
<1>1. fed \in [Requests -> Nat] /\ wire[r] \in Seq(Frames)
  BY Zenon DEF Session, RInv, Wired
<1>2. CASE EdgeSends
  <2>1. inSend[1] \in Frames
    BY <1>2, Zenon DEF EdgeSends, RInv, IInv, Queues, Sent
  <2>2. wire'[r] = IF r = inSend[1].id THEN Append(wire[r], inSend[1]) ELSE wire[r]
    <3>1. stream # "down"
      BY UpNotDown, Zenon
    <3> QED
      BY <1>2, <3>1, Zenon DEF EdgeSends, Sent
  <2>3. Takes(inSend[1].id, inSend[1].kind)
    <3>1. stream # "down" /\ cstream # "down"
      BY UpNotDown, Zenon
    <3>2. Takes(inSend[1].id, inSend[1].kind) \/ stream = "down" \/ cstream = "down"
      BY <1>2, Zenon DEF EdgeSends
    <3> QED
      BY <3>1, <3>2, Zenon
  <2>4. CASE inSend[1].id = r
    <3>0. inSend[1].id \in Requests
      BY <2>4, Zenon
    <3>1. fed' = [fed EXCEPT ![inSend[1].id] = fed[inSend[1].id] + 1]
      BY <2>1, <2>3, <3>0, TakesCounts, Zenon
    <3>2. Len(wire'[r]) = Len(wire[r]) + 1
      <4>1. wire'[r] = Append(wire[r], inSend[1])
        BY <2>2, <2>4, Zenon
      <4>2. Len(Append(wire[r], inSend[1])) = Len(wire[r]) + 1
        BY <1>1, <2>1, Appended, Zenon
      <4> QED
        BY <4>1, <4>2, Zenon
    <3> QED
      BY <1>1, <2>4, <3>1, <3>2
  <2>5. CASE inSend[1].id # r
    <3>1. fed'[r] = fed[r]
      BY <1>1, <2>1, <2>3, <2>5, TakesCounts, Zenon
    <3> QED
      BY <2>2, <2>5, <3>1, Zenon
  <2> QED
    BY <2>4, <2>5
<1> QED
  BY <1>2, WireMoves, Zenon

(* The frame that the client sends is the one that the edge receives. *)
LEMMA SentIsReceived ==
  ASSUME Types, sent \in [Requests -> ResponseFrames \cup {"none"}], stream = "up", cstream = "up",
         NEW w \in Requests, ClientSends(w), NEW r \in Requests, reply[r] = Answered(sent[r])
  PROVE  reply'[r] = Answered(sent'[r])
<1>1. sent' = [sent EXCEPT ![w] = Head(todo[w])]
  BY Zenon DEF ClientSends, Client!HandlerSends
<1>2. Receives(w, Head(todo[w]))
  <2>1. stream # "down" /\ cstream # "down"
    BY UpNotDown, Zenon
  <2> QED
    BY <2>1, Zenon DEF ClientSends
<1>3. CASE r # w
  <2>1. sent'[r] = sent[r]
    BY <1>1, <1>3, Zenon
  <2>2. reply'[r] = reply[r]
    BY <1>2, <1>3 DEF Receives, ReceiveStart, ReceiveBody, ReceiveEnd, Types
  <2> QED
    BY <2>1, <2>2, Zenon
<1>4. CASE r = w
  <2>1. sent'[r] = Head(todo[w])
    BY <1>1, <1>4, Zenon
  <2>2. \/ Head(todo[w]) = "ResponseStart" /\ reply'[r] = "body"
        \/ Head(todo[w]) = "ResponseBody" /\ reply'[r] = "body"
        \/ Head(todo[w]) \in {"ResponseEnd", "ResponseError"} /\ reply'[r] = "over"
    BY <1>2, <1>4 DEF Receives, ReceiveStart, ReceiveBody, ReceiveEnd, Types
  <2> QED
    BY <2>1, <2>2 DEF Answered
<1> QED
  BY <1>3, <1>4

LEMMA AgreeStep ==
  ASSUME RInv, Session, Agree, PongsOnly, sent \in [Requests -> ResponseFrames \cup {"none"}],
         cstream' = "up" => cstream = "up", [TunnelNext]_tunnelVars
  PROVE  Agree'
<1> SUFFICES ASSUME stream' = "up", cstream' = "up", NEW r \in Requests PROVE Agrees(r)'
  BY Zenon DEF Agree
<1>1. stream = "up" /\ cstream = "up" /\ fed[r] = Len(wire[r]) /\ reply[r] = Answered(sent[r])
  BY EdgeSide, EdgeStaysDown, Zenon DEF Agree, Agrees
<1>2. fed'[r] = Len(wire'[r])
  BY <1>1, FedAgrees, Zenon
<1>3. Types
  BY Zenon DEF RInv, IInv
<1>4. ASSUME NEW w \in Requests, ClientSends(w) PROVE reply'[r] = Answered(sent'[r])
  BY <1>1, <1>3, <1>4, SentIsReceived, Zenon
<1>5. PongSent => UNCHANGED sent
  <2>1. PongSent => cur = NoOne
    BY Zenon DEF PongSent, Client!ReceiverSends, PongsOnly
  <2> QED
    BY <2>1, Zenon DEF PongSent, Client!ReceiverSends
<1>6. UNCHANGED <<sent, reply>> => reply'[r] = Answered(sent'[r])
  BY <1>1, Zenon
<1>7. reply'[r] = Answered(sent'[r])
  BY <1>4, <1>5, <1>6, ClientMoves, ReplyMoves, Zenon
<1> QED
  BY <1>2, <1>7, Zenon DEF Agrees

(* The handler stays within its bound. *)
Bounded == \A r \in Requests : writes[r] <= MaxWrites[r]

LEMMA BoundedStep == Downloads /\ Bounded /\ [TunnelNext]_tunnelVars => Bounded'
<1> SUFFICES ASSUME Downloads, Bounded, [TunnelNext]_tunnelVars, NEW r \in Requests PROVE writes'[r] <= MaxWrites[r]
  BY Zenon DEF Bounded
<1>1. writes \in [Requests -> Nat] /\ writes[r] <= MaxWrites[r] /\ MaxWrites[r] \in Nat
  BY TunnelAssumption, Zenon DEF Downloads, Bounded
<1>2. ASSUME NEW w \in Requests, Client!Write(w) PROVE writes'[r] <= MaxWrites[r]
  <2>1. writes[w] < MaxWrites[w] /\ writes' = [writes EXCEPT ![w] = writes[w] + 1]
    BY <1>2, Zenon DEF Client!Write
  <2> QED
    BY <1>1, <2>1
<1> QED
  BY <1>1, <1>2, ClientMoves, Zenon

-----------------------------------------------------------------------------
(* What waits for what. *)

(* The next frame of a call continues the response. *)
Continues(r) ==
  \/ Head(todo[r]) = "ResponseStart" /\ sent[r] = "none"
  \/ Head(todo[r]) = "ResponseBody" /\ sent[r] \in {"ResponseStart", "ResponseBody"}
  \/ /\ Head(todo[r]) \in {"ResponseEnd", "ResponseError"}
     /\ sent[r] \in {"ResponseStart", "ResponseBody", "none"}

(* Where the client's goroutines are while the stream is up; ClientSession's
   invariant implies it. *)
Waiters ==
  /\ sendMu \in Requests \cup {NoOne, Receiver}
  /\ sendMu = Receiver => loop = "send"
  /\ loop = "write" => cur \in Requests /\ app[cur] # "none"
  /\ cstream = "up" => loop \in {"recv", "write", "send"}
  /\ \A r \in Requests :
       /\ app[r] = "done" => r \in rclosed
       /\ cstream = "up" /\ app[r] = "done" => sent[r] \in {"ResponseEnd", "ResponseError"}
       /\ cstream = "up" /\ app[r] = "send" => Continues(r)
       /\ cstream = "up" /\ app[r] \in {"reading", "waiting"} /\ ~Client!Broken(r) => fed[r] <= BodyFrames[r] + 1
       /\ app[r] = "waiting" /\ r \notin ctxDone => fed[r] < BodyFrames[r] + 3

(* All that is known of both sides. *)
Known ==
  /\ RInv /\ Answers /\ EdgeRuns
  /\ Session /\ Started /\ Waiters
  /\ Agree /\ Downloads /\ Bounded

LEMMA RequestFits ==
  ASSUME Known, stream = "up", cstream = "up", send = "sending"
  PROVE  Expects(inSend[1].id, inSend[1].kind)
<1> DEFINE f == inSend[1]
           r == f.id
<1>1. RInv /\ Agree /\ Types /\ Queues /\ Counted /\ Wired /\ Lined
  BY Zenon DEF Known, RInv, IInv
<1>2. inSend # <<>> /\ f \in Frames
  BY <1>1, Zenon DEF Queues
<1>3. CASE r \notin Requests
  BY <1>2, <1>3 DEF Frames, PingFrame, Expects
<1>4. CASE r \in Requests
  <2>1. Line \in Seq(Frames) /\ Line # <<>> /\ Line[1] = f
    BY <1>1, <1>2, LineIs, Zenon
  <2>2. LineOf(r)
    BY <1>1, <1>4, Zenon DEF Lined
  <2>3. /\ Len(wire[r]) \in Nat /\ sentFrames[r] \in Nat /\ Left(r) \in BOOLEAN
        /\ sentFrames[r] <= LastFrame(r) + 1
    <3>1. Left(r) \in BOOLEAN
      BY DEF Left
    <3>2. sentFrames[r] \in Nat /\ sentFrames[r] <= LastFrame(r) + 1
      BY <1>1, <1>4, Zenon DEF Types, Counted
    <3> QED
      BY <1>1, <1>4, <3>1, <3>2, WireLen, Zenon
  <2>4. /\ f = RequestFrame(r, Len(wire[r]) + 1)
        /\ Len(wire[r]) + 1 <= sentFrames[r] \/ (sentFrames[r] = LastFrame(r) + 1 /\ Len(wire[r]) = sentFrames[r])
    <3> HIDE DEF f, r
    <3>1. Line[1].id = r
      BY <2>1, Zenon DEF r
    <3>2. /\ Line[1] = RequestFrame(r, Len(wire[r]) + 1)
          /\ \/ Len(wire[r]) + 1 <= sentFrames[r]
             \/ sentFrames[r] = LastFrame(r) + 1 /\ Len(wire[r]) = sentFrames[r]
      BY <1>4, <2>1, <2>2, <2>3, <3>1, LineHead, Zenon
    <3> QED
      BY <2>1, <3>2, Zenon
  <2>5. fed[r] = Len(wire[r])
    BY <1>1, <1>4, Zenon DEF Agree, Agrees
  <2>6. BodyFrames[r] \in Nat /\ LastFrame(r) = BodyFrames[r] + 1
    BY <1>4, LastNat, Zenon
  <2>7. fed[r] <= BodyFrames[r] + 2 /\ fed[r] \in Nat
    <3>1. Len(wire[r]) + 1 <= sentFrames[r] \/ Len(wire[r]) = sentFrames[r]
      BY <2>4, Zenon
    <3> QED
      BY <2>3, <2>5, <2>6, <3>1, NoMore, Zenon
  <2>8. f = RequestFrame(r, fed[r] + 1)
    BY <2>4, <2>5, Zenon
  <2> HIDE DEF f, r
  <2>9. Expects(r, f.kind)
    <3>1. \/ fed[r] = 0 /\ f.kind = "RequestStart"
          \/ fed[r] \in 1 .. BodyFrames[r] /\ f.kind = "RequestBody"
          \/ fed[r] = BodyFrames[r] + 1 /\ f.kind = "RequestEnd"
          \/ fed[r] = BodyFrames[r] + 2 /\ f.kind = "CancelRequest"
      BY <1>4, <2>7, <2>8, NextKind, Zenon
    <3> QED
      BY <3>1, Zenon DEF Expects
  <2> QED
    BY <2>9 DEF f, r
<1> QED
  BY <1>3, <1>4

LEMMA ResponseFits ==
  ASSUME Known, stream = "up", cstream = "up", NEW r \in Requests, sendMu = r
  PROVE  Accepts(r, Head(todo[r]))
<1>1. Session /\ Agree /\ Waiters /\ Downloads /\ Bounded /\ Types /\ Wired
  BY Zenon DEF Known, RInv, IInv
<1>2. app[r] = "send" /\ CallOf(r) /\ fed[r] # 0
  <2>1. app[r] = "send"
    BY <1>1, Zenon DEF Session
  <2>2. app[r] # "none"
    BY <2>1
  <2> QED
    BY <1>1, <2>1, <2>2, Zenon DEF Session
<1>3. Continues(r)
  BY <1>1, <1>2, Zenon DEF Waiters
<1>4. fed[r] = Len(wire[r]) /\ reply[r] = Answered(sent[r])
  BY <1>1, Zenon DEF Agree, Agrees
<1>5. wire[r] # <<>>
  <2>1. Len(<<>>) = 0
    OBVIOUS
  <2> QED
    BY <1>2, <1>4, <2>1, Zenon
<1>6. CASE Head(todo[r]) = "ResponseStart"
  BY <1>3, <1>4, <1>5, <1>6, Zenon DEF Continues, Answered, Accepts
<1>7. CASE Head(todo[r]) = "ResponseBody"
  <2>1. todo[r] \in ChunkCalls
    <3>1. Head(<<"ResponseStart">>) = "ResponseStart" /\ Head(<<"ResponseStart", "ResponseEnd">>) = "ResponseStart"
          /\ Head(<<"ResponseEnd">>) = "ResponseEnd" /\ Head(<<"ResponseError">>) = "ResponseError"
      BY Lists, Zenon
    <3> QED
      BY <1>2, <1>7, <3>1 DEF CallOf
  <2>2. Owes(r)
    BY <1>2, <2>1, Zenon DEF Owes
  <2>3. chunks[r] < writes[r] /\ writes[r] <= MaxWrites[r] /\ MaxWrites[r] <= MaxChunks
    BY <1>1, <2>2, TunnelAssumption, Zenon DEF Downloads, DownloadOf, Bounded
  <2>4. chunks[r] \in Nat /\ writes[r] \in Nat /\ MaxWrites[r] \in Nat /\ MaxChunks \in Nat
    BY <1>1, TunnelAssumption, StreamAssumption, Zenon DEF Types, Downloads
  <2>5. chunks[r] < MaxChunks
    BY <2>3, <2>4
  <2>6. reply[r] = "body"
    BY <1>3, <1>4, <1>7 DEF Continues, Answered
  <2> QED
    BY <1>5, <1>7, <2>5, <2>6, Zenon DEF Accepts
<1>8. CASE Head(todo[r]) \in {"ResponseEnd", "ResponseError"}
  BY <1>3, <1>4, <1>5, <1>8, Zenon DEF Continues, Answered, Accepts
<1> QED
  BY <1>3, <1>6, <1>7, <1>8, Zenon DEF Continues

LEMMA FramesFitKnown == Known => FramesFit
BY RequestFits, ResponseFits, Zenon DEF FramesFit

(* The client is told of the end of a request by its frame BodyFrames + 2, of the
   browser's leaving by the one after it. *)
LEMMA NotTold ==
  ASSUME Wired, NEW r \in Requests
  PROVE  /\ Len(wire[r]) < BodyFrames[r] + 3 => ~Told(r, "CancelRequest")
         /\ Len(wire[r]) < BodyFrames[r] + 2 => ~Told(r, "RequestEnd")
<1>1. wire[r] \in Seq(Frames) /\ \A i \in 1 .. Len(wire[r]) : wire[r][i] = RequestFrame(r, i)
  BY DEF Wired
<1>2. Len(wire[r]) \in Nat /\ DOMAIN wire[r] = 1 .. Len(wire[r])
  BY <1>1
<1>3. BodyFrames[r] \in Nat
  BY LastNat
<1>4. ASSUME NEW i \in 1 .. Len(wire[r])
      PROVE  /\ wire[r][i].kind = "CancelRequest" => i >= BodyFrames[r] + 3
             /\ wire[r][i].kind = "RequestEnd" => i >= BodyFrames[r] + 2
  <2>1. wire[r][i] = RequestFrame(r, i)
    BY <1>1, Zenon
  <2>2. i \in Nat \ {0}
    BY <1>2
  <2> QED
    BY <2>1, <2>2, KindAt, Zenon
<1>5. ASSUME NEW k, NEW c \in Nat, Told(r, k), \A i \in 1 .. Len(wire[r]) : wire[r][i].kind = k => i >= c
      PROVE  Len(wire[r]) >= c
  BY <1>2, <1>5, Reach, Zenon DEF Told
<1>6. BodyFrames[r] + 3 \in Nat /\ BodyFrames[r] + 2 \in Nat
  BY <1>3
<1>7. Told(r, "CancelRequest") => Len(wire[r]) >= BodyFrames[r] + 3
  BY <1>4, <1>5, <1>6, Zenon
<1>8. Told(r, "RequestEnd") => Len(wire[r]) >= BodyFrames[r] + 2
  BY <1>4, <1>5, <1>6, Zenon
<1>9. \A n, c \in Nat : n < c => ~(n >= c)
  OBVIOUS
<1> QED
  BY <1>2, <1>6, <1>7, <1>8, <1>9, Zenon

(* A handler of the application that waits. *)
LEMMA AppKnown ==
  ASSUME Known, stream = "up", cstream = "up", NEW r \in Requests
  PROVE  /\ app[r] = "waiting" /\ r \notin ctxDone => Idles(r) \/ Forgotten(r)
         /\ app[r] = "reading" /\ ~Client!Broken(r) /\ pc[r] = "returned" => Forgotten(r)
<1>1. Wired /\ Waiters /\ fed[r] = Len(wire[r])
  BY Zenon DEF Known, RInv, Agree, Agrees
<1>2. Len(wire[r]) \in Nat /\ BodyFrames[r] \in Nat
  BY <1>1, LastNat, WireLen, Zenon
<1>3. CASE app[r] = "waiting" /\ r \notin ctxDone
  <2>1. fed[r] < BodyFrames[r] + 3
    BY <1>1, <1>3, Zenon DEF Waiters
  <2>2. ~Told(r, "CancelRequest")
    BY <1>1, <2>1, NotTold, Zenon
  <2> QED
    BY <1>3, <2>2 DEF Idles, Forgotten
<1>4. CASE app[r] = "reading" /\ ~Client!Broken(r) /\ pc[r] = "returned"
  <2>1. fed[r] <= BodyFrames[r] + 1
    <3>1. app[r] \in {"reading", "waiting"}
      BY <1>4
    <3> QED
      BY <1>1, <1>4, <3>1, Zenon DEF Waiters
  <2>2. Len(wire[r]) < BodyFrames[r] + 3 /\ Len(wire[r]) < BodyFrames[r] + 2
    BY <1>1, <1>2, <2>1, Under, Zenon
  <2>3. ~Told(r, "CancelRequest") /\ ~Told(r, "RequestEnd")
    BY <1>1, <2>2, NotTold, Zenon
  <2> QED
    BY <1>4, <2>3 DEF Forgotten
<1> QED
  BY <1>3, <1>4, Zenon

(* The handler that the loop writes to waits for its context or sends. *)
LEMMA WriteWaits ==
  ASSUME Known, stream = "up", cstream = "up", AllWait, loop = "write"
  PROVE  KnownWait \/ (cur \in Requests /\ app[cur] = "send")
<1>1. cur \in Requests /\ app[cur] # "none" /\ (app[cur] = "done" => cur \in rclosed)
  BY Zenon DEF Known, Waiters
<1>2. app[cur] # "reading" /\ ~Client!Broken(cur)
  BY DEF AllWait, LoopWaits
<1>3. app[cur] # "done"
  BY <1>1, <1>2 DEF Client!Broken
<1>4. CASE app[cur] = "waiting" /\ cur \notin ctxDone
  BY <1>1, <1>4, AppKnown, Zenon DEF KnownWait
<1> QED
  BY <1>1, <1>2, <1>3, <1>4, Zenon DEF AllWait, AppWaits

LEMMA HeldWaits ==
  ASSUME Known, stream = "up", cstream = "up", AllWait, held # <<>>
  PROVE  KnownWait
<1> DEFINE h == held[1].id
<1>1. h \in Requests /\ body[h] \in Seq(Nat) /\ outbound \in Seq(Frames)
  BY Zenon DEF Known, RInv, IInv, Types, Queues
<1>2. AnswersOf(h) /\ HeldFor(h) /\ reply[h] \in {"start", "body", "over"}
  BY <1>1, Zenon DEF Known, Answers, HeldFor, RInv, IInv, Types
<1>3. cause[h] = "none" /\ IF held[1].chunk = 0 THEN start[h] ELSE Len(body[h]) = BodyDepth
  BY Zenon DEF AllWait, ReceiverWaits
<1>4. ~HeldStart(h)
  <2>1. HeldStart(h) => ~start[h] /\ held[1].chunk = 0
    BY <1>2, Zenon DEF AnswersOf, HeldStart
  <2> QED
    BY <1>3, <2>1, Zenon
<1>5. held[1].chunk # 0 /\ Len(body[h]) = BodyDepth
  <2>1. held[1].chunk # 0
    BY <1>2, <1>4, Zenon DEF HeldStart
  <2> QED
    BY <1>3, <2>1
<1>6. body[h] # <<>>
  BY <1>1, <1>5, StreamAssumption, Zenon
<1>7. EdgeWaits(h)
  BY <1>1 DEF AllWait
<1> HIDE DEF h
<1>8. CASE pc[h] = "fwd" /\ ~Room
  <2>1. Jammed
    BY <1>8 DEF Jammed, h
  <2>2. outbound # <<>>
    BY <1>1, <1>8, StreamAssumption DEF Room
  <2>3. send = "sending" /\ loop # "recv"
    <3>1. send = "sending"
      BY <2>2, Zenon DEF AllWait, SenderWaits
    <3>2. ~(loop = "recv" /\ Expects(inSend[1].id, inSend[1].kind))
      BY <3>1, Zenon DEF AllWait, SenderWaits
    <3> QED
      BY <3>1, <3>2, RequestFits, Zenon
  <2>4. loop \in {"write", "send"}
    BY <2>3 DEF Known, Waiters
  <2>5. CASE loop = "write"
    <3>1. KnownWait \/ app[cur] = "send"
      BY <2>5, WriteWaits, Zenon
    <3> QED
      BY <2>1, <2>3, <2>5, <3>1, Zenon DEF KnownWait, WaitCycle
  <2> QED
    BY <2>1, <2>3, <2>4, <2>5, Zenon DEF KnownWait, WaitCycle
<1>9. CASE pc[h] = "headers" /\ ~start[h]
  <2>1. reply[h] # "start"
    BY <1>2, Zenon DEF AnswersOf
  <2>2. pc[h] \notin {"idle", "returned"} /\ pc[h] \in {"fwd", "read", "headers"}
    BY <1>9
  <2>3. reply[h] # "over"
    BY <1>2, <1>3, <2>2, Zenon DEF AnswersOf
  <2>4. reply[h] # "body"
    BY <1>2, <1>3, <1>4, <1>9, <2>2, Zenon DEF AnswersOf
  <2> QED
    BY <1>2, <2>1, <2>3, <2>4, Zenon
<1>10. CASE pc[h] = "returned"
  <2>1. Stuck
    BY <1>3, <1>10 DEF Stuck, h
  <2> QED
    BY <2>1, Zenon DEF KnownWait
<1> QED
  BY <1>6, <1>7, <1>8, <1>9, <1>10, Zenon DEF EdgeWaits

(* When the receiver is free nobody sends. *)
LEMMA NobodySends ==
  ASSUME Known, stream = "up", cstream = "up", AllWait, held = <<>>
  PROVE  sendMu = NoOne /\ loop # "send" /\ \A r \in Requests : app[r] # "send"
<1>1. ASSUME NEW r \in Requests, sendMu = r PROVE FALSE
  <2>1. app[r] = "send" /\ Accepts(r, Head(todo[r]))
    BY <1>1, ResponseFits, Zenon DEF Known, Session
  <2>2. SendWaits(r)
    BY <2>1 DEF AllWait, AppWaits
  <2> QED
    BY <1>1, <2>1, <2>2, Zenon DEF SendWaits
<1>2. sendMu # Receiver
  <2> SUFFICES ASSUME sendMu = Receiver PROVE FALSE
    OBVIOUS
  <2>1. loop = "send"
    BY Zenon DEF Known, Waiters
  <2>2. SendWaits(Receiver)
    BY <2>1, Zenon DEF AllWait, LoopWaits
  <2> QED
    BY <2>2, TunnelAssumption, Zenon DEF SendWaits
<1>3. sendMu = NoOne
  BY <1>1, <1>2, Zenon DEF Known, Waiters
<1>4. loop # "send"
  <2> SUFFICES ASSUME loop = "send" PROVE FALSE
    OBVIOUS
  <2>1. SendWaits(Receiver)
    BY DEF AllWait, LoopWaits
  <2> QED
    BY <1>2, <1>3, <2>1, Zenon DEF SendWaits
<1>5. ASSUME NEW r \in Requests, app[r] = "send" PROVE FALSE
  <2>1. SendWaits(r)
    BY <1>5 DEF AllWait, AppWaits
  <2> QED
    BY <1>1, <1>3, <2>1, Zenon DEF SendWaits
<1> QED
  BY <1>3, <1>4, <1>5

(* With an empty line the client has had every frame that was queued. *)
LEMMA AllSent ==
  ASSUME RInv, send \notin {"sending", "ended"}, outbound = <<>>, NEW r \in Requests
  PROVE  Len(wire[r]) >= sentFrames[r]
<1>1. Queues /\ LineOf(r) /\ inSend = <<>>
  BY DEF RInv, IInv, Lined
<1>2. Line = <<>>
  BY <1>1, LineIs, Zenon
<1>3. Len(wire[r]) \in Nat /\ sentFrames[r] \in Nat
  BY DEF RInv, IInv, Types, Wired
<1>4. \A m \in Len(wire[r]) + 1 .. sentFrames[r] : \E i \in 1 .. Len(<<>>) : TRUE
  BY <1>1, <1>2, Zenon DEF LineOf, InLine
<1>5. \A m \in Len(wire[r]) + 1 .. sentFrames[r] : FALSE
  BY <1>4
<1> QED
  BY <1>3, <1>5

(* A handler of the edge that waits for a frame, all of its request being sent. *)
LEMMA EdgeKnown ==
  ASSUME Known, stream = "up", cstream = "up", AllWait, held = <<>>, NEW r \in Requests,
         pc[r] \in {"headers", "stream"}, cause[r] = "none", Len(wire[r]) >= sentFrames[r]
  PROVE  Idles(r)
<1>1. sentFrames[r] = LastFrame(r) + 1
  <2>1. Counted
    BY Zenon DEF Known, RInv
  <2>2. pc[r] \notin {"idle", "fwd", "read"} /\ ~Left(r)
    BY DEF Left
  <2> QED
    BY <2>1, <2>2, Zenon DEF Counted
<1>2. Agrees(r) /\ Waiters /\ AppWaits(r) /\ app[r] # "send" /\ AnswersOf(r)
  BY NobodySends, Zenon DEF Known, Agree, AllWait, Answers
<1>3. /\ fed[r] = Len(wire[r]) /\ reply[r] = Answered(sent[r]) /\ Len(wire[r]) \in Nat
      /\ BodyFrames[r] \in Nat /\ LastFrame(r) = BodyFrames[r] + 1
  BY <1>2, LastNat, WireLen, Zenon DEF Agrees, Known, RInv
<1>4. fed[r] >= BodyFrames[r] + 2
  BY <1>1, <1>3
<1>5. app[r] # "none"
  <2>1. fed[r] # 0
    BY <1>3, <1>4
  <2> QED
    BY <2>1, Zenon DEF Known, Started
<1>6. app[r] # "done"
  <2> SUFFICES ASSUME app[r] = "done" PROVE FALSE
    OBVIOUS
  <2>1. sent[r] \in {"ResponseEnd", "ResponseError"}
    BY <1>2, Zenon DEF Waiters
  <2>2. reply[r] = "over"
    BY <1>3, <2>1, Zenon DEF Answered
  <2>3. pc[r] \notin {"idle", "returned"}
    BY Zenon
  <2> QED
    BY <1>2, <2>2, <2>3, Zenon DEF AnswersOf
<1>7. ~(app[r] = "reading" /\ ~Client!Broken(r))
  <2> SUFFICES ASSUME app[r] = "reading", ~Client!Broken(r) PROVE FALSE
    OBVIOUS
  <2>1. app[r] \in {"reading", "waiting"}
    OBVIOUS
  <2>2. fed[r] <= BodyFrames[r] + 1
    BY <1>2, <2>1, Zenon DEF Waiters
  <2> QED
    BY <1>3, <1>4, <2>2, NotBelow, Zenon
<1>8. app[r] = "waiting"
  BY <1>2, <1>5, <1>6, <1>7, Zenon DEF AppWaits
<1> QED
  BY <1>8, Zenon DEF Idles

LEMMA FreeWaits ==
  ASSUME Known, stream = "up", cstream = "up", AllWait, held = <<>>
  PROVE  KnownWait
<1>1. sendMu = NoOne /\ loop # "send" /\ \A r \in Requests : app[r] # "send"
  BY NobodySends, Zenon
<1>2. loop \in {"recv", "write"}
  BY <1>1 DEF Known, Waiters
<1>3. CASE loop = "write"
  BY <1>1, <1>3, WriteWaits, Zenon
<1>4. CASE loop = "recv"
  <2>1. send # "sending" /\ outbound = <<>>
    BY <1>4, RequestFits, Zenon DEF AllWait, SenderWaits
  <2>2. send \notin {"sending", "ended"}
    BY <2>1 DEF Known, EdgeRuns
  <2>3. Room
    BY <2>1, StreamAssumption DEF Room
  <2>4. ASSUME NEW r \in Requests, pc[r] # "returned" PROVE KnownWait
    <3>1. pc[r] \in {"headers", "stream"} /\ cause[r] = "none"
      BY <2>3, <2>4 DEF AllWait, EdgeWaits
    <3>2. Len(wire[r]) >= sentFrames[r]
      BY <2>1, <2>2, AllSent, Zenon DEF Known
    <3>3. Idles(r)
      BY <3>1, <3>2, EdgeKnown, Zenon
    <3> QED
      BY <3>3, Zenon DEF KnownWait
  <2>5. ASSUME NEW r \in Requests, pc[r] = "returned", app[r] \notin {"none", "done"} PROVE KnownWait
    <3>1. \/ app[r] = "waiting" /\ r \notin ctxDone
          \/ app[r] = "reading" /\ ~Client!Broken(r)
      BY <1>1, <2>5, Zenon DEF AllWait, AppWaits
    <3> QED
      BY <2>5, <3>1, AppKnown, Zenon DEF KnownWait
  <2>6. CASE \A r \in Requests : pc[r] = "returned" /\ app[r] \in {"none", "done"}
    BY <1>4, <2>6 DEF KnownWait, AtRest
  <2> QED
    BY <2>4, <2>5, <2>6, Zenon
<1> QED
  BY <1>2, <1>3, <1>4

LEMMA KnownWaits == Known => WaitsKnown
BY HeldWaits, FreeWaits, Zenon DEF WaitsKnown

(* The wait cycle, step by step: what each side leaves alone in it. *)
EdgeStands(h) ==
  /\ UNCHANGED <<outbound, send, stream, held>>
  /\ pc'[h] = pc[h] /\ cause'[h] = cause[h] /\ body'[h] = body[h]
  /\ h \in gone' => h \in gone

ClientStands ==
  /\ UNCHANGED <<cstream, loop, cur>>
  /\ loop = "write" => /\ app'[cur] = app[cur] /\ wclosed'[cur] = wclosed[cur]
                       /\ cur \in rclosed' => cur \in rclosed

LEMMA StandsStill ==
  ASSUME Deadlock, held[1].chunk # 0, EdgeStands(held[1].id), ClientStands
  PROVE  Deadlock'
<1>1. Jammed'
  BY Zenon DEF Deadlock, WaitCycle, Jammed, EdgeStands, Room
<1>2. WaitCycle'
  BY <1>1, Zenon DEF Deadlock, WaitCycle, EdgeStands, ClientStands
<1>3. ReceiverWaits'
  <2>1. cause[held[1].id] = "none" /\ Len(body[held[1].id]) = BodyDepth
    BY DEF Deadlock, WaitCycle, Jammed, ReceiverWaits
  <2>2. cause'[held'[1].id] = "none" /\ Len(body'[held'[1].id]) = BodyDepth /\ held'[1].chunk # 0
    BY <2>1, Zenon DEF EdgeStands
  <2> QED
    BY <2>2, Zenon DEF ReceiverWaits
<1>4. (loop = "write" => ~Client!Broken(cur))'
  BY Zenon DEF Deadlock, ClientStands, Client!Broken
<1> QED
  BY <1>2, <1>3, <1>4, Zenon DEF Deadlock, EdgeStands, ClientStands

(* In it a chunk is in the receiver's hands. *)
LEMMA DeadlockIs ==
  ASSUME Known, Deadlock
  PROVE  LET h == held[1].id IN
         /\ h \in Requests /\ held # <<>> /\ held[1].chunk # 0
         /\ pc[h] = "fwd" /\ cause[h] = "none" /\ Len(body[h]) = BodyDepth /\ h \notin gone
         /\ ~Room /\ send = "sending" /\ once = "open" /\ recv = "recv"
         /\ stream = "up" /\ cstream = "up"
         /\ loop = "send" \/ (loop = "write" /\ app[cur] = "send" /\ ~Client!Broken(cur))
<1> DEFINE h == held[1].id
<1>1. /\ held # <<>> /\ pc[h] = "fwd" /\ ~Room /\ send = "sending" /\ stream = "up" /\ cstream = "up"
      /\ h \notin gone
  BY Zenon DEF Deadlock, WaitCycle, Jammed
<1>2. cause[h] = "none" /\ IF held[1].chunk = 0 THEN start[h] ELSE Len(body[h]) = BodyDepth
  BY <1>1, Zenon DEF Deadlock, ReceiverWaits
<1>3. h \in Requests
  BY <1>1 DEF Known, RInv, IInv, Types
<1>4. held[1].chunk # 0
  <2>1. AnswersOf(h)
    BY <1>3, Zenon DEF Known, Answers
  <2> QED
    BY <1>1, <1>2, <2>1, Zenon DEF AnswersOf, HeldStart, HeldFor
<1>5. Len(body[h]) = BodyDepth
  BY <1>2, <1>4, Zenon
<1>6. once = "open" /\ recv = "recv"
  BY <1>1, Zenon DEF Known, EdgeRuns
<1>7. loop = "send" \/ (loop = "write" /\ app[cur] = "send" /\ ~Client!Broken(cur))
  BY Zenon DEF Deadlock, WaitCycle
<1> QED
  BY <1>1, <1>2, <1>3, <1>4, <1>5, <1>6, <1>7, Zenon

LEMMA EdgeStandsStill ==
  ASSUME Known, Deadlock,
         \/ EdgeAlone
         \/ \E r \in Requests : Leaves(r) /\ ~Leaves(held[1].id)
         \/ UNCHANGED vars
  PROVE  EdgeStands(held[1].id)
<1> DEFINE h == held[1].id
<1>1. /\ h \in Requests /\ held # <<>> /\ held[1].chunk # 0
      /\ pc[h] = "fwd" /\ cause[h] = "none" /\ Len(body[h]) = BodyDepth /\ h \notin gone
      /\ ~Room /\ send = "sending" /\ once = "open" /\ recv = "recv" /\ stream = "up"
  BY DeadlockIs, Zenon
<1>2. pc \in [Requests -> HandlerStates] /\ body \in [Requests -> Seq(Nat)] /\ Types
  BY Zenon DEF Known, RInv, IInv, Types
<1> HIDE DEF h
<1> USE DEF connVars, sendVars, rsVars, handlerVars
<1>3. ~sessDone
  BY <1>1, Zenon DEF sessDone
<1>4. ASSUME NEW q \in Requests, q # h, NEW l, pc' = [pc EXCEPT ![q] = l] PROVE pc'[h] = pc[h]
  BY <1>1, <1>2, <1>4
<1>5. ASSUME NEW q \in Requests, TryStart(q) \/ ReadBody(q) PROVE EdgeStands(h)
  <2>1. q # h
    BY <1>1, <1>5, Zenon DEF TryStart, ReadBody
  <2> QED
    BY <1>4, <1>5, <2>1, Zenon DEF TryStart, ReadBody, Goto, EdgeStands
<1>6. ASSUME NEW q \in Requests, ChunkWritten(q) PROVE EdgeStands(h)
  <2>1. q # h
    BY <1>1, <1>6, Zenon DEF ChunkWritten
  <2> QED
    BY <1>4, <1>6, <2>1, Zenon DEF ChunkWritten, Goto, EdgeStands
<1>7. ASSUME NEW q \in Requests, HandlerStep(q) PROVE EdgeStands(h)
  <2>1. ~Forward(q) /\ ~ForwardFails(q)
    BY <1>1, <1>3, Zenon DEF Forward, ForwardFails
  <2>2. q # h
    <3>1. ~ForwardCancelled(h)
      BY <1>1, Zenon DEF ForwardCancelled
    <3>2. ~AwaitHeaders(h) /\ ~TakeChunk(h) /\ ~Cancelled(h) /\ ~SeeDone(h) /\ ~EndOfBody(h) /\ ~FinishRequest(h)
      BY <1>1, Zenon DEF AwaitHeaders, TakeChunk, Cancelled, SeeDone, EndOfBody, FinishRequest
    <3> QED
      BY <1>7, <2>1, <3>1, <3>2, Zenon DEF HandlerStep
  <2>3. CASE ForwardCancelled(q) \/ AwaitHeaders(q) \/ SeeDone(q) \/ EndOfBody(q) \/ FinishRequest(q)
    <3>1. UNCHANGED <<outbound, send, stream, held, cause, body, gone>>
      BY <2>3, Zenon DEF ForwardCancelled, AwaitHeaders, SeeDone, EndOfBody, FinishRequest
    <3>2. \E l : pc' = [pc EXCEPT ![q] = l]
      BY <2>3, Zenon DEF ForwardCancelled, AwaitHeaders, SeeDone, EndOfBody, FinishRequest, Goto, WriteHeader,
                  TakeErr, BadGateway
    <3> QED
      BY <1>4, <2>2, <3>1, <3>2, Zenon DEF EdgeStands
  <2>4. CASE TakeChunk(q)
    <3>1. body'[h] = body[h]
      BY <1>1, <1>2, <2>2, <2>4, Zenon DEF TakeChunk
    <3> QED
      BY <1>4, <2>2, <2>4, <3>1, Zenon DEF TakeChunk, Goto, EdgeStands
  <2>5. CASE Cancelled(q)
    BY <1>1, <1>4, <2>2, <2>5, Zenon DEF Cancelled, CancelRequest, Goto, EdgeStands
  <2> QED
    BY <1>7, <2>1, <2>3, <2>4, <2>5, Zenon DEF HandlerStep
<1>8. ~ReceiverStep
  <2>1. ~Deliver
    <3>1. ~(Len(body[h]) < BodyDepth)
      BY <1>1, StreamAssumption
    <3>2. ~(held[1].chunk = 0)
      BY <1>1, Zenon
    <3> QED
      BY <3>1, <3>2, Zenon DEF Deliver, h
  <2>2. ~Discard
    BY <1>1, Zenon DEF Discard, Unblocked, h
  <2>3. ~StreamEnds /\ ~CloseDone /\ ~FailAll /\ ~ConnectReturns
    BY <1>1, Zenon DEF StreamEnds, CloseDone, FailAll, ConnectReturns
  <2> QED
    BY <2>1, <2>2, <2>3, Zenon DEF ReceiverStep
<1>9. ~TakeFrame /\ ~SendExits /\ ~Heartbeat /\ ~HeartbeatExits
  BY <1>1, <1>3, Zenon DEF TakeFrame, SendExits, Heartbeat, HeartbeatExits
<1>10. CASE EdgeAlone
  BY <1>5, <1>6, <1>7, <1>8, <1>9, <1>10, Zenon DEF EdgeAlone, h
<1>11. ASSUME NEW q \in Requests, Leaves(q), ~Leaves(h) PROVE EdgeStands(h)
  <2>1. q # h
    BY <1>11, Zenon
  <2>2. CASE BrowserGone(q)
    <3>1. h \in gone' => h \in gone
      BY <2>1, <2>2, Zenon DEF BrowserGone
    <3> QED
      BY <2>2, <3>1, Zenon DEF BrowserGone, EdgeStands
  <2>3. CASE BodyReadFails(q)
    BY <1>4, <2>1, <2>3, Zenon DEF BodyReadFails, BadGateway, Goto, EdgeStands
  <2> QED
    BY <1>11, <2>2, <2>3, Zenon DEF Leaves
<1>12. CASE UNCHANGED vars
  BY <1>12, Zenon DEF vars, EdgeStands
<1> QED
  BY <1>10, <1>11, <1>12, Zenon DEF h

LEMMA ClientStandsStill ==
  ASSUME Known, Deadlock, ClientAlone \/ UNCHANGED clientState
  PROVE  ClientStands
<1>1. /\ cstream = "up"
      /\ loop = "send" \/ (loop = "write" /\ app[cur] = "send" /\ ~Client!Broken(cur))
  BY DeadlockIs, Zenon
<1>2. app \in [Requests -> Client!HandlerStates] /\ (loop = "write" => cur \in Requests)
  BY Zenon DEF Known, Session, Waiters
<1> USE DEF Client!recvVars, Client!pipeVars, Client!writerVars, Client!readVars
<1>3. ASSUME NEW q \in Requests, NEW l, q # cur, loop = "write", app' = [app EXCEPT ![q] = l]
      PROVE  app'[cur] = app[cur]
  BY <1>2, <1>3
<1>4. ASSUME NEW q \in Requests, Client!HandlerLocks(q) PROVE ClientStands
  BY <1>4, Zenon DEF Client!HandlerLocks, ClientStands
<1>5. ASSUME NEW q \in Requests,
             \/ Client!WriteHeader(q) \/ Client!Write(q) \/ Client!Finish(q) \/ Client!Fail(q)
             \/ Client!HandlerWaits(q) \/ Client!ReadEnds(q) \/ Client!ContextEnds(q)
             \/ Client!CloseRequest(q) \/ Client!DeleteRequest(q)
      PROVE  ClientStands
  <2>1. /\ app[q] \in {"run", "reading", "waiting", "close", "delete"}
        /\ \E l : app' = [app EXCEPT ![q] = l]
    BY <1>5, Zenon DEF Client!WriteHeader, Client!Write, Client!Finish, Client!Fail, Client!HandlerWaits, Client!ReadEnds,
                Client!ContextEnds, Client!CloseRequest, Client!DeleteRequest, Client!Call, Client!Goto
  <2>2. /\ UNCHANGED <<cstream, loop, cur, wclosed>>
        /\ rclosed' = rclosed \/ rclosed' = rclosed \cup {q}
    BY <1>5, Zenon DEF Client!WriteHeader, Client!Write, Client!Finish, Client!Fail, Client!HandlerWaits,
                Client!ReadEnds, Client!ContextEnds, Client!CloseRequest, Client!DeleteRequest, Client!Call
  <2>3. CASE loop = "write"
    <3>1. q # cur
      BY <1>1, <2>1, <2>3, Zenon
    <3>2. app'[cur] = app[cur]
      BY <1>3, <2>1, <2>3, <3>1, Zenon
    <3>3. cur \in rclosed' => cur \in rclosed
      BY <2>2, <3>1, Zenon
    <3> QED
      BY <2>2, <3>2, <3>3, Zenon DEF ClientStands
  <2>4. CASE loop # "write"
    BY <2>2, <2>4, Zenon DEF ClientStands
  <2> QED
    BY <2>3, <2>4, Zenon
<1>6. ASSUME NEW q \in Requests PROVE ~Client!ReadChunk(q)
  BY <1>1, Zenon DEF Client!ReadChunk
<1>7. ~Client!BodyWriteFails /\ ~Client!StreamEnds /\ ~Client!CloseReadEnds
  BY <1>1, Zenon DEF Client!BodyWriteFails, Client!StreamEnds, Client!CloseReadEnds
<1>8. CASE Client!ReceiverLocks
  BY <1>8, Zenon DEF Client!ReceiverLocks, ClientStands
<1>9. CASE UNCHANGED clientState
  BY <1>9, Zenon DEF clientState, ClientStands
<1> QED
  BY <1>4, <1>5, <1>6, <1>7, <1>8, <1>9, Zenon DEF ClientAlone, Client!HandlerStep

LEMMA DeadlockStep ==
  ASSUME Known, Deadlock, [TunnelNext]_tunnelVars, ~Loss, ~Leaves(held[1].id)
  PROVE  Deadlock'
<1>1. /\ held # <<>> /\ held[1].chunk # 0 /\ stream = "up" /\ cstream = "up"
      /\ loop \in {"send", "write"}
  BY DeadlockIs, Zenon
<1>2. stream # "down" /\ cstream # "down" /\ loop # "recv"
  BY <1>1
<1>3. ~EdgeSends
  <2>1. \A r, kind : ~Takes(r, kind)
    BY <1>2, Zenon DEF Takes, Client!RequestStart, Client!RequestBody, Client!RequestEnd, Client!CancelRequest,
                Client!Ping, Client!Receiving
  <2> QED
    BY <1>2, <2>1, Zenon DEF EdgeSends
<1>4. ASSUME NEW r \in Requests PROVE ~ClientSends(r)
  <2>1. \A kind : ~Receives(r, kind)
    BY <1>1, Zenon DEF Receives, ReceiveStart, ReceiveBody, ReceiveEnd, Receiving
  <2> QED
    BY <1>2, <2>1, Zenon DEF ClientSends
<1>5. ~PongSent
  BY <1>1, <1>2, Zenon DEF PongSent
<1>6. CASE EdgeAlone \/ \E r \in Requests : Leaves(r)
  <2>1. UNCHANGED clientState
    BY <1>6, Zenon DEF EdgeAlone, Leaves
  <2>2. EdgeStands(held[1].id) /\ ClientStands
    BY <1>6, <2>1, EdgeStandsStill, ClientStandsStill, Zenon
  <2> QED
    BY <1>1, <2>2, StandsStill, Zenon
<1>7. CASE ClientAlone
  <2>1. UNCHANGED vars
    BY <1>7, Zenon DEF ClientAlone
  <2>2. EdgeStands(held[1].id) /\ ClientStands
    BY <1>7, <2>1, EdgeStandsStill, ClientStandsStill, Zenon
  <2> QED
    BY <1>1, <2>2, StandsStill, Zenon
<1>8. CASE UNCHANGED tunnelVars
  <2>1. UNCHANGED vars /\ UNCHANGED clientState
    BY <1>8, Zenon DEF tunnelVars
  <2>2. EdgeStands(held[1].id) /\ ClientStands
    BY <2>1, EdgeStandsStill, ClientStandsStill, Zenon
  <2> QED
    BY <1>1, <2>2, StandsStill, Zenon
<1> QED
  BY <1>3, <1>4, <1>5, <1>6, <1>7, <1>8, Zenon DEF TunnelNext, Progress

LEMMA InitJoint == TunnelInit => EdgeRuns /\ Answers /\ Started /\ Agree /\ Bounded
<1> SUFFICES ASSUME TunnelInit PROVE EdgeRuns /\ Answers /\ Started /\ Agree /\ Bounded
  OBVIOUS
<1>1. EdgeRuns /\ Answers
  BY InitAnswers, Zenon DEF TunnelInit, Init, EdgeRuns
<1>2. ASSUME NEW r \in Requests
      PROVE  fed[r] = 0 /\ writes[r] = 0 /\ sent[r] = "none" /\ wire[r] = <<>> /\ reply[r] = "start"
  <2>1. fed[r] = 0 /\ writes[r] = 0 /\ sent[r] = "none"
    BY Zenon DEF TunnelInit, Client!Init
  <2>2. wire[r] = <<>> /\ reply[r] = "start"
    BY Zenon DEF TunnelInit, Init
  <2> QED
    BY <2>1, <2>2, Zenon
<1>3. ASSUME NEW r \in Requests PROVE Agrees(r)
  <2>1. Len(<<>>) = 0
    OBVIOUS
  <2> QED
    BY <1>2, <2>1, Zenon DEF Agrees, Answered
<1>4. Started
  BY <1>2, Zenon DEF Started
<1>5. Bounded
  BY <1>2, TunnelAssumption, AtLeastZero, Zenon DEF Bounded
<1> QED
  BY <1>1, <1>3, <1>4, <1>5, Zenon DEF Agree

-----------------------------------------------------------------------------
(* The client's session has an invariant, proved in ClientSessionProofs. *)
CP == INSTANCE ClientSessionProofs
        WITH stream <- cstream, recv <- loop, inflight <- cinflight, pc <- app

LEMMA ClientConstants == CP!SessionAssumption
BY TunnelAssumption, StreamAssumption, Zenon DEF CP!SessionAssumption

LEMMA SameInit == ASSUME Client!Init PROVE CP!Init
BY Zenon DEF Client!Init, CP!Init

LEMMA ClientInit == TunnelInit => CP!IInv
<1>1. CP!Init => CP!IInv
  BY ClientConstants, CP!InitIInv, Zenon
<1> QED
  BY <1>1, SameInit, Zenon DEF TunnelInit

LEMMA ClientInvStep == CP!IInv /\ [CP!Next]_(CP!vars) => CP!IInv'
BY ClientConstants, CP!IInvStep, Zenon

(* The names of ClientSession mean the same in both instances. *)
LEMMA SameStep == [Client!Next]_(Client!vars) => [CP!Next]_(CP!vars)
<1> USE DEF Client!recvVars, CP!recvVars, Client!pipeVars, CP!pipeVars, Client!writerVars,
            CP!writerVars, Client!readVars, CP!readVars
<1>1. ASSUME NEW r
      PROVE  /\ Client!RequestStart(r) => CP!RequestStart(r)
             /\ Client!BadRequest(r) => CP!BadRequest(r)
             /\ Client!RequestBody(r) => CP!RequestBody(r)
  BY Zenon DEF Client!RequestStart, CP!RequestStart, Client!BadRequest, CP!BadRequest,
         Client!RequestBody, CP!RequestBody, Client!Receiving, CP!Receiving, Client!Goto, CP!Goto
<1>2. ASSUME NEW r
      PROVE  /\ Client!RequestEnd(r) => CP!RequestEnd(r)
             /\ Client!CancelRequest(r) => CP!CancelRequest(r)
  BY Zenon DEF Client!RequestEnd, CP!RequestEnd, Client!CancelRequest, CP!CancelRequest,
         Client!Receiving, CP!Receiving, Client!CloseWriteEnd, CP!CloseWriteEnd
<1>3. ASSUME NEW r
      PROVE  /\ Client!HandlerLocks(r) => CP!HandlerLocks(r)
             /\ Client!HandlerSends(r) => CP!HandlerSends(r)
  BY Zenon DEF Client!HandlerLocks, CP!HandlerLocks, Client!HandlerSends, CP!HandlerSends,
         Client!Goto, CP!Goto
<1>4. ASSUME NEW r
      PROVE  /\ Client!WriteHeader(r) => CP!WriteHeader(r)
             /\ Client!Write(r) => CP!Write(r)
  BY Zenon DEF Client!WriteHeader, CP!WriteHeader, Client!Write, CP!Write, Client!Call, CP!Call,
         Client!Header, CP!Header, Client!NeedHeader, CP!NeedHeader, Client!Goto, CP!Goto
<1>5. ASSUME NEW r
      PROVE  /\ Client!Finish(r) => CP!Finish(r)
             /\ Client!Fail(r) => CP!Fail(r)
  BY Zenon DEF Client!Finish, CP!Finish, Client!Fail, CP!Fail, Client!Call, CP!Call, Client!Header,
         CP!Header, Client!NeedHeader, CP!NeedHeader, Client!Goto, CP!Goto
<1>6. ASSUME NEW r
      PROVE  /\ Client!HandlerWaits(r) => CP!HandlerWaits(r)
             /\ Client!ReadChunk(r) => CP!ReadChunk(r)
             /\ Client!ReadEnds(r) => CP!ReadEnds(r)
  BY Zenon DEF Client!HandlerWaits, CP!HandlerWaits, Client!ReadChunk, CP!ReadChunk,
         Client!ReadEnds, CP!ReadEnds, Client!Broken, CP!Broken, Client!Goto, CP!Goto
<1>7. ASSUME NEW r
      PROVE  /\ Client!ContextEnds(r) => CP!ContextEnds(r)
             /\ Client!CloseRequest(r) => CP!CloseRequest(r)
             /\ Client!DeleteRequest(r) => CP!DeleteRequest(r)
  BY Zenon DEF Client!ContextEnds, CP!ContextEnds, Client!CloseRequest, CP!CloseRequest,
         Client!DeleteRequest, CP!DeleteRequest, Client!Goto, CP!Goto
<1>8. /\ Client!BodyWriteFails => CP!BodyWriteFails
      /\ Client!Ping => CP!Ping
      /\ Client!StreamFails => CP!StreamFails
      /\ Client!ReceiverLocks => CP!ReceiverLocks
  BY Zenon DEF Client!BodyWriteFails, CP!BodyWriteFails, Client!Ping, CP!Ping, Client!StreamFails,
         CP!StreamFails, Client!ReceiverLocks, CP!ReceiverLocks, Client!Broken, CP!Broken
<1>9. /\ Client!StreamEnds => CP!StreamEnds
      /\ Client!CloseReadEnds => CP!CloseReadEnds
      /\ Client!ReceiverSends => CP!ReceiverSends
  BY Zenon DEF Client!StreamEnds, CP!StreamEnds, Client!CloseReadEnds, CP!CloseReadEnds,
         Client!ReceiverSends, CP!ReceiverSends, Client!CleanUp, CP!CleanUp, Client!CloseWriteEnd,
         CP!CloseWriteEnd, Client!Told, CP!Told, Client!errSessionEnded, CP!errSessionEnded
<1>10. UNCHANGED Client!vars => UNCHANGED CP!vars
  BY Zenon DEF Client!vars, CP!vars
<1> QED
  BY <1>1, <1>2, <1>3, <1>4, <1>5, <1>6, <1>7, <1>8, <1>9, <1>10, Zenon
     DEF Client!Next, CP!Next, Client!HandlerStep, CP!HandlerStep, Client!RequestFrame, CP!RequestFrame,
         Client!ReceiverStep, CP!ReceiverStep

LEMMA SessionKnown == ASSUME CP!IInv PROVE Session /\ \A r \in Requests : ReadOf(r)
<1>1. CP!Types /\ CP!Loop /\ CP!Fresh /\ CP!Writer /\ CP!Pipe /\ CP!Counted
  BY Zenon DEF CP!IInv
<1>2. /\ fed \in [Requests -> Nat] /\ app \in [Requests -> Client!HandlerStates]
      /\ todo \in [Requests -> Seq(ResponseFrames)] /\ \A r \in Requests : got[r] \in Seq(Int)
  BY <1>1, Zenon DEF CP!Types, CP!HandlerStates, Client!HandlerStates, CP!Frames, ResponseFrames
<1>3. \A r \in Requests : (sendMu = r => app[r] = "send") /\ (fed[r] = 0 => app[r] = "none")
  BY <1>1, Zenon DEF CP!Loop, CP!Fresh
<1>4. ASSUME NEW r \in Requests, cstream = "up", app[r] = "send" PROVE CallOf(r)
  BY <1>1, <1>4, Zenon DEF CP!Writer, CP!Writing, CP!Continues, CallOf, ChunkCalls
<1>5. ASSUME NEW r \in Requests PROVE ReadOf(r)
  BY <1>1, <1>2, Zenon DEF CP!Pipe, CP!PipeOf, CP!Counted, CP!CountedOf, ReadOf
<1> QED
  BY <1>2, <1>3, <1>4, <1>5, Zenon DEF Session

(* The invariant of the tunnel: that of its edge, that of its client, and what
   crosses between them. *)
TInv == RInv /\ CP!IInv /\ Uploads /\ Downloads

LEMMA TInvStep == TInv /\ [TunnelNext]_tunnelVars => TInv'
<1> SUFFICES ASSUME TInv, [TunnelNext]_tunnelVars PROVE TInv'
  BY Zenon
<1>1. RInv /\ CP!IInv /\ Uploads /\ Downloads /\ IInv /\ Queues
  BY Zenon DEF TInv, RInv, IInv
<1>2. RInv'
  BY <1>1, EdgeSide, RInvStep, Zenon
<1>3. CP!IInv'
  BY <1>1, ClientSide, SameStep, ClientInvStep, Zenon
<1>4. Session
  BY <1>1, SessionKnown, Zenon
<1>5. Uploads'
  BY <1>1, <1>2, <1>4, UploadsStep, Zenon
<1>6. Downloads'
  BY <1>1, <1>4, DownloadsStep, Zenon
<1> QED
  BY <1>2, <1>3, <1>5, <1>6, Zenon DEF TInv

(* It holds throughout. *)
THEOREM TunnelInvariance == TunnelSpec => []TInv
<1>1. TunnelInit => TInv
  BY InitRInv, ClientInit, InitData, Zenon DEF TunnelInit, TInv
<1> QED
  BY <1>1, TInvStep, PTL DEF TunnelSpec

(* What the application reads of a request body is what the browser sent, and it
   takes the body for complete only when the edge has read and sent all of it. *)
THEOREM UploadsAreTruthful == TunnelSpec => []UploadTruthful
<1>1. TInv => UploadTruthful
  BY SessionKnown, UploadsFollow, Zenon DEF TInv
<1> QED
  BY <1>1, TunnelInvariance, PTL

(* What the browser gets of a response body is what the application wrote, and all
   of it when the edge was told of the response's end. *)
THEOREM DownloadsAreTruthful == TunnelSpec => []DownloadTruthful
<1>1. TInv /\ BodyConserved => DownloadTruthful
  BY DownloadsFollow, Zenon DEF TInv, RInv
<1> QED
  BY <1>1, TunnelInvariance, EdgeRefined, BodiesConserved, PTL

-----------------------------------------------------------------------------
(* What waits for what, from the invariants of both sides. *)

LEMMA ClientServed == TunnelInit => CP!Served
<1>1. CP!Init => CP!Served
  BY ClientConstants, CP!InitServed, Zenon
<1> QED
  BY <1>1, SameInit, Zenon DEF TunnelInit

LEMMA ClientContinues ==
  ASSUME CP!IInv, cstream = "up", NEW r \in Requests, app[r] = "send" PROVE Continues(r)
<1>1. CP!Continues(r)
  BY Zenon DEF CP!IInv, CP!Writer, CP!Writing
<1>2. \/ Head(todo[r]) = "ResponseStart" /\ sent[r] = "none"
      \/ Head(todo[r]) = "ResponseBody" /\ sent[r] \in CP!Open
      \/ Head(todo[r]) \in {"ResponseEnd", "ResponseError"} /\ sent[r] \in CP!Open \cup {"none"}
  BY <1>1, ClientConstants, CP!NextFrame, Zenon
<1> QED
  BY <1>2, Zenon DEF Continues, CP!Open

LEMMA ClientWaits == ASSUME CP!IInv, CP!Served PROVE Waiters
<1>1. /\ sendMu \in Requests \cup {NoOne, Receiver}
      /\ sendMu = Receiver => loop = "send"
      /\ loop = "write" => cur \in Requests /\ app[cur] # "none"
      /\ cstream = "up" => loop \in {"recv", "write", "send"}
  BY Zenon DEF CP!IInv, CP!Loop, CP!Served
<1>2. ASSUME NEW r \in Requests
      PROVE  /\ app[r] = "done" => r \in rclosed
             /\ cstream = "up" /\ app[r] = "done" => sent[r] \in {"ResponseEnd", "ResponseError"}
  BY Zenon DEF CP!Served, CP!ServedOf
<1>3. ASSUME NEW r \in Requests, cstream = "up", app[r] \in {"reading", "waiting"}, ~Client!Broken(r)
      PROVE  fed[r] <= BodyFrames[r] + 1
  <2>1. CP!Reads(r)
    BY <1>3, Zenon DEF CP!Reads
  <2>2. loop \notin {"closing", "returned"}
    BY <1>1, <1>3, Zenon
  <2>3. CP!Whole(r)
    BY <1>3, <2>1, <2>2, Zenon DEF CP!Whole, Client!Broken
  <2>4. fed[r] \in 1 .. BodyFrames[r] + 1
    BY <2>3, Zenon DEF CP!IInv, CP!Pipe, CP!PipeOf
  <2>5. BodyFrames[r] \in Nat
    BY LastNat, Zenon
  <2> QED
    BY <2>4, <2>5, UpTo, Zenon
<1>4. ASSUME NEW r \in Requests, app[r] = "waiting", r \notin ctxDone PROVE fed[r] < BodyFrames[r] + 3
  <2>1. app[r] \notin {"none", "done"}
    BY <1>4, Zenon
  <2>2. ~(fed[r] >= BodyFrames[r] + 3)
    BY <1>4, <2>1, Zenon DEF CP!Served, CP!ServedOf
  <2>3. fed[r] \in Nat /\ BodyFrames[r] \in Nat
    BY LastNat, Zenon DEF CP!IInv, CP!Types
  <2> QED
    BY <2>2, <2>3, Below, Zenon
<1> QED
  BY <1>1, <1>2, <1>3, <1>4, ClientContinues, Zenon DEF Waiters

(* The invariant of the waits: that of the tunnel, and what each side knows of the
   other's progress while neither has noticed a loss. *)
WInv == TInv /\ CP!Served /\ Answers /\ EdgeRuns /\ Started /\ Agree /\ Bounded

LEMMA WInvKnown == WInv => Known
BY SessionKnown, ClientWaits, Zenon DEF WInv, TInv, Known

LEMMA WInvStep == WInv /\ [TunnelNext]_tunnelVars => WInv'
<1> SUFFICES ASSUME WInv, [TunnelNext]_tunnelVars PROVE WInv'
  BY Zenon
<1>1. /\ TInv /\ RInv /\ IInv /\ Queues /\ CP!IInv /\ Downloads /\ Session
      /\ CP!Served /\ Answers /\ EdgeRuns /\ Started /\ Agree /\ Bounded
  BY SessionKnown, Zenon DEF WInv, TInv, RInv, IInv
<1>2. [CP!Next]_(CP!vars)
  BY <1>1, ClientSide, SameStep, Zenon
<1>3. CP!Served'
  BY <1>1, <1>2, ClientConstants, CP!ServedStep, Zenon
<1>4. cstream' = "up" => cstream = "up"
  BY <1>2, ClientConstants, CP!StreamStep, Zenon
<1>5. \A r \in Requests : app[r] # "none" => app'[r] # "none"
  BY <1>1, <1>2, ClientConstants, CP!NeverNoneAgain, Zenon
<1>6. PongsOnly
  BY <1>1, Zenon DEF PongsOnly, Started, CP!IInv, CP!Loop, CP!Types
<1>7. sent \in [Requests -> ResponseFrames \cup {"none"}]
  BY <1>1, Zenon DEF CP!IInv, CP!Types, CP!Frames, ResponseFrames
<1>8. Answers' /\ EdgeRuns' /\ Bounded'
  BY <1>1, EdgeSide, AnswersStep, EdgeRunsStep, BoundedStep, Zenon
<1>9. Started'
  BY <1>1, <1>5, StartedStep, Zenon
<1>10. Agree'
  BY <1>1, <1>4, <1>6, <1>7, AgreeStep, Zenon
<1>11. TInv'
  BY <1>1, TInvStep, Zenon
<1> QED
  BY <1>3, <1>8, <1>9, <1>10, <1>11, Zenon DEF WInv

(* It holds throughout. *)
THEOREM WaitsInvariance == TunnelSpec => []WInv
<1>1. TunnelInit => TInv
  BY InitRInv, ClientInit, InitData, Zenon DEF TunnelInit, TInv
<1>2. TunnelInit => WInv
  BY <1>1, ClientServed, InitJoint, Zenon DEF WInv
<1> QED
  BY <1>2, WInvStep, PTL DEF TunnelSpec

(* While the stream is up each side sends only frames that the other expects next:
   the client's loop the request's frames one after the other, the edge's receiver
   a ResponseStart, its chunks and one end.  A goroutine that waits to send waits
   for the other side's hands, never because its frame is refused. *)
THEOREM FramesAlwaysFit == TunnelSpec => []FramesFit
<1>1. WInv => FramesFit
  BY WInvKnown, FramesFitKnown, Zenon
<1> QED
  BY <1>1, WaitsInvariance, PTL

(* Whenever every goroutine of both sides waits while the stream is up, all is over
   or the wait is one of the known ones: the wait cycle of a large request and a
   large response, the receiver stuck with a response nobody reads, a handler of
   the application that was not told of the browser's leaving or that waits for
   its context. *)
THEOREM WaitsAreKnown == TunnelSpec => []WaitsKnown
<1>1. WInv => WaitsKnown
  BY WInvKnown, KnownWaits, Zenon
<1> QED
  BY <1>1, WaitsInvariance, PTL

(* The wait cycle of a large request and a large response is for good: only the
   loss of the stream, or the browser of the response leaving, ends it. *)
THEOREM DeadlockIsForGood == TunnelSpec => DeadlockStays
<1>1. WInv /\ [TunnelNext]_tunnelVars =>
        [Deadlock /\ ~Loss /\ ~Leaves(held[1].id) => Deadlock']_tunnelVars
  BY WInvKnown, DeadlockStep, Zenon
<1> QED
  BY <1>1, WaitsInvariance, PTL DEF TunnelSpec, DeadlockStays
=============================================================================
