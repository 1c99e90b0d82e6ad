------------------------- MODULE EdgeSessionsProofs -------------------------
(***************************************************************************)
(* Proofs about EdgeSessions for any number of hosts, Connect calls and    *)
(* requests and any two limits.                                            *)
(*                                                                         *)
(* Slot accounting is not inductive as it stands: that removing a request  *)
(* from a map, or subtracting what failAll counted, takes a slot from      *)
(* exactly one holder needs to know who can own a slot at which point      *)
(* (SlotOwners).  The registry properties need to know what a Connect call *)
(* in the middle of a shutdown may be closing (Targets).                   *)
(***************************************************************************)
EXTENDS EdgeSessions, FiniteSetTheorems, TLAPS

(* A request in a session's map belongs to a handler of that session that has
   not left; a request counted by failAll is in no map and in no other count,
   and its handler was told. *)
SlotOwners ==
  /\ \A c \in Sessions : \A r \in inflight[c] :
       sess[r] = c /\ reqPC[r] \in {"forward", "running", "cancelled", "returning"}
  /\ \A c \in Sessions : \A r \in released[c] :
       /\ connPC[c] = "release"
       /\ reqPC[r] \in {"forward", "running", "cancelled", "returning", "finished"}
       /\ \A d \in Sessions : r \notin inflight[d] /\ (r \in released[d] => d = c)

(* What a handler between two of its steps relies on. *)
HandlerInv ==
  \A r \in Requests :
    /\ reqPC[r] \notin {"idle", "rejected"} => sess[r] \in Sessions
    /\ reqPC[r] = "cas" => current[r] < MaxTotalInflight

ShutdownStates == {"shutdown", "failAll", "release"}

(* A Connect call that shuts a session down closes its own, or one of the same
   host that it has taken out of the registry. *)
Targets ==
  \A c \in Sessions :
    /\ connPC[c] \in ShutdownStates =>
         /\ target[c] \in Sessions
         /\ host[target[c]] = host[c]
         /\ connPC[target[c]] # "start"
         /\ target[c] # c => sessions[host[c]] # target[c]
    /\ target[c] = c => connPC[c] \in ShutdownStates \cup {"sendWait", "gone"}
    /\ connPC[c] = "sendWait" => target[c] = c
    /\ connPC[c] = "start" => once[c] = "open"

Registry == Targets /\ RegisteredIsServed /\ NoOrphanSession

Slots == SlotOwners /\ SlotsAccounted /\ TotalBounded /\ SessionBounded

(* The inductive invariant. *)
IInv == TypeOK /\ Registry /\ HandlerInv /\ Slots /\ NoOrphanHandler

-----------------------------------------------------------------------------
(* Any set of requests is finite, so it can be counted. *)
LEMMA Countable ==
  ASSUME NEW S \in SUBSET Requests
  PROVE  IsFiniteSet(S) /\ Cardinality(S) \in Nat
  BY EdgeAssumption, FS_Subset, FS_CardinalityType DEF EdgeAssumption

(* Initially nothing is registered, in flight or reserved. *)
LEMMA InitIInv == Init => IInv
  <1> SUFFICES ASSUME Init PROVE IInv
    OBVIOUS
  <1>1. TypeOK
    BY DEF Init, TypeOK, ConnStates, ReqStates
  <1>2. Registry
    BY EdgeAssumption DEF Init, Registry, Targets, RegisteredIsServed,
       NoOrphanSession, ShutdownStates, EdgeAssumption
  <1>3. SlotHolders = {}
    BY DEF Init, SlotHolders
  <1>4. HandlerInv /\ NoOrphanHandler /\ SlotOwners
    BY DEF Init, HandlerInv, NoOrphanHandler, SlotOwners, Proxying
  <1>5. SlotsAccounted /\ TotalBounded /\ SessionBounded
    BY <1>3, FS_EmptySet, EdgeAssumption
       DEF Init, SlotsAccounted, TotalBounded, SessionBounded, EdgeAssumption
  <1> QED
    BY <1>1, <1>2, <1>4, <1>5 DEF IInv, Slots

(* The registry part: PutSession, the shutdown steps and RemoveSession are the
   only steps that can disturb it. *)
LEMMA RegistryStep == IInv /\ [Next]_vars => Registry'
  <1> SUFFICES ASSUME IInv, [Next]_vars PROVE Registry'
    OBVIOUS
  <1> USE EdgeAssumption DEF EdgeAssumption, IInv, TypeOK, Registry, Targets,
          RegisteredIsServed, NoOrphanSession, ShutdownStates, ConnStates, ConnGoto, ReqGoto
  <1>1. ASSUME NEW c \in Sessions, RejectRegister(c) PROVE Registry'
    BY <1>1 DEF RejectRegister
  <1>2. ASSUME NEW c \in Sessions, PutSession(c) PROVE Registry'
    <2> DEFINE t == sessions[host[c]]
    <2> USE <1>2 DEF PutSession, AfterPut
    <2>1. t # c
      OBVIOUS
    <2>2. t # NoSession => t \in Sessions /\ host[t] = host[c] /\ connPC[t] # "start"
      OBVIOUS
    <2>3. \A d \in Sessions : d # c => connPC'[d] = connPC[d] /\ target'[d] = target[d]
      OBVIOUS
    <2>4. target'[c] = t /\ connPC'[c] \in {"serving", "shutdown"}
      OBVIOUS
    <2>5. Targets'
      <3> SUFFICES ASSUME NEW d \in Sessions PROVE Targets!(d)'
        OBVIOUS
      <3>1. CASE d = c
        BY <2>1, <2>2, <2>3, <2>4, <3>1
      <3>2. CASE d # c
        BY <2>1, <2>2, <2>3, <2>4, <3>2
      <3> QED BY <3>1, <3>2
    <2>6. RegisteredIsServed'
      <3> SUFFICES ASSUME NEW h \in Hosts, sessions'[h] # NoSession
                   PROVE  /\ host[sessions'[h]] = h
                          /\ connPC'[sessions'[h]] \notin {"start", "gone"}
                          /\ once[sessions'[h]] = "open" \/ target'[sessions'[h]] = sessions'[h]
        OBVIOUS
      <3>1. CASE h = host[c]
        <4>1. sessions'[h] = c
          BY <3>1
        <4>2. once[c] = "open"
          OBVIOUS
        <4> QED BY <4>1, <4>2, <3>1, <2>4
      <3>2. CASE h # host[c]
        <4>1. sessions'[h] = sessions[h] /\ sessions[h] \in Sessions /\ sessions[h] # c
          BY <3>2
        <4> QED BY <4>1, <2>3
      <3> QED BY <3>1, <3>2
    <2>7. NoOrphanSession'
      <3> SUFFICES ASSUME NEW e \in Sessions,
                          connPC'[e] \notin {"start", "gone"}, once[e] = "open"
                   PROVE  \/ sessions'[host[e]] = e
                          \/ \E d \in Sessions : connPC'[d] = "shutdown" /\ target'[d] = e
        OBVIOUS
      <3>1. CASE e = c
        BY <3>1
      <3>2. CASE e # c /\ e = t
        BY <2>1, <2>2, <2>4, <3>2
      <3>3. CASE e # c /\ e # t
        <4>1. CASE sessions[host[e]] = e
          BY <3>3, <4>1
        <4>2. CASE sessions[host[e]] # e
          BY <2>3, <3>3, <4>2
        <4> QED BY <4>1, <4>2
      <3> QED BY <3>1, <3>2, <3>3
    <2> QED BY <2>5, <2>6, <2>7
  <1>3. ASSUME NEW c \in Sessions, StreamEnds(c) PROVE Registry'
    BY <1>3 DEF StreamEnds
  <1>4. ASSUME NEW c \in Sessions, CloseDone(c) PROVE Registry'
    BY <1>4 DEF CloseDone
  <1>5. ASSUME NEW c \in Sessions, FailAll(c) PROVE Registry'
    BY <1>5 DEF FailAll
  <1>6. ASSUME NEW c \in Sessions, ShutdownAgain(c) PROVE Registry'
    BY <1>6 DEF ShutdownAgain
  <1>7. ASSUME NEW c \in Sessions, ReleaseGlobalSlots(c) PROVE Registry'
    BY <1>7 DEF ReleaseGlobalSlots
  <1>8. ASSUME NEW c \in Sessions, RemoveSession(c) PROVE Registry'
    BY <1>8 DEF RemoveSession, Deregistered
  <1>9. ASSUME UNCHANGED <<sessions, once, connVars>> PROVE Registry'
    BY <1>9, Zenon DEF connVars
  <1> QED
    BY <1>1, <1>2, <1>3, <1>4, <1>5, <1>6, <1>7, <1>8, <1>9, Zenon
       DEF Next, vars, Terminated, ConnectStep, HandlerStep, FinishResponse, GetSession, LoadTotal,
           CompareAndSwap, TryStart, Unreserve, Forwarded, Cancel, HandlerStops, HandlerFails, Del, FinishRequest

(* The handler part: only a handler's own steps and FailAll can disturb it. *)
LEMMA OwnersStep == IInv /\ [Next]_vars => (HandlerInv /\ SlotOwners /\ NoOrphanHandler)'
  <1> DEFINE Goal == HandlerInv /\ SlotOwners /\ NoOrphanHandler
  <1> SUFFICES ASSUME IInv, [Next]_vars PROVE Goal'
    OBVIOUS
  <1> USE EdgeAssumption DEF EdgeAssumption, IInv, TypeOK, Registry, Targets, ShutdownStates,
          HandlerInv, Slots, SlotOwners, NoOrphanHandler, Proxying, ConnGoto, ReqGoto, connVars, reqVars
  <1>1. ASSUME NEW c \in Sessions, RejectRegister(c) PROVE Goal'
    BY <1>1 DEF RejectRegister
  <1>2. ASSUME NEW c \in Sessions, PutSession(c) PROVE Goal'
    BY <1>2 DEF PutSession, AfterPut
  <1>3. ASSUME NEW c \in Sessions, StreamEnds(c) PROVE Goal'
    BY <1>3 DEF StreamEnds
  <1>4. ASSUME NEW c \in Sessions, CloseDone(c) PROVE Goal'
    BY <1>4 DEF CloseDone
  <1>5. ASSUME NEW c \in Sessions, FailAll(c) PROVE Goal'
    BY <1>5 DEF FailAll, Told
  <1>6. ASSUME NEW c \in Sessions, ShutdownAgain(c) PROVE Goal'
    BY <1>6 DEF ShutdownAgain
  <1>7. ASSUME NEW c \in Sessions, ReleaseGlobalSlots(c) PROVE Goal'
    BY <1>7 DEF ReleaseGlobalSlots
  <1>8. ASSUME NEW c \in Sessions, RemoveSession(c) PROVE Goal'
    BY <1>8 DEF RemoveSession
  <1>9. ASSUME NEW c \in Sessions, NEW r \in Requests, FinishResponse(c, r) PROVE Goal'
    BY <1>9 DEF FinishResponse
  <1>10. ASSUME NEW r \in Requests, NEW h \in Hosts, GetSession(r, h) PROVE Goal'
    BY <1>10 DEF GetSession
  <1>11. ASSUME NEW r \in Requests, LoadTotal(r) PROVE Goal'
    BY <1>11 DEF LoadTotal
  <1>12. ASSUME NEW r \in Requests, CompareAndSwap(r) PROVE Goal'
    <2>1. PICK s \in {"reserved", "load"} : reqPC' = [reqPC EXCEPT ![r] = s]
      BY <1>12 DEF CompareAndSwap
    <2>2. /\ reqPC[r] = "cas" /\ current' = [current EXCEPT ![r] = 0]
          /\ UNCHANGED <<inflight, rsDone, connPC, released, sess>>
      BY <1>12 DEF CompareAndSwap
    <2>3. HandlerInv'
      BY <2>1, <2>2
    <2>4. SlotOwners'
      BY <2>1, <2>2
    <2>5. NoOrphanHandler'
      BY <2>1, <2>2
    <2> QED BY <2>3, <2>4, <2>5
  <1>13. ASSUME NEW r \in Requests, TryStart(r) PROVE Goal'
    <2>1. CASE SessionFull(sess[r])
      <3>1. /\ reqPC[r] = "reserved" /\ reqPC' = [reqPC EXCEPT ![r] = "unreserve"]
            /\ UNCHANGED <<inflight, rsDone, connPC, released, sess, current>>
        BY <1>13, <2>1 DEF TryStart
      <3>2. HandlerInv'
        BY <3>1
      <3>3. SlotOwners'
        BY <3>1
      <3>4. NoOrphanHandler'
        BY <3>1
      <3> QED BY <3>2, <3>3, <3>4
    <2>2. CASE ~SessionFull(sess[r])
      <3> USE <1>13, <2>2 DEF TryStart
      <3>1. sess[r] \in Sessions /\ \A c \in Sessions : r \notin released[c]
        BY Zenon
      <3>2. reqPC' = [reqPC EXCEPT ![r] = "forward"]
        OBVIOUS
      <3>3. \A c \in Sessions : inflight'[c] = inflight[c] \cup (IF c = sess[r] THEN {r} ELSE {})
        BY <3>1
      <3>4. HandlerInv'
        BY <3>1, <3>2
      <3>5. SlotOwners'
        BY <3>1, <3>2, <3>3
      <3>6. NoOrphanHandler'
        BY <3>1, <3>2, <3>3
      <3> QED BY <3>4, <3>5, <3>6
    <2> QED BY <2>1, <2>2
  <1>14. ASSUME NEW r \in Requests, Unreserve(r) PROVE Goal'
    BY <1>14 DEF Unreserve
  <1>15. ASSUME NEW r \in Requests, Forwarded(r) \/ Cancel(r) \/ HandlerFails(r) PROVE Goal'
    <2>1. \A q \in Requests : q # r => reqPC'[q] = reqPC[q]
      BY <1>15 DEF Forwarded, Cancel, HandlerFails
    <2>2. reqPC[r] \in {"forward", "running"} /\ reqPC'[r] \in {"running", "cancelled", "returning"}
      BY <1>15 DEF Forwarded, Cancel, HandlerFails
    <2>3. UNCHANGED <<inflight, rsDone, connVars, sess, current>>
      BY <1>15 DEF Forwarded, Cancel, HandlerFails
    <2>4. HandlerInv'
      BY <2>1, <2>2, <2>3
    <2>5. SlotOwners'
      <3>1. \A q \in Requests :
              LET held == {"forward", "running", "cancelled", "returning"}
              IN  /\ reqPC[q] \in held => reqPC'[q] \in held
                  /\ reqPC[q] \in held \cup {"finished"} => reqPC'[q] \in held \cup {"finished"}
        BY <2>1, <2>2
      <3>2. SlotOwners /\ \A c \in Sessions : inflight[c] \subseteq Requests /\ released[c] \subseteq Requests
        OBVIOUS
      <3> HIDE DEF IInv, TypeOK
      <3> QED
        BY <2>3, <3>1, <3>2, Zenon
    <2>6. NoOrphanHandler'
      BY <2>1, <2>2, <2>3
    <2> QED BY <2>4, <2>5, <2>6
  <1>16. ASSUME NEW r \in Requests, HandlerStops(r) PROVE Goal'
    BY <1>16 DEF HandlerStops, MustStop
  <1>17. ASSUME NEW r \in Requests, Del(r) PROVE Goal'
    BY <1>17 DEF Del, AfterDel
  <1>18. ASSUME NEW r \in Requests, FinishRequest(r) PROVE Goal'
    BY <1>18 DEF FinishRequest
  <1>19. ASSUME UNCHANGED vars PROVE Goal'
    BY <1>19, Zenon DEF vars
  <1> QED
    BY <1>1, <1>2, <1>3, <1>4, <1>5, <1>6, <1>7, <1>8, <1>9, <1>10, <1>11, <1>12, <1>13,
       <1>14, <1>15, <1>16, <1>17, <1>18, <1>19, Zenon DEF Next, Terminated, ConnectStep, HandlerStep

(* One step keeps the holders and the counter, or charges a slot to one more
   request (a compare-and-swap below the cap), or takes it from the requests it
   subtracts from the counter. *)
Kept == SlotHolders' = SlotHolders /\ totalInflight' = totalInflight

Taken(r) ==
  /\ reqPC[r] = "cas"
  /\ r \notin SlotHolders
  /\ SlotHolders' = SlotHolders \cup {r}
  /\ totalInflight' = totalInflight + 1
  /\ totalInflight < MaxTotalInflight

GivenBack(S) ==
  /\ S \subseteq SlotHolders
  /\ SlotHolders' = SlotHolders \ S
  /\ totalInflight' = totalInflight - Cardinality(S)

(* Which of the three a step of the edge is. *)
LEMMA HoldersStep ==
  IInv /\ [Next]_vars =>
    Kept \/ (\E r \in Requests : Taken(r)) \/ (\E S \in SUBSET Requests : GivenBack(S))
  <1> DEFINE Goal == \/ Kept \/ (\E r \in Requests : Taken(r))
                     \/ (\E S \in SUBSET Requests : GivenBack(S))
  <1> SUFFICES ASSUME IInv, [Next]_vars PROVE Goal
    BY Zenon
  <1> USE EdgeAssumption DEF EdgeAssumption, IInv, TypeOK, Registry, Targets, ShutdownStates,
          HandlerInv, Slots, SlotOwners, ConnGoto, ReqGoto, connVars, reqVars
  <1>1. ASSUME UNCHANGED <<inflight, released, reqPC, totalInflight>> PROVE Goal
    BY <1>1 DEF Kept, SlotHolders
  <1>2. ASSUME NEW c \in Sessions, FailAll(c) PROVE Kept
    <2>1. \A r \in Requests : (\E d \in Sessions : r \in inflight'[d] \/ r \in released'[d])
                            <=> (\E d \in Sessions : r \in inflight[d] \/ r \in released[d])
      BY <1>2 DEF FailAll
    <2> QED BY <1>2, <2>1 DEF FailAll, Kept, SlotHolders
  <1>3. ASSUME NEW c \in Sessions, ReleaseGlobalSlots(c) PROVE GivenBack(released[c])
    <2>1. \A r \in released[c] : reqPC[r] \notin {"reserved", "unreserve", "finish"}
      BY Zenon
    <2> QED BY <1>3, <2>1 DEF ReleaseGlobalSlots, GivenBack, SlotHolders
  <1>4. ASSUME NEW r \in Requests, CompareAndSwap(r) PROVE Kept \/ Taken(r)
    BY <1>4 DEF CompareAndSwap, CASSucceeds, Kept, Taken, SlotHolders
  <1>5. ASSUME NEW r \in Requests, TryStart(r) PROVE Kept
    <2>1. CASE SessionFull(sess[r])
      BY <1>5, <2>1 DEF TryStart, Kept, SlotHolders
    <2>2. CASE ~SessionFull(sess[r])
      <3>1. sess[r] \in Sessions /\ reqPC' = [reqPC EXCEPT ![r] = "forward"]
        BY <1>5, <2>2, Zenon DEF TryStart
      <3>2. \A q \in Requests \ {r} : \A d \in Sessions : q \in inflight'[d] <=> q \in inflight[d]
        BY <1>5, <2>2 DEF TryStart
      <3>3. r \in inflight'[sess[r]] /\ reqPC[r] = "reserved"
        BY <1>5, <2>2, <3>1 DEF TryStart
      <3>4. UNCHANGED <<totalInflight, released>>
        BY <1>5, Zenon DEF TryStart
      <3>5. \A q \in Requests \ {r} : reqPC'[q] = reqPC[q]
        BY <3>1
      <3>6. \A q \in Requests \ {r} : q \in SlotHolders' <=> q \in SlotHolders
        BY <3>2, <3>4, <3>5, Zenon DEF SlotHolders
      <3>7. r \in SlotHolders' /\ r \in SlotHolders
        BY <3>1, <3>3, Zenon DEF SlotHolders
      <3>8. SlotHolders' \subseteq Requests /\ SlotHolders \subseteq Requests
        BY DEF SlotHolders
      <3>9. SlotHolders' = SlotHolders
        <4> HIDE DEF IInv
        <4> QED BY <3>6, <3>7, <3>8
      <3> QED BY <3>4, <3>9 DEF Kept
    <2> QED BY <2>1, <2>2
  <1>6. ASSUME NEW r \in Requests, Unreserve(r) \/ FinishRequest(r) PROVE GivenBack({r})
    <2>1. Cardinality({r}) = 1
      BY FS_Singleton, Zenon
    <2>2. r \in SlotHolders /\ reqPC' = [reqPC EXCEPT ![r] = "finished"]
      BY <1>6 DEF Unreserve, FinishRequest, SlotHolders
    <2>3. totalInflight' = totalInflight - 1 /\ UNCHANGED <<inflight, released>>
      BY <1>6 DEF Unreserve, FinishRequest
    <2>4. \A d \in Sessions : r \notin inflight[d] /\ r \notin released[d]
      BY <1>6 DEF Unreserve, FinishRequest
    <2> QED BY <2>1, <2>2, <2>3, <2>4 DEF GivenBack, SlotHolders
  <1>7. ASSUME NEW r \in Requests, Del(r) PROVE Kept
    BY <1>7 DEF Del, AfterDel, Kept, SlotHolders
  <1>8. ASSUME NEW r \in Requests, NEW pc \in ReqStates,
               reqPC' = [reqPC EXCEPT ![r] = pc], UNCHANGED <<inflight, released, totalInflight>>,
               reqPC[r] \notin {"reserved", "unreserve", "finish"},
               pc \notin {"reserved", "unreserve", "finish"}
        PROVE  Kept
    BY <1>8 DEF Kept, SlotHolders
  <1>9. ASSUME NEW r \in Requests, NEW h \in Hosts, GetSession(r, h) PROVE Kept
    BY <1>9 DEF GetSession, Kept, SlotHolders
  <1>10. ASSUME NEW r \in Requests, LoadTotal(r) \/ Forwarded(r) \/ Cancel(r) \/ HandlerStops(r) \/ HandlerFails(r)
         PROVE  Kept
    BY <1>8, <1>10, Zenon DEF LoadTotal, Forwarded, Cancel, HandlerStops, MustStop, HandlerFails, ReqStates
  <1>11. ASSUME NEW c \in Sessions,
                \/ RejectRegister(c) \/ PutSession(c) \/ StreamEnds(c) \/ CloseDone(c)
                \/ ShutdownAgain(c) \/ RemoveSession(c) \/ \E r \in Requests : FinishResponse(c, r)
         PROVE  Goal
    BY <1>1, <1>11, Zenon DEF RejectRegister, PutSession, StreamEnds, CloseDone, ShutdownAgain,
       RemoveSession, FinishResponse
  <1>12. ASSUME UNCHANGED vars PROVE Goal
    BY <1>1, <1>12, Zenon DEF vars
  <1>13. ASSUME NEW c \in Sessions, ReleaseGlobalSlots(c) PROVE Goal
    BY <1>3, <1>13, Zenon
  <1>14. ASSUME NEW r \in Requests, Unreserve(r) \/ FinishRequest(r) PROVE Goal
    <2>1. GivenBack({r})
      BY <1>6, <1>14, Zenon
    <2>2. {r} \in SUBSET Requests
      OBVIOUS
    <2> QED BY <2>1, <2>2
  <1> QED
    BY <1>2, <1>4, <1>5, <1>7, <1>9, <1>10, <1>11, <1>12, <1>13, <1>14, Zenon
       DEF Next, Terminated, ConnectStep, HandlerStep

(* The counter keeps counting the holders, within the cap. *)
LEMMA AccountingStep == IInv /\ [Next]_vars => (SlotsAccounted /\ TotalBounded)'
  <1> SUFFICES ASSUME IInv, [Next]_vars PROVE (SlotsAccounted /\ TotalBounded)'
    OBVIOUS
  <1>1. SlotHolders \in SUBSET Requests /\ SlotHolders' \in SUBSET Requests
    BY DEF SlotHolders
  <1>2. /\ IsFiniteSet(SlotHolders) /\ Cardinality(SlotHolders) \in Nat
        /\ Cardinality(SlotHolders') \in Nat
    BY <1>1, Countable
  <1>3. totalInflight = Cardinality(SlotHolders) /\ totalInflight <= MaxTotalInflight
    BY DEF IInv, Slots, SlotsAccounted, TotalBounded
  <1>4. CASE Kept
    BY <1>2, <1>3, <1>4, EdgeAssumption DEF Kept, SlotsAccounted, TotalBounded, EdgeAssumption
  <1>5. ASSUME NEW r \in Requests, Taken(r) PROVE (SlotsAccounted /\ TotalBounded)'
    <2>1. Cardinality(SlotHolders') = Cardinality(SlotHolders) + 1
      BY <1>2, <1>5, FS_AddElement, Zenon DEF Taken
    <2> QED BY <1>2, <1>3, <1>5, <2>1, EdgeAssumption
               DEF Taken, SlotsAccounted, TotalBounded, EdgeAssumption
  <1>6. ASSUME NEW S \in SUBSET Requests, GivenBack(S) PROVE (SlotsAccounted /\ TotalBounded)'
    <2>1. IsFiniteSet(S) /\ Cardinality(S) \in Nat
      BY Countable
    <2>2. SlotHolders \cap S = S
      BY <1>6 DEF GivenBack
    <2>3. Cardinality(SlotHolders') = Cardinality(SlotHolders) - Cardinality(S)
      <3>1. Cardinality(SlotHolders \ S) = Cardinality(SlotHolders) - Cardinality(SlotHolders \cap S)
        BY <1>2, FS_Difference, Zenon
      <3> QED BY <1>6, <2>2, <3>1 DEF GivenBack
    <2> QED BY <1>2, <1>3, <1>6, <2>1, <2>3, EdgeAssumption
               DEF GivenBack, SlotsAccounted, TotalBounded, EdgeAssumption
  <1> QED
    BY <1>4, <1>5, <1>6, HoldersStep

(* tryStart adds to a map only below the session's limit. *)
LEMMA SessionStep == IInv /\ [Next]_vars => SessionBounded'
  <1> SUFFICES ASSUME IInv, [Next]_vars, NEW d \in Sessions
               PROVE  Cardinality(inflight'[d]) <= MaxInflight
    BY DEF SessionBounded
  <1> USE EdgeAssumption DEF EdgeAssumption, IInv, TypeOK
  <1>1. IsFiniteSet(inflight[d]) /\ Cardinality(inflight[d]) \in Nat
    BY Countable
  <1>2. Cardinality(inflight[d]) <= MaxInflight
    BY Zenon DEF Slots, SessionBounded
  <1>3. ASSUME NEW r \in Requests, TryStart(r) PROVE Cardinality(inflight'[d]) <= MaxInflight
    <2>1. CASE inflight'[d] = inflight[d]
      BY <1>2, <2>1, Zenon
    <2>2. CASE inflight'[d] # inflight[d]
      <3>1. ~SessionFull(d) /\ inflight'[d] = inflight[d] \cup {r}
        <4>1. ~SessionFull(sess[r]) /\ inflight' = [inflight EXCEPT ![sess[r]] = @ \cup {r}]
          BY <1>3, <2>2 DEF TryStart
        <4>2. sess[r] = d
          BY <2>2, <4>1, Zenon
        <4> QED BY <4>1, <4>2
      <3>2. r \notin inflight[d]
        BY <2>2, <3>1
      <3>3. Cardinality(inflight'[d]) = Cardinality(inflight[d]) + 1
        BY <1>1, <3>1, <3>2, FS_AddElement, Zenon
      <3> QED BY <1>1, <3>1, <3>3 DEF SessionFull
    <2> QED BY <2>1, <2>2
  <1>4. ASSUME inflight'[d] \subseteq inflight[d] PROVE Cardinality(inflight'[d]) <= MaxInflight
    <2>1. Cardinality(inflight'[d]) <= Cardinality(inflight[d]) /\ Cardinality(inflight'[d]) \in Nat
      BY <1>1, <1>4, FS_Subset, FS_CardinalityType, Zenon
    <2> QED BY <1>1, <1>2, <2>1
  <1>5. ASSUME NEW r \in Requests, Del(r) PROVE inflight'[d] \subseteq inflight[d]
    BY <1>5 DEF Del
  <1>6. ASSUME NEW c \in Sessions, FailAll(c) PROVE inflight'[d] \subseteq inflight[d]
    BY <1>6 DEF FailAll
  <1>7. ASSUME UNCHANGED inflight PROVE inflight'[d] \subseteq inflight[d]
    BY <1>7, Zenon
  <1> QED
    BY <1>3, <1>4, <1>5, <1>6, <1>7, Zenon
       DEF Next, vars, Terminated, ConnectStep, HandlerStep, RejectRegister, PutSession, StreamEnds, CloseDone,
           ShutdownAgain, ReleaseGlobalSlots, RemoveSession, FinishResponse, GetSession, LoadTotal,
           CompareAndSwap, Unreserve, Forwarded, Cancel, HandlerStops, HandlerFails, FinishRequest

(* Types: the counter is a natural number because it counts the holders. *)
LEMMA TypeStep == IInv /\ [Next]_vars => TypeOK'
  <1> SUFFICES ASSUME IInv, [Next]_vars PROVE TypeOK'
    OBVIOUS
  <1>1. totalInflight' \in Nat
    BY AccountingStep, EdgeAssumption DEF TotalBounded, EdgeAssumption
  <1>2. TypeOK /\ Targets /\ HandlerInv
    BY Zenon DEF IInv, Registry
  <1> USE <1>1, <1>2 DEF TypeOK, ConnStates, ReqStates, ConnGoto, ReqGoto, connVars, reqVars
  <1>3. ASSUME NEW c \in Sessions, RejectRegister(c) \/ PutSession(c) \/ StreamEnds(c) PROVE TypeOK'
    <2>1. CASE RejectRegister(c)
      BY <2>1, Zenon DEF RejectRegister
    <2>2. CASE PutSession(c)
      BY <2>2, Zenon DEF PutSession, AfterPut
    <2>3. CASE StreamEnds(c)
      BY <2>3, Zenon DEF StreamEnds
    <2> QED BY <1>3, <2>1, <2>2, <2>3
  <1>4. ASSUME NEW c \in Sessions, ConnectStep(c) PROVE TypeOK'
    <2>1. CASE CloseDone(c)
      BY <2>1, Zenon DEF CloseDone, Targets, ShutdownStates
    <2>5. CASE ShutdownAgain(c)
      BY <2>5, Zenon DEF ShutdownAgain, Targets, ShutdownStates
    <2>2. CASE FailAll(c)
      BY <2>2, Zenon DEF FailAll, Told, Targets, ShutdownStates
    <2>3. CASE ReleaseGlobalSlots(c)
      BY <2>3, Zenon DEF ReleaseGlobalSlots
    <2>4. CASE RemoveSession(c)
      BY <2>4, Zenon DEF RemoveSession, Deregistered
    <2> QED BY <1>4, <2>1, <2>2, <2>3, <2>4, <2>5 DEF ConnectStep
  <1>5. ASSUME NEW c \in Sessions, NEW r \in Requests, FinishResponse(c, r) PROVE TypeOK'
    BY <1>5, Zenon DEF FinishResponse
  <1>6. ASSUME NEW r \in Requests, HandlerStep(r) PROVE TypeOK'
    <2>1. CASE LoadTotal(r) \/ CompareAndSwap(r)
      BY <2>1 DEF LoadTotal, CompareAndSwap
    <2>2. CASE TryStart(r)
      BY <2>2 DEF TryStart, HandlerInv
    <2>3. CASE Unreserve(r) \/ HandlerStops(r) \/ FinishRequest(r)
      BY <2>3, Zenon DEF Unreserve, HandlerStops, FinishRequest
    <2>4. CASE Del(r)
      BY <2>4, Zenon DEF Del, AfterDel, HandlerInv
    <2> QED BY <1>6, <2>1, <2>2, <2>3, <2>4 DEF HandlerStep
  <1>7. ASSUME NEW r \in Requests, Forwarded(r) \/ Cancel(r) \/ HandlerFails(r) PROVE TypeOK'
    BY <1>7, Zenon DEF Forwarded, Cancel, HandlerFails
  <1>8. ASSUME NEW r \in Requests, NEW h \in Hosts, GetSession(r, h) PROVE TypeOK'
    BY <1>8, Zenon DEF GetSession
  <1>9. ASSUME UNCHANGED vars PROVE TypeOK'
    BY <1>9 DEF vars
  <1> QED
    BY <1>3, <1>4, <1>5, <1>6, <1>7, <1>8, <1>9, Zenon DEF Next, Terminated

(* IInv holds in every reachable state of the edge. *)
THEOREM Invariance == Spec => []IInv
  <1>1. IInv /\ [Next]_vars => IInv'
    BY RegistryStep, OwnersStep, AccountingStep, SessionStep, TypeStep DEF IInv, Slots
  <1> QED
    BY <1>1, InitIInv, PTL DEF Spec

(* Type correctness, which includes that the atomic counter is never negative. *)
THEOREM TypeCorrect == Spec => []TypeOK
  BY Invariance, PTL DEF IInv

(* For any limits and any number of sessions and requests, the counter that
   tryReserveGlobalSlot, finishRequest and shutdown update without a common
   lock is exact and stays within the cap. *)
THEOREM SlotAccounting == Spec => [](SlotsAccounted /\ TotalBounded /\ SessionBounded)
  BY Invariance, PTL DEF IInv, Slots

(* Whatever Connect calls replace and remove concurrently, a host routes only
   to a served session and no live session is forgotten. *)
THEOREM RegistryCorrect == Spec => [](RegisteredIsServed /\ NoOrphanSession)
  BY Invariance, PTL DEF IInv, Registry

(* failAll never takes a handler's entry without telling the handler. *)
THEOREM HandlersInformed == Spec => []NoOrphanHandler
  BY Invariance, PTL DEF IInv

(* At most MaxTotalInflight handlers proxy requests that were not told to stop:
   each of them is in a map, so a slot is charged to it. *)
THEOREM ActiveHandlersBounded == Spec => []ActiveBounded
  <1>1. IInv => ActiveBounded
    <2> SUFFICES ASSUME IInv PROVE ActiveBounded
      OBVIOUS
    <2> DEFINE A == {r \in Requests : reqPC[r] \in Proxying /\ r \notin rsDone}
    <2>1. A \in SUBSET SlotHolders
      BY DEF IInv, NoOrphanHandler, HandlerInv, Proxying, SlotHolders
    <2>2. SlotHolders \in SUBSET Requests
      BY DEF SlotHolders
    <2>3. IsFiniteSet(SlotHolders) /\ Cardinality(SlotHolders) <= MaxTotalInflight
      BY <2>2, Countable DEF IInv, Slots, SlotsAccounted, TotalBounded
    <2>4. Cardinality(A) <= Cardinality(SlotHolders)
      BY <2>1, <2>3, FS_Subset
    <2>5. Cardinality(A) \in Nat /\ Cardinality(SlotHolders) \in Nat
      BY <2>2, Countable
    <2> QED
      BY <2>3, <2>4, <2>5, EdgeAssumption DEF ActiveBounded, EdgeAssumption
  <1> QED
    BY <1>1, Invariance, PTL

-----------------------------------------------------------------------------
(* Refinement of SlotPool under the mapping Slot. *)

(* The requests SlotPool sees holding a slot are the holders. *)
LEMMA HoldersMap == Pool!Holders = SlotHolders
  BY Zenon DEF Pool!Holders, Slot, SlotHolders

(* A request without a slot that has passed its compare-and-swap stays so. *)
PastSlot == Proxying \cup {"returning", "finished"}

(* What a step does to the requests that hold no slot before or after it. *)
LEMMA PastStep ==
  IInv /\ [Next]_vars =>
    \A r \in Requests :
      /\ r \notin SlotHolders /\ r \notin SlotHolders' =>
           (reqPC[r] \in PastSlot <=> reqPC'[r] \in PastSlot)
      /\ r \in SlotHolders /\ r \notin SlotHolders' => reqPC'[r] \in PastSlot
  <1> SUFFICES ASSUME IInv, [Next]_vars, NEW r \in Requests
               PROVE  /\ r \notin SlotHolders /\ r \notin SlotHolders' =>
                           (reqPC[r] \in PastSlot <=> reqPC'[r] \in PastSlot)
                      /\ r \in SlotHolders /\ r \notin SlotHolders' => reqPC'[r] \in PastSlot
    OBVIOUS
  <1> DEFINE Moves ==
        \/ reqPC'[r] = reqPC[r]
        \/ reqPC'[r] \in {"reserved", "unreserve", "finish"}
        \/ /\ reqPC[r] \in PastSlot \cup {"reserved", "unreserve", "finish"}
           /\ reqPC'[r] \in PastSlot
        \/ reqPC[r] \in {"idle", "load", "cas"} /\ reqPC'[r] \in {"load", "cas", "rejected"}
  <1>1. reqPC \in [Requests -> ReqStates] /\ SlotOwners
    BY Zenon DEF IInv, TypeOK, Slots
  <1>2. ASSUME NEW q \in Requests, HandlerStep(q) \/ Forwarded(q) \/ Cancel(q) \/ HandlerFails(q) PROVE Moves
    <2>1. CASE q # r
      <3>1. \E s : reqPC' = [reqPC EXCEPT ![q] = s]
        BY <1>2, Zenon DEF HandlerStep, LoadTotal, CompareAndSwap, TryStart, Unreserve, HandlerStops, Del,
           FinishRequest, Forwarded, Cancel, HandlerFails, ReqGoto
      <3> QED BY <1>1, <2>1, <3>1
    <2>2. CASE q = r /\ (LoadTotal(r) \/ CompareAndSwap(r))
      BY <1>1, <2>2, Zenon DEF LoadTotal, CompareAndSwap, ReqGoto
    <2>3. CASE q = r /\ (TryStart(r) \/ Unreserve(r) \/ FinishRequest(r))
      BY <1>1, <2>3, Zenon DEF TryStart, Unreserve, FinishRequest, ReqGoto, PastSlot, Proxying
    <2>4. CASE q = r /\ (HandlerStops(r) \/ Forwarded(r) \/ Cancel(r) \/ HandlerFails(r))
      BY <1>1, <2>4, Zenon DEF HandlerStops, MustStop, Forwarded, Cancel, HandlerFails, ReqGoto, PastSlot, Proxying
    <2>5. CASE q = r /\ Del(r)
      BY <1>1, <2>5, Zenon DEF Del, AfterDel, ReqGoto, PastSlot
    <2> QED BY <1>2, <2>1, <2>2, <2>3, <2>4, <2>5 DEF HandlerStep
  <1>3. ASSUME NEW q \in Requests, NEW h \in Hosts, GetSession(q, h) PROVE Moves
    BY <1>1, <1>3, Zenon DEF GetSession, ReqGoto
  <1>4. ASSUME NEW c \in Sessions,
               \/ RejectRegister(c) \/ PutSession(c) \/ StreamEnds(c) \/ ConnectStep(c)
               \/ \E q \in Requests : FinishResponse(c, q)
        PROVE  reqPC' = reqPC
    BY <1>4, Zenon DEF RejectRegister, PutSession, StreamEnds, ConnectStep, CloseDone, FailAll,
       ShutdownAgain, ReleaseGlobalSlots, RemoveSession, FinishResponse, reqVars
  <1>5. ASSUME UNCHANGED vars PROVE reqPC' = reqPC
    BY <1>5 DEF vars, reqVars
  <1>6. Moves
    <2> HIDE DEF Moves
    <2>1. CASE UNCHANGED vars \/ Terminated
      BY <1>5, <2>1 DEF Terminated, Moves
    <2>2. ASSUME NEW c \in Sessions,
                 \/ RejectRegister(c) \/ PutSession(c) \/ StreamEnds(c) \/ ConnectStep(c)
                 \/ \E q \in Requests : FinishResponse(c, q)
          PROVE  Moves
      BY <1>4, <2>2, Zenon DEF Moves
    <2> QED BY <1>2, <1>3, <2>1, <2>2 DEF Next
  <1>7. CASE reqPC'[r] = reqPC[r]
    BY <1>1, <1>7, Zenon DEF SlotOwners, SlotHolders, PastSlot, Proxying
  <1>8. CASE reqPC'[r] \in {"reserved", "unreserve", "finish"}
    BY <1>8 DEF SlotHolders
  <1>9. CASE /\ reqPC[r] \in PastSlot \cup {"reserved", "unreserve", "finish"}
             /\ reqPC'[r] \in PastSlot
    BY <1>9, Zenon DEF SlotHolders
  <1>10. CASE reqPC[r] \in {"idle", "load", "cas"} /\ reqPC'[r] \in {"load", "cas", "rejected"}
    BY <1>1, <1>10 DEF SlotOwners, SlotHolders, PastSlot, Proxying
  <1> QED BY <1>6, <1>7, <1>8, <1>9, <1>10

(* The edge implements the slot pool: its compare-and-swap is Acquire, its
   subtractions are Return, every other step leaves the pool alone. *)
THEOREM EdgeImplementsSlotPool == Spec => ImplementsSlotPool
  <1>1. Init => Pool!Init
    BY DEF Init, Pool!Init, Slot, SlotHolders, Proxying
  <1>2. IInv /\ [Next]_vars => [Pool!Next]_Slot
    <2> SUFFICES ASSUME IInv, [Next]_vars PROVE [Pool!Next]_Slot
      OBVIOUS
    <2>1. SlotHolders \subseteq Requests
      BY DEF SlotHolders
    <2>2. CASE Kept
      BY <2>1, <2>2, PastStep DEF Kept, Slot, PastSlot
    <2>3. ASSUME NEW r \in Requests, Taken(r) PROVE Pool!Acquire(r)
      <3>1. Slot[r] = "none"
        BY <2>3 DEF Taken, Slot, Proxying
      <3>2. Cardinality(Pool!Holders) < MaxTotalInflight
        BY <2>3, HoldersMap DEF Taken, IInv, Slots, SlotsAccounted
      <3>3. Slot' = [Slot EXCEPT ![r] = "held"]
        BY <2>1, <2>3, PastStep, Zenon DEF Taken, Slot, PastSlot
      <3>4. Pool!Cardinality(Pool!Holders) = Cardinality(Pool!Holders)
        BY DEF Pool!Cardinality, Cardinality
      <3> QED BY <3>1, <3>2, <3>3, <3>4 DEF Pool!Acquire
    <2>4. ASSUME NEW S \in SUBSET Requests, GivenBack(S), S # {} PROVE Pool!Return(S)
      <3>1. S \subseteq Pool!Holders
        BY <2>4, HoldersMap DEF GivenBack
      <3>2. Slot' = [r \in Requests |-> IF r \in S THEN "returned" ELSE Slot[r]]
        BY <2>1, <2>4, PastStep DEF GivenBack, Slot, PastSlot
      <3> QED BY <2>4, <3>1, <3>2 DEF Pool!Return
    <2>5. ASSUME GivenBack({}) PROVE Kept
      BY <2>5, FS_EmptySet DEF GivenBack, Kept, IInv, TypeOK
    <2> QED
      BY <2>2, <2>3, <2>4, <2>5, HoldersStep DEF Pool!Next
  <1> QED
    BY <1>1, <1>2, Invariance, PTL DEF Spec, ImplementsSlotPool, Pool!Spec
=============================================================================
