------------------------------ MODULE SlotPool ------------------------------
(***************************************************************************)
(* What the edge promises about its in-flight limit, without saying how:   *)
(* there are MaxTotalInflight slots, a request takes at most one of them,  *)
(* once, and a slot that has been given back is never given back again.    *)
(***************************************************************************)
EXTENDS Integers, FiniteSets

CONSTANTS
  Requests,          \* proxied requests (one HTTP handler each)
  MaxTotalInflight   \* number of slots

VARIABLE slot        \* slot[r]: "none" before, "held" while, "returned" after

Holders == {r \in Requests : slot[r] = "held"}

Init == slot = [r \in Requests |-> "none"]

(* A request is admitted only while a slot is free. *)
Acquire(r) ==
  /\ slot[r] = "none"
  /\ Cardinality(Holders) < MaxTotalInflight
  /\ slot' = [slot EXCEPT ![r] = "held"]

(* One request, or every request of a session that shut down, returns its slot. *)
Return(S) ==
  /\ S # {}
  /\ S \subseteq Holders
  /\ slot' = [r \in Requests |-> IF r \in S THEN "returned" ELSE slot[r]]

Next ==
  \/ \E r \in Requests : Acquire(r)
  \/ \E S \in SUBSET Requests : Return(S)

Spec == Init /\ [][Next]_slot
=============================================================================
