-------------------------- MODULE ResponseProtocol --------------------------
(***************************************************************************)
(* What a tunnel client promises the edge about the frames of a response:  *)
(* ResponseStart, then any number of ResponseBody, then ResponseEnd, or    *)
(* ResponseError in place of what is left; nothing after that.             *)
(***************************************************************************)
CONSTANT Requests

VARIABLE sent   \* sent[r]: the last frame kind sent for r, "none" at first

Init == sent = [r \in Requests |-> "none"]

Send(r, kind) == sent' = [sent EXCEPT ![r] = kind]

Start(r) == sent[r] = "none" /\ Send(r, "ResponseStart")

Body(r) == sent[r] \in {"ResponseStart", "ResponseBody"} /\ Send(r, "ResponseBody")

End(r) == sent[r] \in {"ResponseStart", "ResponseBody"} /\ Send(r, "ResponseEnd")

Error(r) == sent[r] \notin {"ResponseEnd", "ResponseError"} /\ Send(r, "ResponseError")

Next == \E r \in Requests : Start(r) \/ Body(r) \/ End(r) \/ Error(r)

Spec == Init /\ [][Next]_sent
=============================================================================
