------------------------------- MODULE Headers -------------------------------
(***************************************************************************)
(* The path of one header set through the tunnel (internal/headers):       *)
(* ToProto on one side, FromProto on the other, and Copy into the          *)
(* browser's response.  A header set maps keys to sequences of values;     *)
(* keys are in the canonical form net/http gives them, so that case plays  *)
(* no part.  A value of Connection is the set of names it lists.           *)
(***************************************************************************)
EXTENDS Integers, Sequences, FiniteSets, Functions

CONSTANTS
  Plain,       \* keys of end-to-end headers
  Connections, \* the value sequences of Connection to consider
  Upgrades     \* the value sequences of Upgrade to consider

(* No header has the empty name. *)
ASSUME HeadersAssumption ==
  /\ "" \notin Plain
  /\ Connections \subseteq Seq(SUBSET STRING)
  /\ Upgrades \subseteq Seq(STRING)

Absent == <<>>

hopByHopHeaders ==
  {"keep-alive", "proxy-authenticate", "proxy-authorization", "te", "trailer", "transfer-encoding"}

Negotiation == {"connection", "upgrade"}

Keys == Plain \cup Negotiation \cup {"te"}

VARIABLES
  original,  \* the header set as received
  current,   \* what it has become
  stage      \* "received", "wire", "handler" or "browser"

headerVars == <<original, current, stage>>

(* Faulty versions of definitions below, each a plausible slip in the code. *)
connectionTokens_First(h) ==
  IF "connection" \in DOMAIN h THEN h["connection"][1] \ {"", "upgrade"} ELSE {}
isWebSocketUpgrade_Last(h) ==
  "upgrade" \in DOMAIN h /\ h["upgrade"][Len(h["upgrade"])] = "websocket"

-----------------------------------------------------------------------------
(* Get: the first value, or the empty string. *)
Get(h, k) == IF k \in DOMAIN h /\ h[k] # <<>> THEN h[k][1] ELSE ""

connectionTokens(h) ==
  IF "connection" \in DOMAIN h THEN (UNION Range(h["connection"])) \ {"", "upgrade"} ELSE {}

hasUpgrade(h) == Get(h, "upgrade") # ""

isHopByHop(k, tokens) == k \in hopByHopHeaders \/ k \in tokens

shouldStrip(k, tokens, upgrading) ==
  IF k \in Negotiation THEN ~upgrading ELSE isHopByHop(k, tokens)

Filter(h) ==
  Restrict(h, {k \in DOMAIN h : ~shouldStrip(k, connectionTokens(h), hasUpgrade(h))})

(* ServeHTTP's test for a WebSocket, and the client's. *)
edgeUpgrade(h) == Get(h, "upgrade") = "websocket"
isWebSocketUpgrade(h) == "upgrade" \in DOMAIN h /\ "websocket" \in Range(h["upgrade"])

-----------------------------------------------------------------------------
Given(h) == Restrict(h, {k \in Keys : h[k] # Absent})

HeaderInit ==
  /\ stage = "received"
  /\ \E c \in Connections, u \in Upgrades, P \in SUBSET Plain, te \in BOOLEAN :
       original = Given([k \in Keys |->
         IF k = "connection" THEN c
         ELSE IF k = "upgrade" THEN u
         ELSE IF k \in P \/ (k = "te" /\ te) THEN <<"v1", "v2">> ELSE Absent])
  /\ current = original

Pass(from, to, h) ==
  /\ stage = from
  /\ stage' = to
  /\ current' = h
  /\ UNCHANGED original

ToProto == Pass("received", "wire", Filter(current))

FromProto == Pass("wire", "handler", Filter(current))

Values(h, k) == IF k \in DOMAIN h THEN h[k] ELSE <<>>

Add(dst, src) == [k \in DOMAIN dst \cup DOMAIN src |-> Values(dst, k) \o Values(src, k)]

(* Copy adds every value to the browser's header set, empty until then. *)
Copy == Pass("handler", "browser", Add(Restrict(current, {}), current))

HeaderNext == ToProto \/ FromProto \/ Copy

HeaderSpec == HeaderInit /\ [][HeaderNext]_headerVars

-----------------------------------------------------------------------------
Named == IF "connection" \in DOMAIN original THEN UNION Range(original["connection"]) ELSE {}

EndToEnd == DOMAIN original \ (Negotiation \cup hopByHopHeaders \cup Named)

(* With all their values cross the tunnel exactly the end-to-end headers, none
   named by the received Connection header though Connection itself may be gone
   when FromProto judges again, and Connection and Upgrade, together, when an
   upgrade is requested. *)
HeadersCross ==
  stage # "received" =>
    current = Restrict(original,
      EndToEnd \cup (IF Get(original, "upgrade") = "" THEN {} ELSE DOMAIN original \cap Negotiation))

(* What the edge takes for a WebSocket the client takes for one; the client may
   only see one more where Upgrade has several values. *)
KindsAgree ==
  stage = "wire" =>
    /\ edgeUpgrade(original) => isWebSocketUpgrade(current)
    /\ isWebSocketUpgrade(current) => edgeUpgrade(original) \/ Len(original["upgrade"]) > 1
=============================================================================
