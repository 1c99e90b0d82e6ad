--------------------------- MODULE EdgeMainProofs ---------------------------
(***************************************************************************)
(* Safety of the edge's process, for every configuration and any number of *)
(* Connect calls: how run may end, that the two places that validate a     *)
(* configuration agree, and where hosts lead.                              *)
(***************************************************************************)
EXTENDS EdgeMain, TLAPS

(* run has not called Shutdown yet. *)
Early == pc \in {"config", "listenHTTP", "listenHTTPS", "http2", "manage", "select"}

(* Before any Shutdown a serve goroutine has nothing but failures to report. *)
Reports ==
  /\ Early => /\ closing = {}
              /\ \A s \in Servers : serve[s] = "sending" => sent[s] = "error"
              /\ serveErr \in Seq({"error"})
  /\ result \in {"none", "error", "canceled"}
  /\ result = "canceled" => ctxDone

ServeTypeOK ==
  /\ serve \in [Servers -> {"none", "spawned", "serving", "sending", "ended"}]
  /\ sent \in [Servers -> {"none", "nil", "error"}]

ProcInv == Reports /\ ServeTypeOK

(* What loadConfig has accepted of the credentials. *)
Accepted ==
  /\ \A t \in DOMAIN credentials :
       /\ t # ""
       /\ credentials[t] \in Users /\ ValidateLabel(credentials[t]) /\ credentials[t].label # "edge"
  /\ \A t, u \in DOMAIN credentials : credentials[t] = credentials[u] => t = u

(* What server.New has copied of them. *)
Copied ==
  /\ DOMAIN tokenUsers \cap pending = {}
  /\ pending \subseteq DOMAIN credentials /\ DOMAIN tokenUsers \subseteq DOMAIN credentials
  /\ \A t \in DOMAIN tokenUsers : tokenUsers[t] = credentials[t]

ConfigInv ==
  caller = "edge" =>
    /\ refusedBy # "server"
    /\ Accepted
    /\ phase \in {"options", "parse"} => tokenUsers = Empty
    /\ phase = "parse" => ValidateDomain(NormalizeHost(PublicDomain))
    /\ phase \in {"new", "serving"} => Copied

(* The public domain as New has it, and the tables New builds, whoever calls it. *)
Form(x, n) == [labels |-> x, capital |-> FALSE, port |-> FALSE, dots |-> n]

(* One trailing dot less. *)
Less(n) == IF n > 0 THEN n - 1 ELSE 0

Forms(L) == {Form(x, n) : x \in L, n \in {0, 1}}

Named ==
  /\ PublicDomain \in Forms({Domain} \cup BadDomains)
  /\ phase \in {"new", "serving"} => PublicDomain.labels = Domain

UserOf(t) ==
  /\ tokenUsers[t] \in Users /\ ~tokenUsers[t].capital /\ tokenUsers[t].label # "edge"
  /\ Plain(HostOf(t)) \in publicHosts

Tables ==
  /\ pending \subseteq DOMAIN credentials /\ \A t \in DOMAIN credentials : credentials[t] \in Users
  /\ phase \in {"options", "parse"} => DOMAIN tokenUsers = {}
  /\ phase \in {"new", "serving"} =>
       /\ \A t \in DOMAIN tokenUsers : UserOf(t)
       /\ \A t, u \in DOMAIN tokenUsers : tokenUsers[t] = tokenUsers[u] => t = u

RouteInv == Named /\ Tables

-----------------------------------------------------------------------------
LEMMA InitProcInv == Init => ProcInv
<1> SUFFICES ASSUME Init PROVE ProcInv
  OBVIOUS
<1>1. Reports
  BY DEF Init, Reports, Servers
<1>2. ServeTypeOK
  BY DEF Init, ServeTypeOK, Servers
<1> QED
  BY <1>1, <1>2 DEF ProcInv

(* The steps of run before it serves, and those of the shutdown. *)
Setup == ConfigFails \/ TLSAssets \/ ListenHTTP \/ ListenHTTPS \/ ServeHTTP \/ Managed

LEMMA StepCases ==
  ASSUME [Next]_vars
  PROVE  \/ Setup \/ ManageFails \/ ServeFailed \/ Signalled \/ Shutdown \/ ServersDown \/ ForceStop \/ Stopped
         \/ CtxStopsCache \/ GracefulStopReturns \/ GracefulStopPanics \/ Signal \/ UNCHANGED procVars
         \/ \E s \in Servers : ServeStarts(s) \/ ServeSends(s) \/ ServeReturns(s)
         \/ \E c \in Calls : ConnectStarts(c) \/ ConnectEnds(c)
BY DEF Next, RunStep, ServeStep, Setup, Configure, vars

LEMMA ReportsStep == ProcInv /\ [Next]_vars => Reports'
<1> SUFFICES ASSUME ProcInv, [Next]_vars PROVE Reports'
  OBVIOUS
<1> USE DEF ProcInv, Reports, Early, httpVars, cacheVars, grpcVars, Goto, Return
<1>1. CASE Setup
  <2>1. CASE ConfigFails \/ TLSAssets \/ ListenHTTP \/ ListenHTTPS
    BY <2>1 DEF ConfigFails, TLSAssets, ListenHTTP, ListenHTTPS
  <2>2. CASE ServeHTTP
    BY <2>2 DEF ServeHTTP, ServeTypeOK, Servers
  <2>3. CASE Managed
    BY <2>3 DEF Managed, ServeTypeOK, Servers
  <2> QED
    BY <1>1, <2>1, <2>2, <2>3 DEF Setup
<1>2. CASE ManageFails
  BY <1>2 DEF ManageFails
<1>3. CASE ServeFailed
  <2>1. Head(serveErr) = "error"
    BY <1>3 DEF ServeFailed, StartShutdown
  <2> QED
    BY <1>3, <2>1 DEF ServeFailed, StartShutdown
<1>4. CASE Signalled
  BY <1>4 DEF Signalled, StartShutdown
<1>5. CASE Shutdown \/ ServersDown \/ ForceStop \/ Stopped
  BY <1>5 DEF Shutdown, ServersDown, ForceStop, Stopped
<1>6. CASE CtxStopsCache \/ GracefulStopReturns \/ GracefulStopPanics \/ Signal \/ UNCHANGED procVars
  BY <1>6 DEF CtxStopsCache, GracefulStopReturns, GracefulStopPanics, Signal, procVars
<1>7. ASSUME NEW s \in Servers, ServeStarts(s) \/ ServeReturns(s) PROVE Reports'
  BY <1>7 DEF ServeStarts, ServeReturns, serveOnce, ServeTypeOK
<1>8. ASSUME NEW s \in Servers, ServeSends(s) PROVE Reports'
  <2>1. Early => sent[s] = "error" /\ serveErr \in Seq({"error"})
    BY <1>8 DEF ServeSends
  <2>2. Early => Append(serveErr, sent[s]) \in Seq({"error"})
    BY <2>1
  <2>3. \A q \in Servers : serve'[q] = "sending" => serve[q] = "sending"
    BY <1>8 DEF ServeSends, ServeTypeOK
  <2> QED
    BY <1>8, <2>2, <2>3 DEF ServeSends
<1>9. ASSUME NEW c \in Calls, ConnectStarts(c) \/ ConnectEnds(c) PROVE Reports'
  <2>1. UNCHANGED <<pc, result, ctxDone, closing, serve, sent, serveErr>>
    BY <1>9 DEF ConnectStarts, ConnectEnds, CallGoes
  <2> QED
    BY <2>1
<1> QED
  BY <1>1, <1>2, <1>3, <1>4, <1>5, <1>6, <1>7, <1>8, <1>9, StepCases

LEMMA ServeTypeStep == ProcInv /\ [Next]_vars => ServeTypeOK'
<1> SUFFICES ASSUME ServeTypeOK, [Next]_vars PROVE ServeTypeOK'
  BY DEF ProcInv
<1> USE DEF ServeTypeOK, Servers, httpVars
<1>1. CASE Setup
  BY <1>1 DEF Setup, ConfigFails, TLSAssets, ListenHTTP, ListenHTTPS, ServeHTTP, Managed
<1>2. CASE ManageFails \/ ServeFailed \/ Signalled \/ Shutdown \/ ServersDown \/ ForceStop \/ Stopped
  BY <1>2 DEF ManageFails, ServeFailed, Signalled, Shutdown, ServersDown, ForceStop, Stopped
<1>3. CASE CtxStopsCache \/ GracefulStopReturns \/ GracefulStopPanics \/ Signal \/ UNCHANGED procVars
  BY <1>3 DEF CtxStopsCache, GracefulStopReturns, GracefulStopPanics, Signal, procVars
<1>4. ASSUME NEW s \in Servers, ServeStarts(s) \/ ServeSends(s) \/ ServeReturns(s) PROVE ServeTypeOK'
  BY <1>4 DEF ServeStarts, ServeSends, ServeReturns, serveOnce
<1>5. ASSUME NEW c \in Calls, ConnectStarts(c) \/ ConnectEnds(c) PROVE ServeTypeOK'
  BY <1>5 DEF ConnectStarts, ConnectEnds, CallGoes
<1> QED
  BY <1>1, <1>2, <1>3, <1>4, <1>5, StepCases

-----------------------------------------------------------------------------
(* One dot less, twice or three times: what loadConfig checks and what
   server.New checks. *)
LEMMA DomainStaysValid ==
  ASSUME NEW d, NEW h \in Spellings(d), ValidateDomain(NormalizeHost(h))
  PROVE  ValidateDomain(NormalizeHost(NormalizeHost(h)))
<1>1. ASSUME NEW g, g.dots \in 0 .. 2
      PROVE  /\ NormalizeHost(g).labels = g.labels
             /\ NormalizeHost(g).dots = IF g.dots > 0 THEN g.dots - 1 ELSE 0
             /\ NormalizeHost(g).dots \in 0 .. 2
  BY <1>1 DEF NormalizeHost, Plain
<1>2. h.dots \in 0 .. 2
  BY DEF Spellings
<1> DEFINE a == NormalizeHost(h)
           b == NormalizeHost(a)
           c == NormalizeHost(b)
<1>3. a.labels = h.labels /\ a.dots = (IF h.dots > 0 THEN h.dots - 1 ELSE 0) /\ a.dots \in 0 .. 2
  BY <1>1, <1>2
<1>4. b.labels = a.labels /\ b.dots = (IF a.dots > 0 THEN a.dots - 1 ELSE 0) /\ b.dots \in 0 .. 2
  BY <1>1, <1>3
<1>5. c.labels = b.labels /\ c.dots = (IF b.dots > 0 THEN b.dots - 1 ELSE 0)
  BY <1>1, <1>4
<1>6. b.labels \notin BadDomains /\ b.dots = 0
  BY DEF ValidateDomain
<1> HIDE DEF a, b, c
<1>7. c.labels \notin BadDomains /\ c.dots = 0
  BY <1>5, <1>6
<1> QED
  BY <1>7 DEF ValidateDomain, a, b, c

LEMMA Normal ==
  ASSUME NEW u \in Users
  PROVE  /\ NormalizeLabel(u) \in Users /\ NormalizeLabel(u).label = u.label
         /\ ValidateLabel(u) => NormalizeLabel(u) = u
BY Zenon DEF Users, NormalizeLabel, ValidateLabel

LEMMA InitConfigInv == Init => ConfigInv
BY DEF Init, ConfigInit, ConfigInv, Accepted, Empty

(* Only Configure changes the configuration. *)
LEMMA ConfigCases ==
  ASSUME [Next]_vars
  PROVE  \/ LoadOptions \/ LoadConfigDone \/ LibraryCall \/ NewDone \/ UNCHANGED configVars
         \/ \E e \in Entries : ParseCredential(e)
         \/ \E t \in Tokens \cup {""} : NewAddsUser(t)
<1> SUFFICES ASSUME ~Configure, Next PROVE UNCHANGED configVars
  BY Zenon DEF Configure, ConfigNext, vars
<1>1. CASE RunStep
  BY <1>1 DEF RunStep, ConfigFails, TLSAssets, ListenHTTP, ListenHTTPS, ServeHTTP, Managed, ManageFails,
              ServeFailed, Signalled, Shutdown, ServersDown, ForceStop, Stopped
<1>2. CASE CtxStopsCache \/ GracefulStopReturns \/ GracefulStopPanics \/ Signal
  BY <1>2 DEF CtxStopsCache, GracefulStopReturns, GracefulStopPanics, Signal
<1>3. ASSUME NEW s \in Servers, ServeStep(s) PROVE UNCHANGED configVars
  BY <1>3 DEF ServeStep, ServeStarts, ServeSends, ServeReturns
<1>4. ASSUME NEW c \in Calls, ConnectStarts(c) \/ ConnectEnds(c) PROVE UNCHANGED configVars
  BY <1>4 DEF ConnectStarts, ConnectEnds, CallGoes
<1> QED
  BY <1>1, <1>2, <1>3, <1>4 DEF Next

LEMMA ConfigStep == ConfigInv /\ [Next]_vars => ConfigInv'
<1> SUFFICES ASSUME ConfigInv, [Next]_vars, caller' = "edge" PROVE ConfigInv'
  BY DEF ConfigInv
<1> USE DEF optionVars
<1>1. CASE UNCHANGED configVars
  BY <1>1, Zenon DEF ConfigInv, Accepted, Copied, ValidateDomain, NormalizeHost, Plain, configVars
<1>2. CASE LoadOptions
  <2>1. UNCHANGED <<credentials, tokenUsers>> /\ caller = "edge" /\ phase = "options"
    BY <1>2 DEF LoadOptions
  <2>2. phase' = "parse" => ValidateDomain(NormalizeHost(PublicDomain'))
    BY <1>2, DomainStaysValid DEF LoadOptions, Refuse
  <2>3. phase' \in {"parse", "refused"} /\ refusedBy' # "server"
    BY <1>2, <2>1 DEF LoadOptions, Refuse, ConfigInv
  <2> QED
    BY <2>1, <2>2, <2>3, Zenon DEF ConfigInv, Accepted
<1>3. ASSUME NEW e \in Entries, ParseCredential(e) PROVE ConfigInv'
  <2>1. caller = "edge" /\ phase = "parse" /\ UNCHANGED <<PublicDomain, tokenUsers>> /\ Accepted
    BY <1>3 DEF ParseCredential, ConfigInv
  <2>2. CASE Acceptable(e)
    <3> DEFINE u == NormalizeLabel(e.user)
    <3>1. u \in Users /\ ValidateLabel(u) /\ u.label # "edge" /\ e.token # ""
      BY <2>2, Normal, Zenon DEF Acceptable, Entries
    <3>2. \A t \in DOMAIN credentials : credentials[t] # u /\ t # e.token
      BY <2>2, Zenon DEF Acceptable, UserTaken, Range
    <3> HIDE DEF u
    <3>3. credentials' = With(credentials, e.token, u) /\ UNCHANGED <<phase, refusedBy>>
      BY <1>3, <2>2 DEF ParseCredential, u
    <3>4. /\ DOMAIN credentials' = DOMAIN credentials \cup {e.token} /\ credentials'[e.token] = u
          /\ \A t \in DOMAIN credentials : credentials'[t] = credentials[t]
      BY <3>2, <3>3 DEF With
    <3>5. Accepted'
      BY <2>1, <3>1, <3>2, <3>4, Zenon DEF Accepted, ValidateLabel
    <3> QED
      BY <2>1, <3>3, <3>5 DEF ConfigInv, ValidateDomain, NormalizeHost, Plain
  <2>3. CASE ~Acceptable(e)
    BY <1>3, <2>1, <2>3, Zenon DEF ParseCredential, Refuse, ConfigInv, Accepted
  <2> QED
    BY <2>2, <2>3
<1>4. CASE LoadConfigDone
  <2>1. caller = "edge" /\ phase = "parse" /\ UNCHANGED <<credentials, tokenUsers>> /\ pending' = DOMAIN credentials
    BY <1>4 DEF LoadConfigDone
  <2>2. phase' = "new" /\ UNCHANGED refusedBy
    BY <1>4, <2>1 DEF LoadConfigDone, CallNew, ConfigInv
  <2>3. DOMAIN tokenUsers = {}
    BY <2>1 DEF ConfigInv, Empty
  <2> QED
    BY <2>1, <2>2, <2>3, Zenon DEF ConfigInv, Accepted, Copied
<1>5. CASE LibraryCall
  BY <1>5 DEF LibraryCall
<1>6. ASSUME NEW t \in Tokens \cup {""}, NewAddsUser(t) PROVE ConfigInv'
  <2>1. /\ caller = "edge" /\ phase = "new" /\ t \in pending /\ UNCHANGED credentials
        /\ Accepted /\ Copied
    BY <1>6, Zenon DEF NewAddsUser, ConfigInv
  <2> DEFINE u == NormalizeLabel(credentials[t])
  <2>2. t \in DOMAIN credentials /\ t \notin DOMAIN tokenUsers
    BY <2>1, Zenon DEF Copied
  <2>3. u = credentials[t] /\ t # "" /\ ValidateLabel(u) /\ u.label # "edge"
    BY <2>1, <2>2, Normal, Zenon DEF Accepted
  <2> HIDE DEF u
  <2>4. u \notin Range(tokenUsers)
    <3>1. ASSUME NEW x \in DOMAIN tokenUsers, tokenUsers[x] = u PROVE FALSE
      <4>1. x \in DOMAIN credentials /\ credentials[x] = credentials[t]
        BY <2>1, <2>3, <3>1, Zenon DEF Copied
      <4> QED
        BY <2>1, <2>2, <3>1, <4>1, Zenon DEF Accepted
    <3> QED
      BY <3>1, Zenon DEF Range
  <2>5. tokenUsers' = With(tokenUsers, t, u) /\ pending' = pending \ {t} /\ UNCHANGED <<phase, refusedBy>>
    BY <1>6, <2>3, <2>4, Zenon DEF NewAddsUser, u
  <2>6. /\ DOMAIN tokenUsers' = DOMAIN tokenUsers \cup {t} /\ tokenUsers'[t] = u
        /\ \A x \in DOMAIN tokenUsers : tokenUsers'[x] = tokenUsers[x]
    BY <2>2, <2>5, Zenon DEF With
  <2>7. Copied'
    BY <2>1, <2>2, <2>3, <2>5, <2>6, Zenon DEF Copied
  <2> QED
    BY <2>1, <2>5, <2>7, Zenon DEF ConfigInv, Accepted
<1>7. CASE NewDone
  BY <1>7, Zenon DEF NewDone, ConfigInv, Accepted, Copied
<1> QED
  BY <1>1, <1>2, <1>3, <1>4, <1>5, <1>6, <1>7, ConfigCases, Zenon

-----------------------------------------------------------------------------
(* The invariant of run and its serve goroutines holds in every state of the
   process. *)
THEOREM ProcessInvariance == Spec => []ProcInv
<1>1. ProcInv /\ [Next]_vars => ProcInv'
  BY ReportsStep, ServeTypeStep DEF ProcInv
<1> QED
  BY <1>1, InitProcInv, PTL DEF Spec

(* run returns nil or context.Canceled only after a signal: what serveOnce turns
   into nil is never the first thing the select receives. *)
THEOREM CleanExitIsAsked == Spec => []CleanExitWasAsked
<1>1. ProcInv => CleanExitWasAsked
  BY DEF ProcInv, Reports, CleanExitWasAsked
<1> QED
  BY <1>1, ProcessInvariance, PTL

(* What loadConfig accepts, server.New accepts: for any tokens, labels and domains
   and any number of entries, in any order of the map. *)
THEOREM ConfigAgrees == Spec => []ConfigSuffices
<1>1. ConfigInv => ConfigSuffices
  BY DEF ConfigInv, ConfigSuffices
<1> QED
  BY <1>1, InitConfigInv, ConfigStep, PTL DEF Spec

-----------------------------------------------------------------------------
(* Hosts *)

LEMMA Prefixed ==
  ASSUME NEW a, NEW b
  PROVE  /\ <<a>> \o Domain # Domain
         /\ <<a>> \o Domain = <<b>> \o Domain => a = b
<1>1. ASSUME NEW S, NEW s \in Seq(S), NEW x
      PROVE  Len(s) \in Nat /\ Len(<<x>> \o s) = 1 + Len(s) /\ (<<x>> \o s)[1] = x
  <2>1. <<x>> \in Seq({x} \cup S) /\ s \in Seq({x} \cup S)
    OBVIOUS
  <2> QED
    BY <2>1
<1>2. Domain \in Seq(STRING)
  BY RoutingAssumption, Zenon
<1>3. /\ Len(Domain) \in Nat /\ Len(<<a>> \o Domain) = 1 + Len(Domain)
      /\ (<<a>> \o Domain)[1] = a /\ (<<b>> \o Domain)[1] = b
  BY <1>1, <1>2, Zenon
<1>4. \A n \in Nat : 1 + n # n
  OBVIOUS
<1> QED
  BY <1>3, <1>4, Zenon

LEMMA Fields ==
  /\ \A x, n : Form(x, n).labels = x /\ Form(x, n).dots = n
  /\ \A x : Plain(x) = Form(x, 0)
<1>1. \A x, n : Form(x, n).labels = x /\ Form(x, n).dots = n
  BY DEF Form
<1>2. \A x : Plain(x) = Form(x, 0)
  BY Zenon DEF Plain, Form
<1> QED
  BY <1>1, <1>2, Zenon

LEMMA NormalForm == \A h : NormalizeHost(h) = Form(h.labels, Less(h.dots))
<1>1. \A x, c, p, m, n : [[labels |-> x, capital |-> c, port |-> p, dots |-> m] EXCEPT !.dots = n]
                           = [labels |-> x, capital |-> c, port |-> p, dots |-> n]
  OBVIOUS
<1> TAKE h
<1> DEFINE n == IF h.dots > 0 THEN h.dots - 1 ELSE 0
<1>2. NormalizeHost(h) = [[labels |-> h.labels, capital |-> FALSE, port |-> FALSE, dots |-> 0] EXCEPT !.dots = n]
  BY Zenon DEF NormalizeHost, Plain
<1> HIDE DEF n
<1>3. NormalizeHost(h) = Form(h.labels, n)
  BY <1>1, <1>2, Zenon DEF Form
<1> QED
  BY <1>3, Zenon DEF Less, n

LEMMA OneDotLess == Less(0) = 0 /\ Less(1) = 0 /\ \A n \in 0 .. 2 : Less(n) \in {0, 1}
BY DEF Less

LEMMA FormsIs ==
  ASSUME NEW L
  PROVE  /\ \A h \in Forms(L) : \E x \in L : \E n \in {0, 1} : h = Form(x, n)
         /\ \A x \in L : Form(x, 0) \in Forms(L) /\ Form(x, 1) \in Forms(L)
<1>1. ASSUME NEW h \in Forms(L) PROVE \E x \in L : \E n \in {0, 1} : h = Form(x, n)
  BY DEF Forms
<1>2. ASSUME NEW x \in L, NEW n \in {0, 1} PROVE Form(x, n) \in Forms(L)
  BY DEF Forms
<1> QED
  BY <1>1, <1>2, Zenon

(* A host, however it is written, is looked up in one form. *)
LEMMA OneForm ==
  ASSUME NEW x
  PROVE  /\ \A h \in Written(x) : NormalizeHost(h) = Plain(x)
         /\ \A h \in Forms({x}) : NormalizeHost(h) = Plain(x)
<1>1. ASSUME NEW h \in Written(x) PROVE NormalizeHost(h) = Plain(x)
  <2>1. h.labels = x /\ h.dots \in {0, 1}
    BY DEF Written, Spellings
  <2> QED
    BY <2>1, NormalForm, Fields, OneDotLess, Zenon
<1>2. ASSUME NEW h \in Forms({x}) PROVE NormalizeHost(h) = Plain(x)
  <2>1. PICK n \in {0, 1} : h = Form(x, n)
    BY <1>2, FormsIs
  <2>2. h.labels = x /\ Less(h.dots) = 0
    BY <2>1, Fields, OneDotLess, Zenon
  <2> QED
    BY <2>2, NormalForm, Fields, Zenon
<1> QED
  BY <1>1, <1>2

LEMMA Below ==
  ASSUME NEW l, NEW d \in Forms({Domain})
  PROVE  /\ Subdomain(l, d) = Plain(<<l>> \o Domain)
         /\ Subdomain(l, NormalizeHost(d)) = Plain(<<l>> \o Domain)
<1>1. ASSUME NEW n \in {0, 1} PROVE Subdomain(l, Form(Domain, n)) = Plain(<<l>> \o Domain)
  <2>1. [Form(Domain, n) EXCEPT !.labels = <<l>> \o Form(Domain, n).labels] = Form(<<l>> \o Domain, n)
    <3>1. Form(Domain, n).labels = Domain
      BY Fields, Zenon
    <3>2. [Form(Domain, n) EXCEPT !.labels = <<l>> \o Domain] = Form(<<l>> \o Domain, n)
      <4> DEFINE c == FALSE
                 y == <<l>> \o Domain
      <4> HIDE DEF c, y
      <4>1. [[labels |-> Domain, capital |-> c, port |-> c, dots |-> n] EXCEPT !.labels = y]
              = [labels |-> y, capital |-> c, port |-> c, dots |-> n]
        OBVIOUS
      <4> QED
        BY <4>1, Zenon DEF Form, c, y
    <3> QED
      BY <3>1, <3>2, Zenon
  <2>2. Form(<<l>> \o Domain, n) \in Forms({<<l>> \o Domain})
    BY FormsIs, Zenon
  <2> QED
    BY <2>1, <2>2, OneForm, Zenon DEF Subdomain
<1>2. NormalizeHost(d) = Form(Domain, 0)
  BY OneForm, Fields, Zenon
<1> QED
  BY <1>1, <1>2, FormsIs

(* The domain that New goes on with is the one configured. *)
LEMMA Checked ==
  ASSUME NEW d \in Forms({Domain} \cup BadDomains), ValidateDomain(NormalizeHost(d))
  PROVE  d.labels = Domain
<1>1. NormalizeHost(NormalizeHost(d)).labels = d.labels
  BY NormalForm, Fields
<1>2. d.labels \in {Domain} \cup BadDomains
  BY Fields, FormsIs
<1> QED
  BY <1>1, <1>2, Zenon DEF ValidateDomain

LEMMA TheDomain == Named /\ phase \in {"new", "serving"} => PublicDomain \in Forms({Domain})
BY Fields, FormsIs DEF Named

LEMMA InitRouteInv == Init => RouteInv
<1> SUFFICES ASSUME Init PROVE RouteInv
  OBVIOUS
<1>1. Named
  BY Fields, FormsIs, Zenon DEF Init, ConfigInit, Named
<1>2. Tables
  BY DEF Init, ConfigInit, Tables, Empty
<1> QED
  BY <1>1, <1>2 DEF RouteInv

LEMMA NamedStep == RouteInv /\ [Next]_vars => Named'
<1> SUFFICES ASSUME Named, [Next]_vars PROVE Named'
  BY DEF RouteInv
<1> USE DEF optionVars, Refuse
<1>1. CASE UNCHANGED configVars
  BY <1>1 DEF configVars, Named
<1>2. CASE LoadOptions
  <2>1. \/ UNCHANGED PublicDomain
        \/ \E d \in {Domain} \cup BadDomains : \E h \in Spellings(d) : PublicDomain' = NormalizeHost(h)
    BY <1>2 DEF LoadOptions
  <2>2. ASSUME NEW d \in {Domain} \cup BadDomains, NEW h \in Spellings(d)
        PROVE  NormalizeHost(h) \in Forms({Domain} \cup BadDomains)
    <3>1. h.labels = d /\ h.dots \in 0 .. 2
      BY DEF Spellings
    <3> QED
      BY <3>1, NormalForm, OneDotLess, FormsIs, Zenon
  <2>3. phase' \in {"parse", "refused"}
    BY <1>2 DEF LoadOptions
  <2> QED
    BY <2>1, <2>2, <2>3 DEF Named
<1>3. ASSUME NEW e \in Entries, ParseCredential(e) PROVE Named'
  BY <1>3 DEF ParseCredential, Named
<1>4. CASE LoadConfigDone
  BY <1>4, Checked DEF LoadConfigDone, CallNew, Named
<1>5. CASE LibraryCall
  <2>1. PublicDomain' \in Forms({Domain} \cup BadDomains)
    BY <1>5, Fields, FormsIs, Zenon DEF LibraryCall
  <2> QED
    BY <1>5, <2>1, Checked DEF LibraryCall, CallNew, Named
<1>6. ASSUME NEW t \in Tokens \cup {""}, NewAddsUser(t) PROVE Named'
  BY <1>6, Zenon DEF NewAddsUser, Named
<1>7. CASE NewDone
  BY <1>7 DEF NewDone, Named
<1> QED
  BY <1>1, <1>2, <1>3, <1>4, <1>5, <1>6, <1>7, ConfigCases, Zenon

LEMMA TablesStep == RouteInv /\ [Next]_vars => Tables'
<1> SUFFICES ASSUME Named, Tables, [Next]_vars PROVE Tables'
  BY DEF RouteInv
<1> USE DEF optionVars, Refuse
<1>1. CASE UNCHANGED configVars
  BY <1>1, Zenon DEF configVars, Tables, UserOf, HostOf
<1>2. CASE LoadOptions
  BY <1>2, Zenon DEF LoadOptions, Tables
<1>3. ASSUME NEW e \in Entries, ParseCredential(e) PROVE Tables'
  <2>1. UNCHANGED <<tokenUsers, pending>> /\ phase = "parse" /\ phase' \in {"parse", "refused"}
    BY <1>3 DEF ParseCredential
  <2>2. e.token \in DOMAIN credentials' \/ UNCHANGED credentials
    BY <1>3 DEF ParseCredential, With
  <2>3. /\ DOMAIN credentials \subseteq DOMAIN credentials'
        /\ \A t \in DOMAIN credentials' : credentials'[t] \in Users
    <3>1. NormalizeLabel(e.user) \in Users
      BY Normal, Zenon DEF Entries
    <3>2. credentials' = With(credentials, e.token, NormalizeLabel(e.user)) \/ UNCHANGED credentials
      BY <1>3 DEF ParseCredential
    <3> QED
      BY <3>1, <3>2 DEF With, Tables
  <2> QED
    BY <2>1, <2>3 DEF Tables
<1>4. CASE LoadConfigDone
  BY <1>4 DEF LoadConfigDone, CallNew, Tables
<1>5. CASE LibraryCall
  <2>1. credentials' \in Maps /\ pending' = DOMAIN credentials' /\ UNCHANGED tokenUsers /\ phase = "options"
    BY <1>5 DEF LibraryCall
  <2>2. \A t \in DOMAIN credentials' : credentials'[t] \in Users
    BY <2>1, Zenon DEF Maps
  <2> QED
    BY <2>1, <2>2 DEF Tables
<1>6. ASSUME NEW t \in Tokens \cup {""}, NewAddsUser(t) PROVE Tables'
  <2> DEFINE u == NormalizeLabel(credentials[t])
  <2>1. phase = "new" /\ t \in pending /\ UNCHANGED <<credentials, PublicDomain>>
    BY <1>6, Zenon DEF NewAddsUser
  <2>2. u \in Users /\ ~u.capital
    BY <2>1, Zenon DEF Tables, Users, NormalizeLabel
  <2>3. CASE phase' = "refused"
    <3>1. UNCHANGED pending
      BY <1>6, <2>1, <2>3, Zenon DEF NewAddsUser
    <3> QED
      BY <2>1, <2>3, <3>1, Zenon DEF Tables
  <2>4. CASE phase' # "refused"
    <3>1. /\ u.label # "edge" /\ u \notin Range(tokenUsers)
          /\ tokenUsers' = With(tokenUsers, t, u) /\ pending' = pending \ {t} /\ phase' = "new"
          /\ publicHosts' = publicHosts \cup {Subdomain(u.label, NormalizeHost(PublicDomain))}
      BY <1>6, <2>1, <2>4, Zenon DEF NewAddsUser
    <3> HIDE DEF u
    <3>2. /\ DOMAIN tokenUsers' = DOMAIN tokenUsers \cup {t} /\ tokenUsers'[t] = u
          /\ \A x \in DOMAIN tokenUsers : x # t => tokenUsers'[x] = tokenUsers[x]
      BY <3>1, Zenon DEF With
    <3>3. \A x \in DOMAIN tokenUsers : tokenUsers[x] # u
      BY <3>1, Zenon DEF Range
    <3>4. Subdomain(u.label, NormalizeHost(PublicDomain)) = Plain(<<u.label>> \o Domain)
      <4>1. PublicDomain \in Forms({Domain})
        BY <2>1, TheDomain, Zenon
      <4> QED
        BY <4>1, Below, Zenon
    <3>5. UserOf(t)'
      BY <2>2, <3>1, <3>2, <3>4, Zenon DEF UserOf, HostOf
    <3>6. ASSUME NEW x \in DOMAIN tokenUsers, x # t PROVE UserOf(x)'
      BY <2>1, <3>1, <3>2, <3>6, Zenon DEF Tables, UserOf, HostOf
    <3>7. \A x, y \in DOMAIN tokenUsers' : tokenUsers'[x] = tokenUsers'[y] => x = y
      BY <2>1, <3>2, <3>3, Zenon DEF Tables
    <3> QED
      BY <2>1, <3>1, <3>2, <3>5, <3>6, <3>7, Zenon DEF Tables
  <2> QED
    BY <2>3, <2>4, Zenon
<1>7. CASE NewDone
  BY <1>7, Zenon DEF NewDone, Tables, UserOf, HostOf
<1> QED
  BY <1>1, <1>2, <1>3, <1>4, <1>5, <1>6, <1>7, ConfigCases, Zenon

(* While it serves, a host that is looked up leads where it should. *)
LEMMA Routes ==
  ASSUME Named, Tables, phase = "serving"
  PROVE  /\ \A t \in DOMAIN tokenUsers : \A h \in Written(HostOf(t)) : Serves(h, t)
         /\ \A t \in DOMAIN tokenUsers, grpc, pprof \in BOOLEAN :
              \A h \in Written(HostOf(t)) : Route(h, grpc, pprof) = "public"
         /\ \A h \in Written(<<"edge">> \o Domain) : Route(h, TRUE, FALSE) = "grpc"
         /\ PublicDomain.dots = 0 =>
              \A h \in Written(Domain), grpc, pprof \in BOOLEAN : Route(h, grpc, pprof) = "status"
<1>1. PublicDomain \in Forms({Domain})
  BY TheDomain, Zenon
<1>2. EdgeDomain = Plain(<<"edge">> \o Domain)
  BY <1>1, Below DEF EdgeDomain
<1>3. \A x, y : Plain(x) = Plain(y) => x = y
  BY Fields
<1>4. PublicDomain.dots = 0 => PublicDomain = Plain(Domain)
  BY <1>1, Fields, FormsIs
<1>5. \A x : Plain(x) = PublicDomain => x = Domain
  BY <1>1, Fields, FormsIs
<1>9. ASSUME NEW x PROVE NormalizeHost(Plain(x)) = Plain(x)
  BY Fields, FormsIs, OneForm, Zenon
<1>6. ASSUME NEW t \in DOMAIN tokenUsers, NEW h \in Written(HostOf(t))
      PROVE  /\ Serves(h, t)
             /\ \A grpc, pprof \in BOOLEAN : Route(h, grpc, pprof) = "public"
  <2>1. NormalizeHost(h) = Plain(HostOf(t)) /\ Plain(HostOf(t)) \in publicHosts /\ tokenUsers[t].label # "edge"
    BY <1>6, OneForm, Zenon DEF Tables, UserOf
  <2>2. HostOf(t) # Domain /\ HostOf(t) # <<"edge">> \o Domain
    BY <2>1, Prefixed DEF HostOf
  <2>3. NormalizeHost(h) # EdgeDomain /\ NormalizeHost(h) # PublicDomain
    BY <1>2, <1>3, <1>5, <2>1, <2>2, Zenon
  <2>4. HasPublicHost(NormalizeHost(h))
    BY <1>9, <2>1, Zenon DEF HasPublicHost
  <2>5. RegisteredAt(t) = Plain(HostOf(t))
    BY <1>1, Below, Zenon DEF RegisteredAt, HostOf
  <2>6. Serves(h, t)
    BY <2>1, <2>4, <2>5, Zenon DEF Serves
  <2>7. ASSUME NEW grpc \in BOOLEAN, NEW pprof \in BOOLEAN PROVE Route(h, grpc, pprof) = "public"
    BY <2>3, <2>4 DEF Route
  <2> QED
    BY <2>6, <2>7
<1>7. ASSUME NEW h \in Written(<<"edge">> \o Domain) PROVE Route(h, TRUE, FALSE) = "grpc"
  <2>1. NormalizeHost(h) = EdgeDomain
    BY <1>2, OneForm, Zenon
  <2> QED
    BY <2>1 DEF Route
<1>8. ASSUME PublicDomain.dots = 0, NEW h \in Written(Domain), NEW grpc \in BOOLEAN, NEW pprof \in BOOLEAN
      PROVE  Route(h, grpc, pprof) = "status"
  <2>1. NormalizeHost(h) = PublicDomain
    BY <1>4, <1>8, OneForm, Zenon
  <2>2. PublicDomain # EdgeDomain
    BY <1>2, <1>3, <1>4, <1>8, Prefixed, Zenon
  <2> QED
    BY <2>1, <2>2 DEF Route
<1> QED
  BY <1>6, <1>7, <1>8, Zenon

(* However it is written, a host leads where it should, for any tokens, labels and
   domain, whoever calls server.New; and the edge manages a certificate for it. *)
THEOREM HostsAreReachable == Spec => []HostsReachable
<1>1. RouteInv /\ ConfigInv => HostsReachable
  <2> SUFFICES ASSUME RouteInv, ConfigInv, phase = "serving"
               PROVE  /\ caller = "edge" => \A t \in DOMAIN tokenUsers : Plain(HostOf(t)) \in managedHosts
                      /\ \A t, u \in DOMAIN tokenUsers : HostOf(t) = HostOf(u) => t = u
    BY Routes, Zenon DEF RouteInv, HostsReachable
  <2>1. Named /\ Tables
    BY DEF RouteInv
  <2>2. ASSUME caller = "edge", NEW t \in DOMAIN tokenUsers PROVE Plain(HostOf(t)) \in managedHosts
    <3>1. t \in DOMAIN credentials /\ credentials[t] = tokenUsers[t]
      BY <2>2 DEF ConfigInv, Copied
    <3>2. tokenUsers[t] \in Range(credentials)
      BY <3>1 DEF Range
    <3>3. PublicDomain \in Forms({Domain})
      BY <2>1, TheDomain, Zenon
    <3>4. Plain(HostOf(t)) = Subdomain(tokenUsers[t].label, PublicDomain)
      BY <3>3, Below DEF HostOf
    <3> QED
      BY <3>2, <3>4 DEF managedHosts
  <2>3. ASSUME NEW t \in DOMAIN tokenUsers, NEW u \in DOMAIN tokenUsers, HostOf(t) = HostOf(u) PROVE t = u
    <3>1. tokenUsers[t].label = tokenUsers[u].label
      BY <2>3, Prefixed DEF HostOf
    <3>2. tokenUsers[t] = tokenUsers[u]
      BY <2>1, <3>1 DEF Tables, UserOf, Users
    <3> QED
      BY <2>1, <3>2 DEF Tables
  <2> QED
    BY <2>2, <2>3
<1>2. RouteInv /\ [Next]_vars => RouteInv'
  BY NamedStep, TablesStep DEF RouteInv
<1> QED
  BY <1>1, <1>2, InitRouteInv, InitConfigInv, ConfigStep, PTL DEF Spec
=============================================================================
