------------------------------- MODULE Routing -------------------------------
(***************************************************************************)
(* The configuration of the edge and the hosts it leads to: the options    *)
(* and credentials that cmd/edge/config.go checks, the tables server.New   *)
(* builds from them, and the routing of newHTTPSHandler.  EdgeMain runs    *)
(* them.                                                                   *)
(*                                                                         *)
(* A host is its labels together with what NormalizeHost is about:         *)
(* capitals, a port and trailing dots.  A username is a label with a flag  *)
(* for capitals; labels that ValidateLabel refuses are outside             *)
(* ValidLabels.  A program that embeds the server package calls server.New *)
(* with a map of its own.                                                  *)
(***************************************************************************)
EXTENDS Integers, Sequences, FiniteSets, Functions

CONSTANTS
  Tokens,       \* tokens that are not empty
  Labels,       \* labels that occur as usernames
  ValidLabels,  \* those that ValidateLabel accepts
  Domain,       \* the labels of the public domain
  BadDomains,   \* sequences of labels that are no domain
  MaxEntries    \* bound: credential entries

ASSUME RoutingAssumption ==
  /\ "" \notin Tokens
  /\ ValidLabels \subseteq Labels
  /\ Domain \in Seq(STRING) /\ Len(Domain) >= 2

Spellings(d) == [labels : {d}, capital : BOOLEAN, port : BOOLEAN, dots : 0..2]

Users   == [label : Labels, capital : BOOLEAN]
Entries == [hasEquals : BOOLEAN, token : Tokens \cup {""}, user : Users]
Maps    == UNION {[T -> Users] : T \in SUBSET (Tokens \cup {""})}

(* What getenv and the flags give for a limit, and what is given of the static
   certificate's two files. *)
LimitInputs == {"unset", "number", "zero", "garbage"}
FileInputs  == SUBSET {"cert", "key"}

VARIABLES
  phase,        \* "options", "parse", "new", "serving" or "refused"
  caller,       \* who calls server.New: "edge" or "library"
  refusedBy,    \* who refused the configuration: "none", "config" or "server"
  PublicDomain, \* cfg.PublicDomain
  staticTLS,    \* cfg.TLSCertFile is given
  debug,        \* cfg.Debug
  count,        \* entries parsed
  credentials,  \* parseCredentials' map from token to username
  pending,      \* tokens New has not looked at yet
  tokenUsers,   \* Server.tokenUsers
  publicHosts   \* Server.publicHosts

optionVars == <<PublicDomain, staticTLS, debug>>
configVars == <<phase, caller, refusedBy, optionVars, count, credentials, pending, tokenUsers,
                publicHosts>>

Empty == [t \in {} |-> ""]

Plain(labels) == [labels |-> labels, capital |-> FALSE, port |-> FALSE, dots |-> 0]

ConfigInit ==
  /\ phase = "options"
  /\ caller \in {"edge", "library"}
  /\ refusedBy = "none"
  /\ PublicDomain = Plain(Domain) /\ staticTLS = FALSE /\ debug = FALSE
  /\ count = 0
  /\ credentials = Empty
  /\ pending = {}
  /\ tokenUsers = Empty
  /\ publicHosts = {}

(* Faulty versions of definitions below, each a plausible slip in the code. *)
Subdomain_Raw(l, d)    == [d EXCEPT !.labels = <<l>> \o @]
UserTaken_Never(m, u)  == FALSE

-----------------------------------------------------------------------------
NormalizeLabel(u) == [u EXCEPT !.capital = FALSE]

ValidateLabel(u) == u.label \in ValidLabels /\ ~u.capital

(* Lower case, no port, and one trailing dot less. *)
NormalizeHost(h) ==
  [Plain(h.labels) EXCEPT !.dots = IF h.dots > 0 THEN h.dots - 1 ELSE 0]

Subdomain(l, d) == NormalizeHost([d EXCEPT !.labels = <<l>> \o @])

EdgeDomain == Subdomain("edge", PublicDomain)

(* ValidateDomain normalises once more: what it checks has one dot less than
   what the caller goes on to use. *)
ValidateDomain(h) ==
  LET d == NormalizeHost(h)
  IN  d.labels \notin BadDomains /\ d.dots = 0

resolvePositiveEnvInt(input) == input \in {"unset", "number"}

(* The username belongs to another token already (parseCredentials). *)
UserTaken(m, u) == u \in Range(m)

(* parseCredential, then the checks of parseCredentials, on one entry. *)
Acceptable(e) ==
  LET user == NormalizeLabel(e.user)
  IN  /\ e.hasEquals
      /\ e.token # ""
      /\ ValidateLabel(user)
      /\ user.label # "edge"
      /\ e.token \notin DOMAIN credentials
      /\ ~UserTaken(credentials, user)

With(m, t, u) == [x \in DOMAIN m \cup {t} |-> IF x = t THEN u ELSE m[x]]

Refuse(who) ==
  /\ phase' = "refused"
  /\ refusedBy' = who

(* loadConfig up to the credentials: an unset limit is left to server.New. *)
LoadOptions ==
  /\ phase = "options" /\ caller = "edge"
  /\ \E limit \in LimitInputs, files \in FileInputs, d \in {Domain} \cup BadDomains :
       \E h \in Spellings(d) :
         IF /\ resolvePositiveEnvInt(limit)
            /\ ValidateDomain(NormalizeHost(h))
            /\ "cert" \in files <=> "key" \in files
         THEN /\ phase' = "parse"
              /\ PublicDomain' = NormalizeHost(h)
              /\ staticTLS' = (files # {})
              /\ debug' \in BOOLEAN
              /\ UNCHANGED refusedBy
         ELSE Refuse("config") /\ UNCHANGED optionVars
  /\ UNCHANGED <<caller, count, credentials, pending, tokenUsers, publicHosts>>

ParseCredential(e) ==
  /\ phase = "parse"
  /\ count < MaxEntries
  /\ count' = count + 1
  /\ IF Acceptable(e)
     THEN /\ credentials' = With(credentials, e.token, NormalizeLabel(e.user))
          /\ UNCHANGED <<phase, refusedBy>>
     ELSE Refuse("config") /\ UNCHANGED credentials
  /\ UNCHANGED <<caller, optionVars, pending, tokenUsers, publicHosts>>

(* server.New checks the domain first. *)
CallNew(d) ==
  IF ValidateDomain(NormalizeHost(d))
  THEN phase' = "new" /\ UNCHANGED refusedBy
  ELSE Refuse("server")

(* No entry is left: run passes the map to server.New. *)
LoadConfigDone ==
  /\ phase = "parse"
  /\ CallNew(PublicDomain)
  /\ pending' = DOMAIN credentials
  /\ UNCHANGED <<caller, optionVars, count, credentials, tokenUsers, publicHosts>>

(* Another program calls server.New. *)
LibraryCall ==
  /\ phase = "options" /\ caller = "library"
  /\ credentials' \in Maps
  /\ PublicDomain' \in {Plain(d) : d \in {Domain} \cup BadDomains}
  /\ CallNew(PublicDomain')
  /\ pending' = DOMAIN credentials'
  /\ UNCHANGED <<caller, staticTLS, debug, count, tokenUsers, publicHosts>>

(* server.New checks every entry, in the map's random order. *)
NewAddsUser(t) ==
  /\ phase = "new"
  /\ t \in pending
  /\ LET user == NormalizeLabel(credentials[t])
     IN  IF t # "" /\ ValidateLabel(user) /\ user.label # "edge" /\ user \notin Range(tokenUsers)
         THEN /\ tokenUsers' = With(tokenUsers, t, user)
              /\ publicHosts' = publicHosts \cup {Subdomain(user.label, NormalizeHost(PublicDomain))}
              /\ pending' = pending \ {t}
              /\ UNCHANGED <<phase, refusedBy>>
         ELSE Refuse("server") /\ UNCHANGED <<tokenUsers, publicHosts, pending>>
  /\ UNCHANGED <<caller, optionVars, count, credentials>>

NewDone ==
  /\ phase = "new"
  /\ pending = {}
  /\ phase' = "serving"
  /\ UNCHANGED <<caller, refusedBy, optionVars, count, credentials, pending, tokenUsers, publicHosts>>

ConfigNext ==
  \/ LoadOptions
  \/ \E e \in Entries : ParseCredential(e)
  \/ LoadConfigDone \/ LibraryCall
  \/ \E t \in Tokens \cup {""} : NewAddsUser(t)
  \/ NewDone

-----------------------------------------------------------------------------
(* HasPublicHost normalises the host that its caller has normalised already. *)
HasPublicHost(h) == NormalizeHost(h) \in publicHosts

(* The host that Connect registers the session of a token's client for. *)
RegisteredAt(t) == Subdomain(tokenUsers[t].label, NormalizeHost(PublicDomain))

(* ServeHTTP looks for the session of that host. *)
Serves(h, t) ==
  LET host == NormalizeHost(h) IN HasPublicHost(host) /\ host = RegisteredAt(t)

(* newHTTPSHandler: the first case that matches.  grpc and pprof say what
   isGRPCRequest and isPprofPath find. *)
Route(h, grpc, pprof) ==
  LET host == NormalizeHost(h)
  IN  CASE host = EdgeDomain /\ grpc -> "grpc"
        [] host = EdgeDomain /\ ~grpc /\ debug /\ pprof -> "pprof"
        [] host = EdgeDomain /\ ~grpc /\ ~(debug /\ pprof) -> "edge"
        [] host # EdgeDomain /\ host = PublicDomain -> "status"
        [] host \notin {EdgeDomain, PublicDomain} /\ HasPublicHost(host) -> "public"
        [] OTHER -> "none"

(* The hosts that certificates are obtained for. *)
managedHosts ==
  {PublicDomain, EdgeDomain} \cup {Subdomain(u.label, PublicDomain) : u \in Range(credentials)}

-----------------------------------------------------------------------------
(* How a browser or a client may write a host: with one trailing dot at most. *)
Written(labels) == {h \in Spellings(labels) : h.dots <= 1}

HostOf(t) == <<tokenUsers[t].label>> \o Domain

(* However it is written, a host leads where it should.  A client that Connect
   admits has a host of its own at which ServeHTTP finds its session, whoever
   embeds the server, and no other token leads to it.  In the edge's process that
   host is not shadowed by the edge's or the status page's and has a certificate,
   and clients reach Connect at the edge's host.  The status page answers at the
   public domain, unless that was configured with two trailing dots: loadConfig
   then keeps one of them, which no request's host has. *)
HostsReachable ==
  phase = "serving" =>
    /\ \A t \in DOMAIN tokenUsers : \A h \in Written(HostOf(t)) : Serves(h, t)
    /\ \A t, u \in DOMAIN tokenUsers : HostOf(t) = HostOf(u) => t = u
    /\ caller = "edge" =>
         /\ \A t \in DOMAIN tokenUsers, grpc, pprof \in BOOLEAN :
              \A h \in Written(HostOf(t)) : Route(h, grpc, pprof) = "public"
         /\ \A t \in DOMAIN tokenUsers : Plain(HostOf(t)) \in managedHosts
         /\ \A h \in Written(<<"edge">> \o Domain) : Route(h, TRUE, FALSE) = "grpc"
         /\ PublicDomain.dots = 0 =>
              \A h \in Written(Domain), grpc, pprof \in BOOLEAN : Route(h, grpc, pprof) = "status"

(* What loadConfig accepts, server.New accepts too, in any order of the map: the
   two validate the same rules in two places. *)
ConfigSuffices == caller = "edge" => refusedBy # "server"
=============================================================================
