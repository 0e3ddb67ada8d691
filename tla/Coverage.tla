------------------------------- MODULE Coverage -------------------------------
(***************************************************************************)
(* Endpoint coverage (src/schema/operations.ts, surface.ts, endpoints.ts,  *)
(* scorer/coverage.ts, tracks.ts, metrics.ts): when a reported endpoint    *)
(* reaches an operation of the SURFACE catalog, which catalogs are         *)
(* accepted, what the coverage track says of a run, and the discovery      *)
(* track of the network app.                                               *)
(*                                                                         *)
(* An operation or a report is a record of the fields both may have; ""    *)
(* and {} are fields left out, path <<>> is none.  A name is [w, up]: what *)
(* it reads folded, and whether it is spelt another way; so is a query     *)
(* value; endpoint: the path was given as one.  Operations add id, via, vulns, variant and discovery.           *)
(***************************************************************************)
EXTENDS Keys

Unspelt == [w |-> "", up |-> FALSE]
NoFields ==
  [kind |-> "", method |-> NoVerb, path |-> <<>>, endpoint |-> FALSE, query |-> {}, port |-> NoPort,
   op |-> Unspelt, gqlKind |-> "", field |-> Unspelt,
   event |-> Unspelt, channel |-> "", namespace |-> "",
   tool |-> Unspelt, injection |-> "", host |-> "", proto |-> ""]

Kinds == {"http", "graphql", "ws", "llm", "net"}
Aliases == [websocket |-> "ws", socketio |-> "ws", wss |-> "ws", gql |-> "graphql",
            agent |-> "llm", tool |-> "llm", tcp |-> "net", udp |-> "net", port |-> "net"]

\* The declared kind, or the one the populated fields tell.
RefKind(r) ==
  IF r.kind \in Kinds THEN r.kind
  ELSE IF r.kind \in DOMAIN Aliases THEN Aliases[r.kind]
  ELSE IF r.op # Unspelt \/ r.field # Unspelt \/ r.gqlKind # "" THEN "graphql"
  ELSE IF r.event # Unspelt \/ r.channel # "" \/ r.namespace # "" THEN "ws"
  ELSE IF r.tool # Unspelt \/ r.injection # "" THEN "llm"
  ELSE IF r.path # <<>> THEN (IF r.endpoint THEN "ws" ELSE "http")
  ELSE IF r.port # NoPort /\ (r.host # "" \/ r.proto # "") THEN "net"
  ELSE "none"

Or(a, b) == IF a # "" THEN a ELSE b

\* Mutant: ids are left in the key.
OpKey_Untemplated(r) == IF RefKind(r) = "http" THEN <<r.method, r.port, r.path, r.query>> ELSE <<r>>

\* The display id, by which check finds duplicates.
OpKey(r) ==
  CASE RefKind(r) = "http" ->
         <<"http", r.method, r.port, TemplatePath(IF r.path = <<>> THEN <<Empty>> ELSE r.path), r.query>>
    [] RefKind(r) = "graphql" ->
         IF r.op # Unspelt THEN <<"op", Or(r.gqlKind, "query"), r.op>> ELSE <<"field", r.field>>
    [] RefKind(r) = "ws"  -> <<"ws", TemplatePath(r.path), r.namespace, r.event, r.channel>>
    [] RefKind(r) = "llm" -> IF r.tool # Unspelt THEN <<"tool", r.tool>> ELSE <<"injection", r.injection>>
    [] RefKind(r) = "net" -> <<"net", r.host, r.port, Or(r.proto, "tcp")>>
    [] OTHER -> <<"unidentifiable">>

-----------------------------------------------------------------------------
(* Reaching an operation: "strict", "loose" or "none". *)

PathPass(want, got, routes) ==
  IF RoutedPathMatch(want, got, FALSE, routes) # "none" THEN "strict"
  ELSE IF RoutedPathMatch(want, got, TRUE, routes) # "none" THEN "loose" ELSE "none"

NamePass(want, got) ==
  IF got = Unspelt \/ got.w # want.w THEN "none" ELSE IF got = want THEN "strict" ELSE "loose"

SurfaceRoutes(ops) == {o.path : o \in {p \in ops : p.kind = "http"}} \ {<<>>}

\* An optional discriminator disqualifies only where both sides state it.
Compatible(a, b) == a = "" \/ b = "" \/ a = b
CompatibleName(a, b) == Compatible(a.w, b.w)
Weakest(passes)  == IF "none" \in passes THEN "none" ELSE IF "loose" \in passes THEN "loose" ELSE "strict"
Loosely(b)       == IF b THEN "loose" ELSE "strict"
Only(b, pass)    == IF b THEN pass ELSE "none"

\* Query values are compared without case; names are not.
Folded(q) == {<<p[1], p[2].w>> : p \in q}

HttpReaches(want, got, routes) ==
  Only(/\ want.path # <<>> /\ got.path # <<>>
       /\ Folded(want.query) \subseteq Folded(got.query)
       /\ want.method = NoVerb \/ got.method = NoVerb \/ want.method = got.method
       /\ want.port = NoPort \/ got.port \in {NoPort, want.port},
       Weakest({PathPass(want.path, got.path, routes),
                Loosely(want.method # NoVerb /\ got.method = NoVerb),
                Loosely(want.port # got.port /\ want.port # NoPort)}))

GraphqlReaches(want, got) ==
  IF want.op # Unspelt
  THEN Only(Compatible(want.gqlKind, got.gqlKind) /\ CompatibleName(want.field, got.field), NamePass(want.op, got.op))
  ELSE Only(want.field # Unspelt, NamePass(want.field, got.field))

WsReaches(want, got) ==
  LET endpoint == IF want.path = <<>> THEN "strict"
                  ELSE IF got.path = <<>> THEN "loose" ELSE PathPass(want.path, got.path, {}) IN
  Only(/\ want.namespace \in {"", Or(got.namespace, "/")}
       /\ Compatible(want.channel, got.channel) /\ (want.channel # "" => got.channel # ""),
       IF want.event = Unspelt THEN Only(got.event = Unspelt, endpoint)
       ELSE Weakest({endpoint, NamePass(want.event, got.event)}))

LlmReaches(want, got) ==
  IF want.tool # Unspelt THEN Only(Compatible(want.injection, got.injection), NamePass(want.tool, got.tool))
  ELSE Only(want.injection # "" /\ want.injection = got.injection, "strict")

NetReaches(want, got) ==
  Only(/\ want.port # NoPort /\ want.port = got.port
       /\ Or(want.proto, "tcp") = Or(got.proto, "tcp") /\ Compatible(want.host, got.host),
       Loosely(want.host # "" /\ got.host = ""))

OpMatches(want, got, routes) ==
  IF RefKind(got) # want.kind THEN "none"
  ELSE CASE want.kind = "http"    -> HttpReaches(want, got, routes)
         [] want.kind = "graphql" -> GraphqlReaches(want, got)
         [] want.kind = "ws"      -> WsReaches(want, got)
         [] want.kind = "llm"     -> LlmReaches(want, got)
         [] want.kind = "net"     -> NetReaches(want, got)
         [] OTHER -> "none"

-----------------------------------------------------------------------------
(* The catalog. *)

\* The identity is expressible for its protocol.
Identified(o) ==
  CASE o.kind = "http"    -> o.path # <<>>
    [] o.kind = "graphql" -> o.op # Unspelt \/ o.field # Unspelt
    [] o.kind = "ws"      -> o.path # <<>> \/ o.event # Unspelt
    [] o.kind = "llm"     -> o.tool # Unspelt \/ o.injection # ""
    [] o.kind = "net"     -> o.port # NoPort
    [] OTHER -> FALSE

DiscoveryTiers == {"", "static-html", "js-static", "js-runtime", "interaction", "flow"}

\* validateSurface without an error.
ValidSurface(ops) ==
  /\ \A o \in ops : Identified(o) /\ o.discovery \in DiscoveryTiers /\ o.variant \in {"both", "vuln", "safe"}
  /\ \A o, p \in ops : o # p => o.id # p.id /\ OpKey(o) # OpKey(p)
  /\ \A o \in ops : o.via = "" \/ \E p \in ops : p.id = o.via
  /\ (\A o \in ops : o.discovery = "") \/ (\A o \in ops : o.discovery # "")

-----------------------------------------------------------------------------
(* The coverage track over a catalog ops, a sequence of reports, the twin   *)
(* that was scanned, the answer key's bugs and those that were found.       *)

Expected(ops, variant) == {o \in ops : o.variant \in {"both", variant}}

\* Mutant: the last pass that paid stays.
Credit_Last(old, pass) == IF pass = "none" THEN old ELSE pass

\* Strict wins if anything ever matched strictly.
Credit(old, pass) == IF pass = "none" \/ old = "strict" THEN old ELSE pass

\* The pass that paid for an operation after each of the reports, "none" where none did.
PassOf(o, reported, routes) ==
  LET paid[i \in 0..Len(reported)] ==
        IF i = 0 THEN "none"
        ELSE IF RefKind(reported[i]) = "none" THEN paid[i - 1]
        ELSE Credit(paid[i - 1], OpMatches(o, reported[i], routes))
  IN  paid[Len(reported)]

Passes(expected, reported, routes) == [o \in expected |-> PassOf(o, reported, routes)]

Carrying(expected, v) == {o \in expected : v \in o.vulns}
IsTransport(o) == o.via = "" /\ o.kind \in {"http", "net"}

\* The reports that reach an operation, by their place in the sequence.
Matched(expected, reported, routes) ==
  {i \in DOMAIN reported : RefKind(reported[i]) # "none" /\ \E o \in expected : OpMatches(o, reported[i], routes) # "none"}

\* Mutant: a bug counts as reached when all of its operations were.
Reached_All(v, expected, touched) == Carrying(expected, v) \subseteq touched

Reached(v, expected, touched) == Carrying(expected, v) \cap touched # {}

\* A bug is missed for want of an operation, or on one that was reached.  by is the pass of
\* each operation, matched the reports that paid for one.
TrackOf(expected, by, matched, reported, vulns, found) ==
  LET touched  == {o \in expected : by[o] # "none"}
      said     == {i \in DOMAIN reported : RefKind(reported[i]) # "none"}
      mapped   == {v \in vulns : Carrying(expected, v) # {}}
      on       == {v \in mapped : Reached(v, expected, touched)} IN
  [pass      |-> by,
   touched   |-> touched,
   matched   |-> matched,
   unknown   |-> {OpKey(reported[i]) : i \in said \ matched},
   loose     |-> {o \in touched : by[o] = "loose"},
   routes    |-> {o \in touched : IsTransport(o)},
   unmapped  |-> vulns \ mapped,
   discovery |-> mapped \ (on \cup found),
   analysis  |-> on \ found,
   onTouched |-> on]

Track(ops, reported, variant, vulns, found) ==
  LET expected == Expected(ops, variant)
      routes   == SurfaceRoutes(ops) IN
  TrackOf(expected, Passes(expected, reported, routes), Matched(expected, reported, routes), reported, vulns, found)

-----------------------------------------------------------------------------
(* The discovery track: ports.  An entry or a report is [port, open,        *)
(* version], port naming host, number and protocol.                         *)

\* Of two reports on a port the later one's version stays.
ReportedPorts(reports) ==
  LET live == SelectSeq(reports, LAMBDA r : IsOpenState(r.state)) IN
  FoldLeft(LAMBDA m, r : [k \in DOMAIN m \cup {r.port} |-> IF k = r.port THEN r.version ELSE m[k]],
           [k \in {} |-> ""], live)

DiscoveryTrack(entries, reports) ==
  LET open == {e.port : e \in {x \in entries : x.open}}
      said == ReportedPorts(reports)
      hit  == open \cap DOMAIN said
      versioned == {e \in entries : e.open /\ e.port \in hit /\ e.version # ""} IN
  [hit |-> hit, missed |-> open \ hit, spurious |-> DOMAIN said \ open,
   scored |-> versioned, correct |-> {e \in versioned : said[e.port] = e.version}]
=============================================================================
