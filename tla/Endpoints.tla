------------------------------- MODULE Endpoints -------------------------------
(***************************************************************************)
(* What a tool says it discovered (src/schema/endpoints.ts, readEndpoints  *)
(* and cmdCoverage of the CLI): an endpoint in any of the shapes that are  *)
(* accepted becomes the reference Coverage compares, a file that lists     *)
(* none is read as findings, and the files of one command make one track.  *)
(*                                                                         *)
(* A file is a text of Report with its list of endpoints (entries); a bare *)
(* array is both lists.  An entry is an object - its own fields, those     *)
(* under location, those nested under a kind - or a line of text: its tag, *)
(* what follows taken apart.  Fields are strings, as in Report.            *)
(***************************************************************************)
EXTENDS Report, Coverage

CONSTANTS
  UrlOf,  \* the URL (as Keys has it) that a string is, for the strings in use
  PortOf  \* the number

NameOf(s) == [w |-> Fold(s), up |-> Fold(s) # s]
PortRead(s) == IF Number(s) = "" THEN NoPort ELSE PortOf[s]

Named(pairs) == {p[1] : p \in pairs}

\* The path and the query of a reference; a query of its own wins over an inline one.
UrlSaid(src) == Fallback(Says(src, "path"), Fallback(Says(src, "endpoint"), Says(src, "url")))
QueryOf(src) ==
  LET own    == IF "query" \in DOMAIN src THEN src.query ELSE {}
      inline == IF UrlSaid(src) = "" THEN {} ELSE HttpKeyFromUrl(UrlOf[UrlSaid(src)], NoVerb).query IN
  {<<p[1], NameOf(p[2])>> : p \in own \cup {q \in inline : q[1] \notin Named(own)}}

RefOf(src) ==
  [kind |-> Fold(Says(src, "kind")), method |-> Fallback(Fold(Says(src, "method")), NoVerb),
   path |-> IF UrlSaid(src) = "" THEN <<>> ELSE HttpKeyFromUrl(UrlOf[UrlSaid(src)], NoVerb).path,
   endpoint |-> Says(src, "endpoint") # "" /\ Says(src, "path") = "" /\ Says(src, "url") = "",
   query |-> QueryOf(src), port |-> PortRead(Says(src, "port")),
   op |-> NameOf(Says(src, "op")), gqlKind |-> Fold(Says(src, "graphql_kind")), field |-> NameOf(Says(src, "field")),
   event |-> NameOf(Says(src, "event")), channel |-> Says(src, "channel"), namespace |-> Says(src, "namespace"),
   tool |-> NameOf(Says(src, "tool")), injection |-> Fold(Says(src, "injection_channel")),
   host |-> Says(src, "host"), proto |-> Fold(Says(src, "proto"))]

-----------------------------------------------------------------------------
(* One entry: a set of one reference, or of none. *)

\* "GET /a", "ws /ws join", "graphql mutation.post", "llm run", "db:5432/tcp"
FromString(x) ==
  CASE x.tag \in {"graphql", "gql"} -> {RefOf([kind |-> "graphql", graphql_kind |-> x.sub, op |-> x.name])}
    [] x.tag \in {"llm", "tool"}    -> {RefOf([kind |-> "llm", tool |-> x.name])}
    [] x.tag \in {"ws", "wss"}      -> {RefOf([kind |-> "ws", endpoint |-> x.path, event |-> x.name])}
    [] x.tag = "net"                -> {RefOf([kind |-> "net", host |-> x.host, port |-> x.port, proto |-> x.sub])}
    [] OTHER -> IF x.path = "" THEN {} ELSE {RefOf([method |-> x.verb, path |-> x.path])}

\* The fields of g with those of f assigned over them.
Over(f, g) == [n \in DOMAIN f \cup DOMAIN g |-> IF n \in DOMAIN f THEN f[n] ELSE g[n]]

\* Mutant: what is nested is left where it is.
Flattened_Own(raw) == Over(raw.at, raw.own)

\* What is nested under a kind overrides, and names the kind where nothing did.
Nest(src, nests, k) ==
  IF k \in DOMAIN nests
  THEN Over([kind |-> IF "kind" \in DOMAIN src THEN src.kind ELSE k], Over(nests[k], src)) ELSE src

Flattened(raw) ==
  LET under(src, k) == Nest(src, raw.nests, k) IN
  under(under(under(under(under(Over(raw.at, raw.own), "http"), "graphql"), "ws"), "llm"), "net")

CoerceEndpoint(raw) ==
  CASE raw.t = "text"   -> FromString(raw)
    [] raw.t = "object" -> {r \in {RefOf(Flattened(raw))} : RefKind(r) # "none"}
    [] OTHER -> {}

-----------------------------------------------------------------------------
(* One file. *)

ValidateEndpoints(x, opts) ==
  LET env == ParseEnvelope([t |-> x.shape, schema |-> x.schema, app |-> x.app, variant |-> x.variant, items |-> x.entries], opts) IN
  [value |-> env.items.list, errors |-> env.errors,
   endpoints |-> FlattenSeq([i \in DOMAIN env.items.items |-> SetToSeq(CoerceEndpoint(env.items.items[i]))])]

ParseEndpointsFile(x, opts) ==
  IF x.start \in {"json", "yaml"} THEN ValidateEndpoints(x, opts)
  ELSE [value |-> FALSE, errors |-> {"$"}, endpoints |-> <<>>]

\* Where a finding lies, an endpoint is; a closed port too.
StandsAt(location, k, names) == k \in DOMAIN location /\ \E n \in names : location[k][n] # ""
Implied(location) ==
  LET of(k, names, src) == IF StandsAt(location, k, names) THEN <<RefOf(Over([kind |-> k], src))>> ELSE <<>>
      at(k, n) == IF k \in DOMAIN location THEN location[k][n] ELSE "" IN
  of("http", {"path", "url"}, [method |-> at("http", "method"), path |-> at("http", "path"), url |-> at("http", "url")])
  \o of("graphql", {"op", "field"}, [op |-> at("graphql", "op"), graphql_kind |-> at("graphql", "kind"), field |-> at("graphql", "field")])
  \o of("ws", {"endpoint", "event"}, [endpoint |-> at("ws", "endpoint"), event |-> at("ws", "event"), channel |-> at("ws", "channel")])
  \o of("llm", {"tool", "channel"}, [tool |-> at("llm", "tool"), injection_channel |-> at("llm", "channel")])
  \o of("net", {"port"}, [host |-> at("net", "host"), port |-> at("net", "port"), proto |-> at("net", "proto")])

EndpointsFromFindings(findings) == FlattenSeq([i \in DOMAIN findings |-> Implied(findings[i].location)])

\* Errors of a file that lists endpoints, or lists none without an error, are not told.
Chosen(res, asFindings) ==
  IF res.endpoints # <<>> \/ res.errors = {}
  THEN [endpoints |-> res.endpoints, source |-> "reported", died |-> FALSE]
  ELSE [endpoints |-> EndpointsFromFindings(asFindings.findings), source |-> "findings", died |-> Dies(asFindings)]

ReadEndpoints(x, app, variant) ==
  Chosen(ParseEndpointsFile(x, [app |-> app, variant |-> variant]), ReadFindings(x, app, variant, "", {}))

-----------------------------------------------------------------------------
(* The command.  One input implied by findings taints the number. *)

Covered(ops, reads, variant, vulns, found) ==
  [died   |-> \E i \in DOMAIN reads : reads[i].died,
   source |-> IF \E i \in DOMAIN reads : reads[i].source = "findings" THEN "findings" ELSE "reported",
   track  |-> Track(ops, FlattenSeq([i \in DOMAIN reads |-> reads[i].endpoints]), variant, vulns, found)]

CmdCoverage(ops, files, app, variant, vulns, found) ==
  Covered(ops, [i \in DOMAIN files |-> ReadEndpoints(files[i], app, variant)], variant, vulns, found)
=============================================================================
