-------------------------------- MODULE Catalog --------------------------------
(***************************************************************************)
(* derive-surface (tools/derive-surface.ts): the catalog of an app's       *)
(* operations, drafted from the answer key and the app's source and merged *)
(* with the catalog that is there.                                         *)
(*                                                                         *)
(* A catalog is a sequence of operations as module Coverage has them; an   *)
(* id is the sequence of its parts.  The app is [kind, files, services,    *)
(* review, remap, extra]: how its routes are read, its source files, its   *)
(* compose services [dir, build, ports], and what the tool's tables say of *)
(* it.  A file is [path, dir, groups, routes, verbs]: its route-prefix     *)
(* declarations [name, parent, prefix] and routes [recv, method, path] in  *)
(* the order they are written.  A segment of a path may also be a typed    *)
(* converter, an asset or a source map.                                    *)
(***************************************************************************)
EXTENDS Derive, Coverage

NewOp ==
  LET more == [id |-> <<>>, via |-> "", vulns |-> {}, variant |-> "both", discovery |-> ""] IN
  [f \in DOMAIN NoFields \cup DOMAIN more |-> IF f \in DOMAIN more THEN more[f] ELSE NoFields[f]]

-----------------------------------------------------------------------------
(* The source's routes. *)

\* The build contexts that publish a port, and those that do not; no context is published
\* when nothing is known of the services.
Published(app) == {s.dir : s \in {x \in app.services : x.build /\ x.ports}}
Internal(app)  == {s.dir : s \in {x \in app.services : x.build /\ ~x.ports}}

Scanned(app, f) ==
  Published(app) = {} \/ ((\E d \in Published(app) : IsPrefix(d, f.dir))
                          /\ \A d \in Internal(app) : ~IsPrefix(d, f.dir))

\* The prefix of each declared receiver: its parent's and its own.
GroupPrefix(f) ==
  FoldLeft(LAMBDA by, g : (g.name :> (IF g.parent \in DOMAIN by THEN by[g.parent] ELSE <<>>) \o g.prefix) @@ by,
           <<>>, f.groups)

\* A typed path converter is written as the glob that says the same.
NormalizePath(p) == [i \in DOMAIN p |-> IF p[i].k = "typed" THEN Star ELSE p[i]]

Hit(method, path) == [method |-> method, path |-> path]

PatternRoutes(f) ==
  [i \in DOMAIN f.routes |->
     LET r == f.routes[i]  by == GroupPrefix(f) IN
     Hit(r.method, NormalizePath((IF r.recv \in DOMAIN by THEN by[r.recv] ELSE <<>>) \o r.path))]

\* Next.js: the file tree is the route table; a handler that exports no verb answers GET.
NextRoutes(f) ==
  LET base == SubSeq(f.path, 3, Len(f.path) - 1)
      path == IF base = <<>> THEN <<Empty>> ELSE base IN
  IF f.path[Len(f.path)] = Lit("route.ts")
  THEN [i \in 1..Max({1, Len(f.verbs)}) |-> Hit(IF f.verbs = <<>> THEN "GET" ELSE f.verbs[i], path)]
  ELSE IF f.path[Len(f.path)] = Lit("page.ts") THEN <<Hit("GET", path)>> ELSE <<>>

\* Spring: the class's mapping and the method's; a class without one starts anew.
SpringRoutes(f) ==
  [i \in DOMAIN f.routes |->
     LET above == {j \in DOMAIN f.groups : f.groups[j].name = f.routes[i].recv}
         path  == (IF above = {} THEN <<>> ELSE f.groups[Max(above)].prefix) \o f.routes[i].path IN
     Hit(f.routes[i].method, IF path = <<>> THEN <<Empty>> ELSE path)]

FileRoutes(app, f) ==
  CASE app.kind = "nextjs" -> NextRoutes(f)
    [] app.kind = "spring" -> SpringRoutes(f)
    [] app.kind = "files"  -> <<Hit("GET", f.path)>>
    [] OTHER -> IF Scanned(app, f) THEN PatternRoutes(f) ELSE <<>>

ScanSource(app) == FlattenSeq([i \in DOMAIN app.files |-> FileRoutes(app, app.files[i])])

\* Not attack surface: the harness, assets, framework chunks and catch-all mounts.
IsExcluded(p) ==
  \/ IsHarnessPath(p) \/ p[Len(p)].k = "asset"
  \/ IsPrefix(<<Lit("_next"), Lit("static")>>, p) /\ p[Len(p)].k # "map"
  \/ DropSlash(p) \in {<<Ph>>, <<Star>>}

-----------------------------------------------------------------------------
(* The answer key's operations. *)

\* The slug of a path: case, braces and slashes are gone.
SlugSegment(s) == IF s.k = "ph" THEN "id" ELSE s.n
Slug(p) ==
  LET kept == SelectSeq([i \in DOMAIN p |-> SlugSegment(p[i])], LAMBDA n : n # "") IN
  IF kept = <<>> THEN <<"root">> ELSE kept

HttpOpId(p, method) == <<"http">> \o Slug(p) \o (IF method = NoVerb THEN <<>> ELSE <<method>>)

Said(q) == {<<x[1], [w |-> x[2], up |-> FALSE]>> : x \in q}

HttpOp(k, v) ==
  [NewOp EXCEPT !.id = HttpOpId(k.path, k.method), !.kind = "http", !.method = k.method, !.path = k.path,
                !.query = Said(k.query), !.port = k.port, !.vulns = {v.id}, !.discovery = v.discovery]

AltOp(alt, v) == HttpOp(HttpKeyFromUrl(PathUrl(alt.path), alt.method), v)

OneOf(s, none) == IF s = {} THEN none ELSE CHOOSE x \in s : TRUE
NameIn(words)  == [w |-> OneOf(words, ""), up |-> FALSE]

\* A bug on another protocol is one operation of it and none of http.  A key's host is one
\* part, and no derived ws block has an endpoint.
HostName(h) == IF h = <<>> THEN "" ELSE h[1]
NetOp(n, v) == [NewOp EXCEPT !.id = <<"net", HostName(n.host), n.port>>, !.kind = "net", !.host = HostName(n.host),
                             !.port = n.port, !.proto = n.proto, !.vulns = {v.id}, !.discovery = v.discovery]
GqlOp(g, v) == [NewOp EXCEPT !.id = <<"gql", OneOf(g.kind, "query")>> \o SetToSeq(g.op), !.kind = "graphql", !.op = NameIn(g.op),
                             !.gqlKind = OneOf(g.kind, "query"), !.vulns = {v.id}, !.discovery = v.discovery]
WsOp(w, v)  == [NewOp EXCEPT !.id = <<"ws">> \o SetToSeq(w.event), !.kind = "ws", !.event = NameIn(w.event),
                             !.channel = OneOf(w.channel, ""), !.vulns = {v.id}, !.discovery = v.discovery]
LlmOp(l, v) == [NewOp EXCEPT !.id = <<"llm">> \o SetToSeq(l.tool), !.kind = "llm", !.tool = NameIn(l.tool),
                             !.vulns = {v.id}, !.discovery = v.discovery]

\* The later steps of a route no match: block was derived from.
LaterSteps(v, first) ==
  LET steps == RouteSteps(v.route) IN
  [i \in 1..Max({0, Len(steps) - 1}) |-> [method |-> NoVerb, path |-> HttpKeyFromUrl(steps[i + 1].u, NoVerb).path]]

\* An alternate has a verb of its own only where it is pinned.
HttpOps(v, k) ==
  LET steps == LaterSteps(v, k)
      alts == IF v.match = NoAnchors THEN Among(steps, {s \in ToSet(steps) : s.path # k.path}) ELSE v.match.alts IN
  IF IsHarnessPath(k.path) THEN <<>>
  ELSE <<HttpOp(k, v)>> \o [i \in DOMAIN alts |-> AltOp(alts[i], v)]

OpsOf(v) ==
  LET m == v.match
      named(s, f) == {x \in s : x[f] # {}}
      http == IF m.http # <<>> THEN {m.http[1]} ELSE ParseRoute(v.route).http IN
  IF m.net # {} THEN (IF \E n \in m.net : n.port # NoPort THEN <<NetOp(CHOOSE n \in m.net : TRUE, v)>> ELSE <<>>)
  ELSE IF named(m.gql, "op") # {} THEN <<GqlOp(CHOOSE g \in m.gql : TRUE, v)>>
  ELSE IF named(m.ws, "event") # {} THEN <<WsOp(CHOOSE w \in m.ws : TRUE, v)>>
  ELSE IF named(m.llm, "tool") # {} THEN <<LlmOp(CHOOSE l \in m.llm : TRUE, v)>>
  ELSE IF http = {} THEN <<>> ELSE HttpOps(v, CHOOSE k \in http : TRUE)

IndexOfKey(ops, k) == SelectInSeq(ops, LAMBDA o : OpKey(o) = k)

\* The first operation of each endpoint.
Firsts(ops) ==
  LET at == Among([i \in DOMAIN ops |-> i], {i \in DOMAIN ops : \A j \in 1..(i - 1) : OpKey(ops[j]) # OpKey(ops[i])}) IN
  [n \in DOMAIN at |-> ops[at[n]]]

\* Two bugs on one endpoint are one operation with both ids.
SeedsFromGroundTruth(bugs) ==
  LET all == FlattenSeq([i \in DOMAIN bugs |-> OpsOf(bugs[i])])
      on(o) == {x \in ToSet(all) : OpKey(x) = OpKey(o)} IN
  [n \in DOMAIN Firsts(all) |-> [Firsts(all)[n] EXCEPT !.vulns = UNION {x.vulns : x \in on(Firsts(all)[n])}]]

Benign(hit) ==
  [NewOp EXCEPT !.id = HttpOpId(hit.path, hit.method), !.kind = "http", !.method = hit.method, !.path = hit.path]

\* What is not an operation yet, of the hand-written table and then of the source.
WithSource(ops, app) ==
  LET hits == ScanSource(app)
      served == Among(hits, {h \in ToSet(hits) : ~IsExcluded(h.path)}) IN
  Firsts(ops \o app.extra \o [i \in DOMAIN served |-> Benign(served[i])])

-----------------------------------------------------------------------------
(* Folding, merging, tiering. *)

IsHttp(o)   == o.kind = "http" /\ o.path # <<>>
LooseOp(o)  == IsHttp(o) /\ o.method = NoVerb /\ o.query = {}
Concrete(o) == IsHttp(o) /\ o.method # NoVerb

\* A method-less entry goes where its path has one with a verb: its bugs to each of those
\* without a required query.
CollapseMethodless(ops) ==
  LET all == ToSet(ops)
      loose(o) == SelectSeq(ops, LAMBDA l : LooseOp(l) /\ l.path = o.path)
      tier(o) == FoldLeft(LAMBDA t, l : Or(t, l.discovery), o.discovery, loose(o))
      fold(o) == [o EXCEPT !.vulns = @ \cup UNION {l.vulns : l \in ToSet(loose(o))}, !.discovery = tier(o)]
      folded == [i \in DOMAIN ops |-> IF Concrete(ops[i]) /\ ops[i].query = {} THEN fold(ops[i]) ELSE ops[i]] IN
  Among(folded, {o \in ToSet(folded) : ~(LooseOp(o) /\ \E c \in all : Concrete(c) /\ c.path = o.path)})

\* What the parser keeps of a catalog: an entry of no known kind is left out.
ParsedOps(cat) == Among(cat, {o \in ToSet(cat) : o.kind \in Kinds})

\* Mutant: what is no longer derived goes.
MergeExisting_Drops(derived, existing) ==
  [i \in DOMAIN derived |->
     LET at == IndexOfKey(existing, OpKey(derived[i])) IN IF at = 0 THEN derived[i] ELSE existing[at]]

\* An existing entry wins outright; what is no longer derived stays, at the end.
MergeExisting(derived, existing) ==
  [i \in DOMAIN derived |->
     LET at == IndexOfKey(existing, OpKey(derived[i])) IN IF at = 0 THEN derived[i] ELSE existing[at]]
  \o Among(existing, {o \in ToSet(existing) : IndexOfKey(derived, OpKey(o)) = 0})

\* The hand review kept in code: [method, path, tier], the verb "any" where it says none.
ApplyReview(ops, review) ==
  LET hits(o) == SelectSeq(review, LAMBDA r : TemplatePath(r.path) = TemplatePath(o.path) /\ r.method \in {"any", o.method}) IN
  [i \in DOMAIN ops |->
     IF ops[i].discovery # "" \/ ops[i].kind # "http" \/ hits(ops[i]) = <<>> THEN ops[i]
     ELSE [ops[i] EXCEPT !.discovery = hits(ops[i])[1].tier]]

Segments(p) == SelectSeq(p, LAMBDA s : s # Empty)
Common(p, q) == Cardinality({n \in 1..Min({Len(p), Len(q)}) : SubSeq(p, 1, n) = SubSeq(q, 1, n)})
HasPath(o) == o.path # <<>> /\ ~o.endpoint

\* The tier of the tiered entries nearest by path, where they agree on one.
NearestTier(o, tiered) ==
  LET near == {t \in tiered : HasPath(t)}
      n(t) == Common(Segments(o.path), Segments(t.path))
      best == Max({0} \cup {n(t) : t \in near})
      winners == {t.discovery : t \in {x \in near : n(x) = best}} IN
  IF HasPath(o) /\ best > 0 /\ Cardinality(winners) = 1 THEN CHOOSE w \in winners : TRUE ELSE ""

Tier(o, tiered) ==
  LET tiers == {t.discovery : t \in tiered} IN
  IF o.discovery # "" \/ tiered = {} THEN o.discovery
  ELSE IF Cardinality(tiers) = 1 THEN CHOOSE t \in tiers : TRUE ELSE NearestTier(o, tiered)

TierBenign(ops) ==
  LET tiered == {o \in ToSet(ops) : o.discovery # ""} IN
  [i \in DOMAIN ops |-> [ops[i] EXCEPT !.discovery = Tier(ops[i], tiered)]]

\* A bug shown on the harness is put on a route the app serves.
RemapVulns(ops, remap) ==
  LET on(r) == SelectInSeq(ops, LAMBDA o : o.kind = "http" /\ o.path = r.path) IN
  [i \in DOMAIN ops |-> [ops[i] EXCEPT !.vulns = @ \cup {r.id : r \in {x \in ToSet(remap) : on(x) = i}}]]

\* The n-th entry of an id is told apart by its number.
StableIds(ops) ==
  [i \in DOMAIN ops |->
     LET n == Cardinality({j \in 1..i : ops[j].id = ops[i].id}) IN
     IF n = 1 THEN ops[i] ELSE [ops[i] EXCEPT !.id = Append(@, n)]]

Finished(ops, app) == StableIds(RemapVulns(TierBenign(ApplyReview(ops, app.review)), app.remap))

Drafted(bugs, app) == CollapseMethodless(WithSource(SeedsFromGroundTruth(bugs), app))

\* What deriveApp writes, and what it counts as added.
DeriveSurface(bugs, app, cat) == Finished(MergeExisting(Drafted(bugs, app), ParsedOps(cat)), app)
Added(bugs, app, cat) ==
  {o \in ToSet(Drafted(bugs, app)) : IndexOfKey(ParsedOps(cat), OpKey(o)) = 0}
=============================================================================
