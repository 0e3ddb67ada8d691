------------------------------- MODULE MCRules -------------------------------
(* Questions for Rules: small universes of paths, anchors and operations.     *)
EXTENDS Rules

-----------------------------------------------------------------------------
(* Paths: /p, /P, /p/, /p/search, /p/7, /p/globex, /p/{id}, /p/*, ...         *)

P == Lit("p")
Ends == {Lit("search"), Upper("search"), IdSeg("7"), Lit("globex"), Ph, Star, Empty, Deep}
MCPaths == {<<e>> : e \in Ends \cup {P, Upper("p")}} \cup {<<q, e>> : q \in {P, Upper("p")}, e \in Ends}
           \cup {<<P, e, l>> : e \in {Ph, Lit("globex"), IdSeg("7")}, l \in {Lit("x"), Empty}}
Concrete == {p \in MCPaths : \A i \in DOMAIN p : p[i].k \in {"lit", "id"}}

MCPathQuestions ==
  {[about |-> "path", gt |-> g, found |-> f, routes |-> r] :
     g \in MCPaths, f \in Concrete, r \in {{}, {<<P, Lit("search")>>}}}

-----------------------------------------------------------------------------
(* Pairs.  GuessCwe's rules: 1 names SQL injection, 21 an IDOR. *)

Key(p, m) == HttpKeyFromUrl(PathUrl(p), m)
WithParam(k, n) == [k EXCEPT !.params = {n}]
Silent == [id |-> NoCwe, rules |-> {}]
Nowhere == [http |-> <<>>, file |-> {}, net |-> {}, gql |-> {}, ws |-> {}, llm |-> {}, markers |-> {}]
Reporting(a, cwes, words, sent, exploited) ==
  a @@ [cwes |-> cwes, words |-> words, names |-> sent, exploited |-> exploited]

Search == <<P, Lit("search")>>
ById   == <<P, Ph>>
Globex == <<P, Lit("globex")>>
Handler(lines) == [path |-> <<Lit("vuln"), Lit("p.ts")>>, symbol |-> {"get"}, lines |-> lines]
Seen(lines)    == [path |-> <<Lit("p.ts")>>, symbol |-> {}, lines |-> lines]
Leak == <<"marker", "7f3a">>

Places ==
  {[Nowhere EXCEPT !.http = h, !.file = s, !.markers = m] :
     h \in {<<>>} \cup {<<k>> : k \in {Key(Search, "GET"), Key(Globex, "POST"), Key(<<P, Upper("search")>>, "GET"),
                               WithParam(Key(Globex, "GET"), "q"), Key(<<P, IdSeg("7")>>, NoVerb)}},
     s \in {{}, {Seen({})}, {Seen({9})}, {Seen({12})}, {Seen({30})}}, m \in {{}, {Leak}}}

\* What it says of the place: with and without a CWE, a word or an exploit.
Claims == {<<{}, Silent, FALSE>>, <<{}, [id |-> NoCwe, rules |-> {21, 22}], TRUE>>,
           <<{639}, Silent, TRUE>>, <<{862}, Silent, FALSE>>, <<{89}, [id |-> 639, rules |-> {}], FALSE>>}

Declared(http, file, net, markers) ==
  [cwe |-> 639, aliases |-> {425}, family |-> NoFamily,
   match |-> [NoAnchors EXCEPT !.http = http, !.file = file, !.net = net, !.markers = markers],
   human |-> NoAnchors @@ [route |-> [words |-> <<>>, headers |-> {}]]]

\* "GET /p/{id} then POST /p/globex (header: x-skip)", with no match: block.
Told(m, u) == [t |-> "verb", m |-> m, u |-> u]
RouteOnly ==
  [Declared(<<>>, {}, {}, {}) EXCEPT !.human = NoAnchors @@ [route |->
     [headers |-> {"x-skip"},
      words |-> <<Told("GET", <<>>), [t |-> "path", m |-> NoVerb, u |-> PathUrl(ById)],
                  [t |-> "word", m |-> NoVerb, u |-> <<>>], Told("POST", <<>>),
                  [t |-> "path", m |-> NoVerb, u |-> PathUrl(Globex)]>>]]]

Bugs ==
  {GtAnchors(Declared(<<k>>, s, {}, m)) :
     k \in {Key(ById, "GET"), WithParam(Key(Globex, "GET"), "q")},
     s \in {{}, {Handler(10..12)}}, m \in {{}, {<<"7f3a">>}}} \cup {GtAnchors(RouteOnly)}

Table == {Search, ById}

\* Anchors of the other protocols, one or two on a side.
Port(n, host, state) == [host |-> host, port |-> n, proto |-> "tcp", state |-> state]
Gql(op, kind, field) == [op |-> op, kind |-> kind, field |-> field]
Ws(t, e, c) == [transport |-> t, event |-> e, channel |-> c, endpoint |-> {}]
Llm(tool, channel) == [tool |-> tool, channel |-> channel]

OtherBugs ==
  {[GtAnchors(Declared(h, s, n, {})) EXCEPT !.gql = q, !.ws = w, !.llm = l] :
     h \in {<<>>, <<Key(ById, "GET")>>}, s \in {{}, {Handler(10..12)}},
     n \in {{}, {Port(1, <<"db">>, "")}}, q \in {{}, {Gql({"post"}, {"mutation"}, {})}},
     w \in {{}, {Ws({"ws"}, {"join"}, {"room"})}}, l \in {{}, {Llm({"run", "shell"}, {"rag"})}}}

OtherPlaces ==
  {[Nowhere EXCEPT !.net = {Port(1, <<"app", "db">>, "open")}, !.http = <<Key(Globex, "POST")>>],
   [Nowhere EXCEPT !.net = {Port(1, <<"web">>, "open")}, !.file = {Seen({12})}],
   [Nowhere EXCEPT !.net = {Port(1, <<>>, "closed")}, !.llm = {Llm({"run"}, {})}],
   [Nowhere EXCEPT !.gql = {Gql({"a"}, {}, {"post"})}, !.file = {Seen({30})}],
   [Nowhere EXCEPT !.gql = {Gql({"post"}, {"query"}, {})}, !.ws = {Ws({"ws"}, {"join"}, {"room"})}],
   [Nowhere EXCEPT !.ws = {Ws({"ws"}, {"join"}, {})}, !.llm = {Llm({}, {"rag"})}]}

MCPairQuestions ==
  {[about |-> "pair", f |-> Reporting(q[1], q[2][1], q[2][2], {}, q[2][3]), g |-> q[3], routes |-> Table] :
     q \in (Places \X Claims \X Bugs) \cup (OtherPlaces \X Claims \X OtherBugs)}

-----------------------------------------------------------------------------
(* Operations. *)

Name(w) == [w |-> w, up |-> FALSE]
Spelt(w) == [w |-> w, up |-> TRUE]
Of(id, o) == o @@ [id |-> id, via |-> "", vulns |-> {}, variant |-> "both", discovery |-> ""]

Http(p, m, q, n) == [NoFields EXCEPT !.kind = "http", !.path = p, !.method = m, !.query = q, !.port = n]
HttpOps == {Http(p, m, q, n) : p \in {ById, <<P, IdSeg("7")>>, <<P, IdSeg("8")>>, Search, <<P, Upper("search")>>, <<P, Empty>>},
              m \in {NoVerb, "GET"}, q \in {{}, {<<"action", Name("a")>>}, {<<"action", Spelt("a")>>}}, n \in {NoPort, 1}}
GraphqlOps == {[NoFields EXCEPT !.kind = "graphql", !.op = o, !.gqlKind = k, !.field = f] :
                 o \in {Unspelt, Name("post"), Spelt("post")}, k \in {"", "query", "mutation"}, f \in {Unspelt, Name("id")}}
WsOps == {[NoFields EXCEPT !.kind = "ws", !.path = p, !.event = e, !.channel = c, !.namespace = n, !.endpoint = TRUE] :
            p \in {<<>>, <<P>>}, e \in {Unspelt, Name("join"), Spelt("join")}, c \in {"", "room"}, n \in {"", "/", "/n"}}
LlmOps == {[NoFields EXCEPT !.kind = "llm", !.tool = t, !.injection = i] :
             t \in {Unspelt, Name("run"), Spelt("run")}, i \in {"", "rag", "chat"}}
NetOps == {[NoFields EXCEPT !.kind = "net", !.host = h, !.port = n, !.proto = q] :
             h \in {"", "db"}, n \in {NoPort, 1, 2}, q \in {"", "tcp", "udp"}}

KindOps == {HttpOps, GraphqlOps, WsOps, LlmOps, NetOps}
MCReports == UNION KindOps \cup {Http(<<P, Lit("globex")>>, m, {}, 1) : m \in {NoVerb, "GET", "POST"}}
             \cup {Http(p, "POST", {}, 2) : p \in MCPaths}
MCCatalogQuestions ==
  {[about |-> "catalog", ops |-> {Of("o", c[1]), Of("p", c[2])}] : c \in UNION {S \X S : S \in KindOps}}

-----------------------------------------------------------------------------
(* Coverage. *)

Carry(o, vs) == [o EXCEPT !.vulns = vs]
GetSearch == Carry(Of("search", Http(Search, "GET", {}, NoPort)), {"sqli"})
PostById  == Carry(Of("byid", Http(ById, NoVerb, {}, NoPort)), {"idor", "race"})
Loud      == Carry(Of("loud", Http(<<P, Upper("search")>>, "GET", {}, NoPort)), {"sqli"})
FixedAway == [Carry(Of("debug", Http(<<P, Empty>>, NoVerb, {}, NoPort)), {"race"}) EXCEPT !.variant = "vuln"]
Joined    == Carry(Of("join", [NoFields EXCEPT !.kind = "ws", !.event = Name("join")]), {"idor"})
Graph     == [Of("op", [NoFields EXCEPT !.kind = "graphql", !.op = Name("post")]) EXCEPT !.via = "search"]
RunTool   == Carry(Of("run", [NoFields EXCEPT !.kind = "llm", !.tool = Name("run")]), {"idor"})
DbPort    == Of("port", [NoFields EXCEPT !.kind = "net", !.port = 1])

Trails ==
  {Http(Search, "GET", {}, NoPort), Http(<<P, Upper("search")>>, NoVerb, {}, NoPort), Http(<<P, IdSeg("7")>>, "GET", {}, NoPort),
   Http(Globex, NoVerb, {}, 1), Http(<<P>>, "GET", {}, NoPort), [NoFields EXCEPT !.event = Spelt("join")],
   [NoFields EXCEPT !.kind = "websocket", !.event = Name("join")],
   [NoFields EXCEPT !.tool = Spelt("run")], [NoFields EXCEPT !.port = 1, !.proto = "tcp"], NoFields}

MCTrackQuestions ==
  {[about |-> "track", ops |-> ops, reported |-> r, variant |-> v, vulns |-> {"sqli", "idor", "race", "xss"}, found |-> f] :
     ops \in {{GetSearch, PostById, Graph}, {GetSearch, Loud, Joined}, {PostById, FixedAway, RunTool},
              {GetSearch, PostById, FixedAway, Loud, Joined, DbPort}},
     r \in UNION {[1..n -> Trails] : n \in 0..2}, v \in {"vuln", "safe"}, f \in {{}, {"idor"}, {"sqli", "xss"}}}

-----------------------------------------------------------------------------
(* Files to strip, in a C-like syntax, in Python's and in the ones without a comment. *)

CBlock    == [o |-> "/*", c |-> "*/"]
HtmlBlock == [o |-> "<!--", c |-> "-->"]
Syntax(kind) == [kind |-> kind, line |-> {}, block |-> {}, embLine |-> {}, embBlock |-> {}]
CFamily == [Syntax("code") EXCEPT !.line = {"//"}, !.block = {CBlock}, !.embBlock = {HtmlBlock}]
Python  == [Syntax("code") EXCEPT !.line = {"#"}, !.embLine = {"//"}, !.embBlock = {CBlock, HtmlBlock}]

Rows ==
  {<<"x">>, <<>>, <<"x", " ", "//", "label">>, <<" ", "//", "w">>, <<"x", " ", "//", "w">>, <<"//", "pragma", "label">>,
   <<"x", "/*", "label">>, <<" ", "label", "w">>, <<"w", "*/", "y">>, <<"x", "/*", "label", "*/", "y">>,
   <<"<!--", "w">>, <<"label", "-->", "y">>, <<"sq", "//", "sq", "/*", "w">>, <<"dq", "label", "dq">>, <<" ", "/*", "w">>,
   <<" ", "#", "label">>, <<" ", "#", "w">>, <<"bt", "esc", "bt", "#", "bt", "#", "label">>, <<"*/", "//", "label">>, <<"x", "esc", "//", "label">>}
Few == {<<"x">>, <<"x", "/*", "label">>, <<" ", "label", "w">>, <<"w", "*/", "y">>, <<" ", "//", "w">>}
Json == {<<" ", "key", "w", "label", "dq", "y">>, <<"key", "esc", "dq", "label", "dq">>, <<"key", "w", "dq", "label">>, <<"x", "label">>}

MCStripQuestions ==
  {[about |-> "strip", lines |-> q[1], syntax |-> q[2]] :
     q \in ((UNION ({[1..n -> Rows] : n \in 0..3} \cup {[1..4 -> Few]})) \X {CFamily, Python})
           \cup ((UNION {[1..n -> Json] : n \in 1..2}) \X {Syntax("json"), Syntax("none")})
           \cup ((UNION {[1..n -> Few \cup {<<" ">>}] : n \in 1..3}) \X {Syntax("prose")})}

-----------------------------------------------------------------------------
(* Dockerfiles of up to four instructions after the FROM of the first stage,  *)
(* and of five that begin like the ones in use.                               *)

Instr(op, as, from, path, to) == [op |-> op, as |-> as, from |-> from, path |-> path, to |-> to]
From1(as)  == Instr("from", as, "", "", "")
Instrs ==
  {From1(""), Instr("copy", "", Ctx, "strip.mjs", "/opt"), Instr("strip", "", "", "", ""),
   Instr("copy", "", "", "/src", "/src"), Instr("copy", "", "", "/raw", "/raw"),
   Instr("copy", "", Stage, "/src", "/app"), Instr("copy", "", Stage, "/raw", "/app")}
InUse ==
  <<Instr("copy", "", Ctx, "strip.mjs", "/opt"), Instr("copy", "", "", "/src", "/src"), Instr("strip", "", "", "", "")>>
Built(ctx, holds) == [ctx |-> ctx, holds |-> holds]

MCImageQuestions ==
  {[about |-> "image", docker |-> <<From1(q[1])>> \o q[2], builds |-> q[3], lines |-> <<<<"x", " ", "//", "label">>>>, syntax |-> CFamily] :
     q \in {Stage, "build"} \X (UNION {[1..n -> Instrs] : n \in 0..4} \cup {InUse \o d : d \in [1..2 -> Instrs]})
            \X {{Built(TRUE, TRUE)}}}
  \cup {[about |-> "image", docker |-> <<From1(Stage)>> \o d, builds |-> b, lines |-> <<l>>, syntax |-> CFamily] :
          d \in UNION {[1..n -> Instrs] : n \in 1..3}, l \in {<<"x", "dq", "label", "dq">>, <<"x", " ", "//", "label">>},
          b \in {{}, {Built(FALSE, FALSE)}, {Built(TRUE, FALSE), Built(TRUE, TRUE)}}}

-----------------------------------------------------------------------------
(* Reports: findings/v1 written by hand, by a tool or by an agent, and the natives. *)

Flat(f) == [NoPlaces EXCEPT !["flat"] = Object(f)]
Wrote(id, nested, place, cwe, sev) ==
  [obj |-> TRUE, nested |-> nested, id |-> id, place |-> place, cwe |-> cwe, cwes |-> {cwe, Garbled}, severity |-> sev,
   confidence |-> "high", markers |-> {"7f3a"}, exploited |-> TRUE]

FlatFile == Wrote(<<>>, FALSE, Flat([file |-> "p.ts", line |-> "9", url |-> "/p"]), 89, "major")
Items ==
  {Wrote(<<>>, TRUE, At1("http", [path |-> "/p", method |-> "get"]), 89, "High"),
   Wrote(<<"a">>, TRUE, At1("net", [host |-> "db", port |-> "many"]), Garbled, "2"),
   Wrote(<<"a">>, TRUE, [At1("ws", [transport |-> "WS", channel |-> "room"]) EXCEPT !["file"] = Scalar], 639, "odd"),
   Wrote(<<"f", 2>>, FALSE, Flat([url |-> "/p", param |-> "q"]), NoCwe, ""),
   Wrote(<<"a">>, TRUE, At1("http", [param |-> "q"]), 89, ""), Wrote(<<"a", 3>>, TRUE, At1("llm", [tool |-> "run"]), 89, "low"),
   FlatFile, [FlatFile EXCEPT !.obj = FALSE]}

Text(start, shape, mark, schema) ==
  [start |-> start, shape |-> shape, mark |-> mark, schema |-> schema, app |-> "", variant |-> "", items |-> NoItems, results |-> <<>>]

Written ==
  {[Text("json", "object", "", q[1]) EXCEPT !.items = Listed(i), !.app = q[2], !.variant = v] :
     q \in {<<"v1", "app">>, <<"v2", "other">>, <<"", "">>}, v \in {"", "vuln", "Safe", "prod"},
     i \in UNION {[1..n -> Items] : n \in 0..2}}
  \cup {[Text("jsonl", "array", "", "") EXCEPT !.items = Listed(i)] : i \in UNION {[1..n -> Items] : n \in 1..3}}
  \cup {Text("json", "object", "", "v1"), Text("json", "scalar", "", ""), Text("junk", "object", "", ""), Text("xml", "object", "", "")}

Guessed == [id |-> NoCwe, rules |-> {10}]
ZapAlert(cwe, is) == [cwe |-> cwe, words |-> Guessed, site |-> "/", instances |-> is, severity |-> "3", confidence |-> "2"]
Instance(u) == [url |-> u, method |-> "get", param |-> "q", leaks |-> {"7f3a", "m"}]
Result(file, url, list, score) ==
  [uri |-> file, line |-> "9", url |-> url, method |-> "", list |-> list, words |-> Guessed, score |-> score,
   severity |-> "warning", confidence |-> "", leaks |-> {"m"}]
Hit(host, url) == [host |-> host, port |-> "5432", proto |-> "", url |-> url, list |-> <<>>, words |-> Guessed,
                   severity |-> "high", leaks |-> {}, extracted |-> TRUE]
Issue(serial) == [serial |-> serial, url |-> "", method |-> "GET", param |-> "", cwe |-> NoCwe, words |-> Guessed,
                  severity |-> "medium", confidence |-> "certain", leaks |-> {}]
Open(p, state) == [name |-> "", addr |-> "db", port |-> p, proto |-> "TCP", state |-> state]

Upto2(S) == UNION {[1..n -> S] : n \in 0..2}
Native ==
  {[Text("json", "object", "zap", "") EXCEPT !.results = r] :
     r \in Upto2({ZapAlert(-1, <<>>), ZapAlert(89, <<Instance("/p"), Instance("")>>), ZapAlert(NoCwe, <<Instance("/q")>>)})}
  \cup {[Text("json", "object", "sarif", "") EXCEPT !.results = r] :
           r \in Upto2({Result("p.ts", "", <<>>, 31), Result("", "/p", <<89, 564>>, -1), Result("", "", <<89>>, 95), Result("p.ts", "/p", <<22>>, 0)})}
  \cup {[Text(t, "array", "nuclei", "") EXCEPT !.results = r] : t \in {"json", "jsonl"}, r \in Upto2({Hit("db", ""), Hit("", "/p"), Hit("", "")})}
  \cup {[Text("xml", "object", "burp", "") EXCEPT !.results = r] : r \in Upto2({Issue(0), Issue(1)})}
  \cup {[Text("xml", "object", "nmap", "") EXCEPT !.results = r] : r \in Upto2({Open("5432", "open"), Open("5432", ""), Open("", "open")})}

MCReportQuestions ==
  {[about |-> "report", text |-> q[1], format |-> q[2], variant |-> q[3], safe |-> q[4]] :
     q \in (Native \X {"", "zap", "nmap"} \X {"vuln", "safe"} \X BOOLEAN)
           \cup (Written \X {"", "findings/v1"} \X {"vuln", "safe"} \X {FALSE})}

-----------------------------------------------------------------------------
(* Endpoint lists.  A place, in the shapes an entry may have. *)

Strings == [s \in {"/p", "/q", "/p/7", "/p/search"} |->
              CASE s = "/p" -> <<P>> [] s = "/q" -> <<Lit("q")>> [] s = "/p/7" -> <<P, IdSeg("7")>> [] OTHER -> Search]
MCUrlOf  == ("/p/search?q=a" :> [PathUrl(Search) EXCEPT !.parts = <<[name |-> "q", value |-> "a"]>>])
            @@ [s \in DOMAIN Strings |-> PathUrl(Strings[s])]
MCPortOf == ("5432" :> 1)

Line == [t |-> "text", tag |-> "", verb |-> "", path |-> "", name |-> "", sub |-> "", host |-> "", port |-> ""]
Entry(own, at, nests) == [t |-> "object", own |-> own, at |-> at, nests |-> nests]

Spots ==
  {[k |-> "http", f |-> [method |-> "get", path |-> "/p/search"], line |-> [Line EXCEPT !.verb = "GET", !.path = "/p/search"]],
   [k |-> "http", f |-> [url |-> "/p/search?q=a"], line |-> [Line EXCEPT !.path = "/p/search?q=a"]],
   [k |-> "http", f |-> [method |-> "GET", url |-> "/p/7"], line |-> [Line EXCEPT !.verb = "get", !.path = "/p/7"]],
   [k |-> "ws", f |-> [endpoint |-> "/p", event |-> "join"], line |-> [Line EXCEPT !.tag = "wss", !.path = "/p", !.name = "join"]],
   [k |-> "graphql", f |-> [op |-> "Post", graphql_kind |-> "Query"], line |-> [Line EXCEPT !.tag = "gql", !.sub = "query", !.name = "Post"]],
   [k |-> "llm", f |-> [tool |-> "run"], line |-> [Line EXCEPT !.tag = "tool", !.name = "run"]],
   [k |-> "net", f |-> [host |-> "db", port |-> "5432", proto |-> "TCP"],
    line |-> [Line EXCEPT !.tag = "net", !.host = "db", !.port = "5432", !.sub = "tcp"]]}

Shapes == {"line", "own", "at", "nested", "finding"}
Shaped(s, shape) ==
  CASE shape = "line"   -> s.line
    [] shape = "own"    -> Entry(s.f, <<>>, <<>>)
    [] shape = "at"     -> Entry([note |-> "n"], s.f, <<>>)
    [] shape = "nested" -> Entry(<<>>, <<>>, s.k :> s.f)
    [] OTHER            -> Entry([kind |-> "", note |-> "n"], [note |-> "m"], s.k :> s.f)

Junk == {[t |-> "other"], Line, Entry([note |-> "n"], <<>>, <<>>)}

File(entries, v) == [Text("json", "object", "", "") EXCEPT !.variant = v] @@ [entries |-> Listed(entries)]
AsFindings(text) == text @@ [entries |-> NoItems]

Lists(shape) ==
  {File(<<Shaped(s, shape)>>, v) : s \in Spots, v \in {"", "safe"}}
Rewritten(f, shape) ==
  LET s == CHOOSE x \in Spots : \E y \in Shapes : f.entries.items = <<Shaped(x, y)>> IN
  [f EXCEPT !.entries = Listed(<<Shaped(s, shape)>>)]

NotListed ==
  {AsFindings(t) : t \in {[Text("json", "object", "", "v1") EXCEPT !.items = Listed(<<i>>)] : i \in Items}
     \cup {[Text("jsonl", "array", "", "") EXCEPT !.items = Listed(<<i>>)] : i \in Items}
     \cup {[Text("xml", "object", "nmap", "") EXCEPT !.results = <<Open("5432", s)>>] : s \in {"open", "closed"}}
     \cup {Text("junk", "scalar", "", ""), Text("yaml", "scalar", "", "")}}
  \cup {File(<<j>>, v) : j \in Junk, v \in {"", "safe"}}

Surfaces == {{GetSearch, PostById, Graph}, {GetSearch, Loud, Joined, DbPort}, {PostById, FixedAway, RunTool}}

MCCoverageQuestions ==
  {[about |-> "coverage", ops |-> ops, variant |-> "vuln", files |-> <<f, g>>, alike |-> <<Rewritten(g, s), Rewritten(f, s)>>] :
     ops \in Surfaces, f \in Lists("line"), g \in Lists("own"), s \in Shapes}
  \cup {[about |-> "coverage", ops |-> ops, variant |-> "vuln", files |-> <<f, g>>, alike |-> <<g, f>>] :
          ops \in Surfaces, f \in NotListed, g \in NotListed \cup Lists("finding")}
==============================================================================
