------------------------------ MODULE MCAnswerKey ------------------------------
(* One app: a source file with three bugs, a near-miss and an incidental entry *)
(* in it, a near-miss in a file of its own, and a bug of another protocol.     *)
EXTENDS AnswerKey

P == Lit("p")
Search == <<P, Lit("search")>>
ById   == <<P, Ph>>
Preview == <<Lit("preview")>>

Source == <<Lit("vuln"), Lit("p.ts")>>
OwnFile == <<Lit("vuln"), Lit("src"), Lit("app"), Lit("preview"), Lit("route.ts")>>

Line(tags, toks, d) == [tags |-> tags, toks |-> toks, def |-> "fn" \in toks, d |-> d]
Plain == Line({}, {}, "same")
File(p, lines) == [path |-> p, lines |-> lines, only |-> "", named |-> {}, infra |-> FALSE, plumbing |-> FALSE]

Tagged(d) == Line({"SQLI"}, {}, d)
Handler(d) == Line({}, {"fn", "byId"}, d)
Safe == Line({}, {"fn", "listSafe"}, "same")
Uses(t, d) == Line({}, {t}, d)

MCTrees ==
  {<<File(Source, <<Uses("byId", "same"), Tagged("same"), Plain, Line({}, {}, "changed"), Safe, Uses("listSafe", "same"),
                    Handler("changed"), Plain, Uses("search", "changed")>>), File(OwnFile, <<Plain>>)>>,
   <<File(Source, <<Safe, Tagged("changed"), Handler("followed"), Plain, Plain, Plain, Plain, Uses("search", "changed")>>),
     File(OwnFile, <<Line({}, {"fn", "preview"}, "same")>>)>>,
   <<File(Source, <<Handler("changed"), Tagged("changed"), Safe>>), File(OwnFile, <<Line({"IDOR"}, {}, "changed")>>)>>,
   <<File(Source, <<Line({}, {}, "preceded"), Uses("search", "changed"), Safe>>), File(OwnFile, <<Line({"FIX"}, {}, "changed")>>)>>}

Word(w, n, m) == [w |-> w, n |-> n, member |-> m]
Symbol(w) == <<Word("Posts", 5, FALSE), Word(w, 8, TRUE)>>

Step(v, p, parts) == <<[t |-> "verb", m |-> v, u |-> <<>>], [t |-> "path", m |-> NoVerb, u |-> [PathUrl(p) EXCEPT !.parts = parts]]>>
Then == <<[t |-> "word", m |-> NoVerb, u |-> <<>>]>>
Bare(p) == <<[t |-> "path", m |-> NoVerb, u |-> PathUrl(p)]>>
RouteOf(words) == [words |-> words, headers |-> {}]

Entry(id, cwe, words, routeWords, symbol, file) ==
  [id |-> id, cwe |-> cwe, family |-> NoFamily, aliases |-> {}, route |-> RouteOf(words), routeWords |-> routeWords,
   symbol |-> symbol, file |-> file, host |-> <<>>, port |-> NoPort, proto |-> "tcp", quoted |-> {},
   gql |-> {}, ws |-> {}, llm |-> {}, match |-> NoAnchors, discovery |-> "static-html",
   nearMiss |-> "", of |-> "", logic |-> {},
   human |-> NoAnchors @@ [route |-> RouteOf(words)]]

Sqli == [Entry("SQLI", 89, Step("GET", Search, <<>>) \o Then \o Step("POST", ById, <<>>), <<>>, <<>>, Source)
           EXCEPT !.nearMiss = "NM-LIST"]
Idor == [Entry("IDOR", 639, Step("GET", ById, <<>>), <<>>, Symbol("byId"), Source) EXCEPT !.discovery = "flow"]
Race == [Entry("RACE", 362, Bare(Search) \o Then \o Step("PUT", <<P>>, <<>>), <<Word("search", 6, TRUE)>>, Symbol("get"), Source)
           EXCEPT !.logic = LogicKeys, !.quoted = {[text |-> <<"RACE-MARKER">>, proof |-> TRUE, pattern |-> FALSE],
                              [text |-> <<"curl">>, proof |-> FALSE, pattern |-> FALSE]}]
Action == Entry("FORM", 352, Step("POST", <<P>>, <<[name |-> "action", value |-> "a"]>>), <<>>, <<>>, <<>>)
Graph == [Entry("GQL", 200, <<>>, <<>>, Symbol("post"), OwnFile) EXCEPT
            !.gql = {[op |-> {"post"}, kind |-> {"mutation"}, field |-> {}]}]
Health == [Entry("CORS", 942, Step("GET", <<Lit("api"), Lit("_verify")>>, <<>>), <<>>, <<>>, <<>>) EXCEPT
             !.quoted = {[text |-> <<"SECRET-*">>, proof |-> TRUE, pattern |-> TRUE]}]

Redis == [Entry("REDIS", 306, <<[t |-> "net", m |-> NoVerb, u |-> [host |-> <<"lab">>, port |-> 6379, proto |-> "tcp", state |-> ""]]>>,
                <<>>, <<>>, <<>>) EXCEPT !.discovery = "flow"]

MCBugs == <<Redis, Sqli, Idor, Race, Action, Graph, Health>>

ListSafe == [Entry("NM-LIST", NoCwe, <<>>, <<>>, Symbol("listSafe"), Source) EXCEPT !.of = "IDOR"]
OwnSafe  == Entry("NM-PREVIEW", NoCwe, <<>>, <<>>, <<>>, OwnFile)
Debug    == Entry("INC-DEBUG", 489, Step("GET", Search, <<>>), <<>>, <<>>, Source)

MCFirstKey == [bugs |-> <<Idor>>, nms |-> <<ListSafe, OwnSafe>>, incs |-> <<Debug>>]
MCFirstCatalog == <<>>

Route(recv, m, p) == [recv |-> recv, method |-> m, path |-> p]
MCApp ==
  [kind |-> "go",
   services |-> {[dir |-> <<>>, build |-> TRUE, ports |-> TRUE], [dir |-> <<Lit("sink")>>, build |-> TRUE, ports |-> FALSE]},
   files |-> <<[path |-> <<Lit("main.go")>>, dir |-> <<>>, verbs |-> <<>>,
                groups |-> <<[name |-> "api", parent |-> "r", prefix |-> <<P>>], [name |-> "list", parent |-> "api", prefix |-> <<Lit("list")>>]>>,
                routes |-> <<Route("r", NoVerb, Search), Route("list", "GET", <<Ph>>), Route("r", "GET", <<[Ph EXCEPT !.k = "typed"]>>),
                             Route("api", "GET", <<[Lit("a.css") EXCEPT !.k = "asset"]>>)>>],
               [path |-> <<Lit("sink.go")>>, dir |-> <<Lit("sink")>>, verbs |-> <<>>, groups |-> <<>>, routes |-> <<Route("r", "GET", <<Lit("in")>>)>>]>>,
   review |-> <<[method |-> "GET", path |-> <<P, Lit("list"), Ph>>, tier |-> "flow"]>>,
   remap |-> <<[id |-> "CORS", path |-> Search]>>,
   extra |-> <<[NewOp EXCEPT !.id = <<"ws", "handshake">>, !.kind = "ws", !.path = <<P>>, !.endpoint = TRUE, !.discovery = "flow"]>>]

MCHandOps ==
  {[NewOp EXCEPT !.id = <<"http", "hand">>, !.kind = "http", !.method = "GET", !.path = ById],
   [NewOp EXCEPT !.id = <<"http", "p", "search", "GET", 2>>, !.kind = "http", !.method = "GET", !.path = Search, !.discovery = "flow"],
   [NewOp EXCEPT !.id = <<"http", "fixed">>, !.kind = "http", !.method = "GET", !.path = Preview, !.vulns = {"IDOR"}, !.variant = "safe",
                  !.discovery = "flow"]}
==============================================================================
