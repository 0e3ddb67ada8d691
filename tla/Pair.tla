--------------------------------- MODULE Pair ---------------------------------
(***************************************************************************)
(* Which planted bug a reported finding may stand for (src/scorer/match.ts,*)
(* anchors.ts, schema/cwe.ts, normalize/guess.ts): a finding and an entry  *)
(* of the answer key are reduced to anchors, the anchors are compared, and *)
(* an admitted pair gets a tier, a score and a specificity.                *)
(*                                                                         *)
(* Weights are in quarters of the code's.  Names that are compared without *)
(* case are written in lower case.  A side has at most one anchor of each  *)
(* kind but http: an entry may have several of those, in order.            *)
(***************************************************************************)
EXTENDS Keys

NoCwe    == 0
NoFamily == "none"
None     == {}

\* FAMILIES, in order: a CWE listed twice keeps the first family.
Families ==
  <<<<"sqli", {89, 943, 564, 90}>>, <<"command-injection", {78, 94, 95, 917, 1336, 470}>>,
    <<"xss", {79, 80, 83, 87}>>, <<"traversal", {22, 98, 706, 23, 36, 73}>>, <<"ssrf", {918}>>,
    <<"xxe", {611, 776, 827}>>, <<"deserialization", {502, 494}>>,
    <<"object-mutation", {915, 1321, 1188}>>, <<"upload", {434, 646}>>,
    <<"authz", {862, 863, 285, 284, 639, 269, 288, 668, 807, 425, 566}>>,
    <<"authn", {287, 290, 306, 307, 384, 613, 640, 347, 345, 348, 302, 620}>>,
    <<"credentials", {798, 1392, 522, 321, 259, 260}>>,
    <<"info-leak", {200, 209, 532, 538, 540, 548, 598, 117, 215, 497, 651}>>,
    <<"csrf", {352, 1385, 1275}>>, <<"cors", {942, 346}>>, <<"open-redirect", {601}>>,
    <<"crypto", {327, 295, 319, 330, 338, 614, 326, 328, 916, 757}>>, <<"race", {362, 367, 366}>>,
    <<"dos", {400, 770, 674, 406, 405, 1050}>>, <<"proxy-desync", {436, 441, 444}>>,
    <<"cache", {349, 524, 525}>>, <<"logic", {840, 697, 184, 693, 625, 841}>>,
    <<"misconfig", {489, 1327, 1059, 16, 756, 1004}>>, <<"components", {1035, 1104, 1395, 937}>>,
    <<"enumeration", {204, 203, 208}>>, <<"prompt-injection", {1427, 1426}>>>>

GenericParents == {20, 74, 116, 664, 707, 710, 1215, 1287, 1284}

\* The CWE each keyword rule of guess.ts names, in the order they are tried.
Guesses ==
  <<89, 943, 78, 1336, 917, 94, 502, 1321, 915, 79, 611, 22, 98, 918, 601, 352, 1385, 942, 349,
    436, 639, 862, 269, 288, 306, 307, 384, 613, 640, 347, 204, 798, 1392, 522, 321, 540, 548, 538,
    209, 117, 532, 200, 489, 327, 295, 319, 330, 338, 614, 362, 434, 400, 770, 674, 841, 840, 1427,
    78, 200, 1104, 770>>

-----------------------------------------------------------------------------
(* CWEs. *)

CweFamily(c) ==
  LET i == SelectInSeq(Families, LAMBDA f : c \in f[2]) IN
  IF i = 0 THEN NoFamily ELSE Families[i][1]

\* cweCredit's weight: 4 exact or alias, 2 family, 1 generic.
CweCredit(got, g) ==
  IF got = NoCwe THEN 0
  ELSE IF got = g.cwe \/ got \in g.aliases THEN 4
  ELSE IF g.family # NoFamily /\ CweFamily(got) = g.family THEN 2
  ELSE IF got \in GenericParents THEN 1 ELSE 0

BestCredit(reported, g) == Max({0} \cup {CweCredit(c, g) : c \in reported})

\* What a title and tags name: an explicit id first, then the first rule they match.
GuessCwe(words) ==
  IF words.id # NoCwe THEN words.id
  ELSE IF words.rules = {} THEN NoCwe ELSE Guesses[Min(words.rules)]

-----------------------------------------------------------------------------
(* Anchors.  An entry of the answer key: [cwe, family, aliases, match,      *)
(* human], where match and human hold what the match: block declares and    *)
(* what the human fields say.                                               *)

NoAnchors == [http |-> <<>>, alts |-> <<>>, file |-> {}, net |-> {}, gql |-> {}, ws |-> {}, llm |-> {},
              markers |-> {}]

\* Keys in order, one with the path and verb of an earlier one left out.
AddKeys(keys, more) ==
  FoldLeft(LAMBDA ks, k : IF \E h \in ToSet(ks) : h.path = k.path /\ h.method = k.method
                          THEN ks ELSE Append(ks, k), keys, more)

FromMatch(m) ==
  [m EXCEPT !.http = AddKeys(m.http,
     [i \in DOMAIN m.alts |-> AltKey(m.alts[i], IF m.http = <<>> THEN NoVerb ELSE m.http[1].method)])]

\* The route's own key first, then each of its steps with its verb or the route's.
Inferred(h) ==
  LET parsed == ParseRoute(h.route)
      first  == SetToSeq(parsed.http)
      verb   == IF first = <<>> THEN NoVerb ELSE first[1].method
      steps  == RouteSteps(h.route) IN
  [h EXCEPT !.http = AddKeys(first, [i \in DOMAIN steps |->
                       HttpKeyFromUrl(steps[i].u, IF steps[i].m = NoVerb THEN verb ELSE steps[i].m)]),
            !.net  = IF parsed.net # {} THEN parsed.net ELSE h.net]

\* match: wins kind by kind; gaps fall back to inference.
GtAnchors(v) ==
  LET d == FromMatch(v.match)  i == Inferred(v.human)
      pick(a, b, none) == IF a # none THEN a ELSE b IN
  [cwe |-> v.cwe, aliases |-> v.aliases,
   family |-> IF v.family # NoFamily THEN v.family ELSE CweFamily(v.cwe),
   http |-> pick(d.http, i.http, <<>>), file |-> pick(d.file, i.file, None),
   net |-> pick(d.net, i.net, None), gql |-> pick(d.gql, i.gql, None),
   ws |-> pick(d.ws, i.ws, None), llm |-> pick(d.llm, i.llm, None),
   markers |-> pick(d.markers, i.markers, {})]

\* A near-miss: its match: block when that has a file or a route, and its own fields.
NearMissAnchors(nm) ==
  LET d == FromMatch(nm.match)
      a == IF d.file # None \/ d.http # <<>> THEN d ELSE NoAnchors IN
  [a EXCEPT !.file = IF a.file # None THEN a.file ELSE nm.human.file,
            !.http = IF a.http # <<>> THEN a.http ELSE SetToSeq(ParseRoute(nm.human.route).http)]

IsSourceOnly(a) == a.http = <<>> /\ a.net \cup a.gql \cup a.ws \cup a.llm = {}

\* An explicit param overrides what the URL happened to carry.
FindingKey(u, method, param) ==
  LET k == HttpKeyFromUrl(u, method) IN
  IF param = "" THEN k
  ELSE [k EXCEPT !.params = {param}, !.query = {q \in k.query : q[1] # param}]

-----------------------------------------------------------------------------
(* Comparisons.  Miss, or whether the hit is loose and what lined up. *)

Miss == [hit |-> FALSE, loose |-> FALSE, viaPh |-> FALSE, param |-> FALSE]

Names(q) == {p[1] : p \in q}

\* names: the headers the finding's request text names, or {"any"} where they are not asked.
HttpHit(gt, got, routes, names) ==
  LET strict == RoutedPathMatch(gt.path, got.path, FALSE, routes)
      folded == RoutedPathMatch(gt.path, got.path, TRUE, routes)
      path   == IF strict # "none" THEN strict ELSE folded
      reported == got.params \cup Names(got.query) IN
  IF \/ path = "none"
     \/ gt.port # NoPort /\ got.port # NoPort /\ gt.port # got.port
     \/ ~(gt.query \subseteq got.query)
     \/ names # {"any"} /\ ~(gt.headers \subseteq got.params \cup names)
     \/ gt.params # {} /\ reported # {} /\ gt.params \cap reported = {}
  THEN Miss
  ELSE [hit   |-> TRUE,
        loose |-> strict = "none" \/ (gt.method # NoVerb /\ got.method # NoVerb /\ gt.method # got.method),
        viaPh |-> path = "param",
        param |-> gt.params \cap reported # {}]

\* Text as the sequence of its parts: the one occurs in the other.
Within(a, b)  == \E i, j \in 1..Len(b) : SubSeq(b, i, j) = a
Overlap(a, b) == Within(a, b) \/ Within(b, a)

NetHit(g, f) ==
  IF g.port = NoPort \/ f.port # g.port \/ ~IsOpenState(f.state) \/ g.proto # f.proto THEN Miss
  ELSE [Miss EXCEPT !.hit = TRUE,
          !.loose = g.host # <<>> /\ f.host # <<>> /\ ~Overlap(g.host, f.host)]

\* A name of a finding answers one of the key's: the same words, or one's among the other's.
Agrees(a, b) == a # {} /\ b # {} /\ a = b

GqlHit(g, f) == (Agrees(g.op, f.field) \/ SymbolMatches(g.op, f.op))
                /\ (g.kind = {} \/ f.kind = {} \/ g.kind = f.kind)

WsParts == {"channel", "event", "endpoint"}
WsHit(g, f) ==
  /\ g["transport"] = {} \/ f["transport"] = {} \/ g["transport"] = f["transport"]
  /\ \A k \in WsParts : g[k] = f[k]
  /\ \A s \in {g, f} : \E k \in WsParts \cup {"transport"} : s[k] # {}

LlmHit(g, f) == SymbolMatches(g.tool, f.tool) \/ Agrees(g.channel, f.channel)

ApiHit(g, f) ==
  \/ \E x \in g.gql, y \in f.gql : GqlHit(x, y)
  \/ \E x \in g.ws, y \in f.ws : WsHit(x, y)
  \/ \E x \in g.llm, y \in f.llm : LlmHit(x, y)

LineTolerance == 2
Fine == {"symbol", "exact", "near"}

\* How a file anchor lines up: "symbol", "exact", "near" (within the tolerance only),
\* "outside" or "file"; "none" is no hit.  lines is {} or the set of lines.
SourceHit(g, f) ==
  LET pairs == {p \in g.file \X f.file : FileMatches(p[1].path, p[2].path)} IN
  IF pairs = {} THEN "none"
  ELSE LET p == CHOOSE p \in pairs : TRUE  a == p[1]  b == p[2] IN
       IF SymbolMatches(a.symbol, b.symbol) THEN "symbol"
       ELSE IF a.lines = {} \/ b.lines = {} THEN "file"
       ELSE IF a.lines \cap b.lines # {} THEN "exact"
       ELSE IF \E x \in a.lines, y \in b.lines : x - y \in (-LineTolerance)..LineTolerance THEN "near"
       ELSE "outside"

\* Do the anchors of one side rule the other out?
Contradicts(g, f, routes) ==
  \/ /\ g.http # <<>> /\ f.http # <<>>
     /\ \A i \in DOMAIN g.http, j \in DOMAIN f.http : ~HttpHit(g.http[i], f.http[j], routes, {"any"}).hit
  \/ g.net # {} /\ f.net # {} /\ \A x \in g.net, y \in f.net : ~NetHit(x, y).hit
  \/ g.file # {} /\ f.file # {} /\ f.http = <<>>
     /\ \A x \in g.file, y \in f.file : ~FileMatches(x.path, y.path)

Shared(g, f) == \E m \in g.markers, x \in f.markers : Overlap(m, x)

-----------------------------------------------------------------------------
(* One pair. *)

Tiers == [proof |-> 24, route |-> 20, net |-> 20, api |-> 16, source |-> 16, weak |-> 4]

Rank(v) == IF ~v.hit THEN -1 ELSE (IF v.loose THEN 0 ELSE 2) + (IF v.viaPh THEN 0 ELSE 1)

\* The most precise http hit, the first of equals.
BestOf(hits) ==
  LET best == {p \in DOMAIN hits : hits[p].hit /\ \A q \in DOMAIN hits : Rank(hits[q]) <= Rank(hits[p])} IN
  IF best = {} THEN Miss
  ELSE hits[CHOOSE p \in best : \A q \in best : p[1] < q[1] \/ (p[1] = q[1] /\ p[2] <= q[2])]

BestHttp(g, f, routes) ==
  LET names == IF \E i \in DOMAIN g.http : g.http[i].headers # {} THEN f.names ELSE {"any"} IN
  BestOf([p \in (DOMAIN g.http) \X (DOMAIN f.http) |-> HttpHit(g.http[p[1]], f.http[p[2]], routes, names)])

\* The promotion order: net only upgrades a weak verdict, api and source only what is
\* weaker than they are.
Promoted(proof, http, net, api, src) ==
  LET t1 == IF proof THEN "proof" ELSE IF http.hit /\ ~http.loose THEN "route"
            ELSE IF net.hit THEN (IF net.loose THEN "weak" ELSE "net")
            ELSE IF http.hit THEN "weak" ELSE "none"
      t2 == IF api /\ t1 \in {"none", "weak"} THEN "api" ELSE t1 IN
  IF src \in Fine /\ t2 \in {"none", "weak"} THEN "source"
  ELSE IF src # "none" /\ t2 = "none" THEN "weak" ELSE t2

BestNet(hits) == IF hits = {} THEN Miss ELSE CHOOSE v \in hits : TRUE

\* Proof leaves http unasked.
Judged(tier, http, api, src, marker) ==
  [tier |-> tier, loose |-> tier = "weak", viaPh |-> tier # "proof" /\ http.viaPh,
   param |-> tier # "proof" /\ http.param, api |-> api, src |-> src, fine |-> src \in Fine, marker |-> marker]

Compared(marker, proof, http, net, api, src) ==
  Judged(Promoted(proof, http, net, api, src), http, api, src, marker)

Verdict(g, f, routes) ==
  Compared(Shared(g, f), Shared(g, f) /\ ~Contradicts(g, f, routes), BestHttp(g, f, routes),
           BestNet({NetHit(x, y) : x \in g.net, y \in f.net}), ApiHit(g, f), SourceHit(g, f))

Bonus(b, n) == IF b THEN n ELSE 0

Score(v, f, credit) ==
  Tiers[v.tier] + 2 * credit + Bonus(v.marker, 4) + Bonus(f.exploited, 2) + Bonus(v.param, 2)
  + Bonus(v.src = "symbol", 2) + Bonus(v.src \in {"exact", "near"}, 2) + Bonus(v.api, 2) + Bonus(v.fine, 1)
  - Bonus(v.loose, 2) - Bonus(v.viaPh, 2)

\* How precisely the anchors line up, the CWE left out.
Spec(v, credit) ==
  Tiers[v.tier] + Bonus(v.src = "exact", 4) + Bonus(v.src = "symbol", 2) + Bonus(v.param, 2)
  + Bonus(v.marker, 4) - Bonus(v.loose, 4) - Bonus(v.viaPh, 2)

NoPair == [tier |-> "none", score |-> 0, spec |-> 0, credit |-> 0, unclassified |-> FALSE]

\* What the finding claims must be compatible with the bug, except where it is proven;
\* on a route its silence is filled in from its own words (guess).
Admit(v, credit, guess, f, g, lenient) ==
  LET claimed == f.cwes # {}
      asked   == v.tier # "proof" /\ ~lenient
      silent  == asked /\ ~claimed /\ v.tier = "route" IN
  IF \/ v.tier = "none"
     \/ asked /\ claimed /\ credit = 0
     \/ asked /\ ~claimed /\ v.tier = "weak"
     \/ silent /\ guess # NoCwe /\ BestCredit({guess}, g) = 0
  THEN NoPair
  ELSE [tier |-> v.tier, score |-> Score(v, f, credit), spec |-> Spec(v, credit), credit |-> credit,
        unclassified |-> silent /\ guess = NoCwe]

PairFor(f, g, lenient, routes) ==
  Admit(Verdict(g, f, routes), BestCredit(f.cwes, g), GuessCwe(f.words), f, g, lenient)
=============================================================================
