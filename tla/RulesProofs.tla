----------------------------- MODULE RulesProofs -----------------------------
(***************************************************************************)
(* What module Rules promises of every question, proved: the path          *)
(* comparison, the pairing of a finding at a route the app serves, a        *)
(* catalog no two of whose operations a report takes for one another, what  *)
(* reading a report keeps, that neither the order nor the shape of the      *)
(* reports tells, what is left in an image and of a stripped file, and how  *)
(* the coverage track splits the misses.  Then what module AnswerKey        *)
(* promises of every step: a key on which every check is green and whose    *)
(* lines have one owner each, and a catalog that loses nothing.             *)
(***************************************************************************)
EXTENDS Rules, AnswerKey, StripProofs, FiniteSetTheorems, TLAPS

\* The two passes.
StrictMatch(p, q, routes)  == RoutedPathMatch(p, q, FALSE, routes)
FoldingMatch(p, q, routes) == RoutedPathMatch(p, q, TRUE, routes)

\* What a path is made of ("" is named for the provers' sake).
Segment == [k : {"lit", "id", "ph", "star", "deep"}, n : STRING \cup {""}, up : BOOLEAN]

-----------------------------------------------------------------------------
(* Paths without a placeholder, a glob or an id. *)

LEMMA VerbatimKey ==
  ASSUME NEW p \in Seq(Segment), Verbatim(p)
  PROVE  TemplatePath(p) = p
<1>1. \A i \in DOMAIN p : TemplateSegment(p[i]) = p[i]
  BY DEF Verbatim, TemplateSegment
<1> QED
  BY <1>1 DEF TemplatePath

LEMMA VerbatimFits ==
  ASSUME NEW p \in Seq(Segment), Verbatim(p), NEW q \in Seq(Segment)
  PROVE  Fits(p, q) <=> p = q
<1>1. ~(p # <<>> /\ p[Len(p)].k = "deep")
  <2>1. p # <<>> => Len(p) \in DOMAIN p
    OBVIOUS
  <2> QED
    BY <2>1 DEF Verbatim
<1>2. ASSUME NEW i \in 1..Len(p) PROVE SegmentFits(p[i], q[i]) <=> p[i] = q[i]
  BY DEF SegmentFits, Verbatim
<1>3. Fits(p, q) <=> Len(q) = Len(p) /\ \A i \in 1..Len(p) : p[i] = q[i]
  BY <1>1, <1>2, Zenon DEF Fits
<1> QED
  BY <1>3

LEMMA SameFits ==
  ASSUME NEW p \in Seq(Segment), Verbatim(p)
  PROVE  Fits(p, p)
BY VerbatimFits

\* Case and a trailing slash are folded away; what is left is verbatim still.
LEMMA LooseKey ==
  ASSUME NEW p \in Seq(Segment), Verbatim(p)
  PROVE  PathKeyLoose(p) \in Seq(Segment) /\ Verbatim(PathKeyLoose(p))
<1> DEFINE c == FoldCase(p)
<1>1. c \in Seq(Segment) /\ Len(c) = Len(p) /\ \A i \in 1..Len(p) : c[i] = [p[i] EXCEPT !.up = FALSE]
  <2>1. ASSUME NEW t \in Segment PROVE [t EXCEPT !.up = FALSE] \in Segment
    BY DEF Segment
  <2>2. c = [i \in 1..Len(p) |-> [p[i] EXCEPT !.up = FALSE]]
    BY DEF FoldCase
  <2> HIDE DEF c
  <2>3. c \in Seq(Segment) /\ Len(c) = Len(p)
    BY <2>1, <2>2
  <2> QED
    BY <2>1, <2>2, <2>3
<1>2. \A i \in 1..Len(p) : c[i].k = "lit"
  <2> HIDE DEF c
  <2>1. \A i \in 1..Len(p) : p[i] \in Segment /\ p[i].k = "lit"
    BY DEF Verbatim
  <2>2. \A i \in 1..Len(p) : [p[i] EXCEPT !.up = FALSE].k = "lit"
    BY <2>1 DEF Segment
  <2> QED
    BY <1>1, <2>2
<1>3. DropSlash(c) \in Seq(Segment) /\ Verbatim(DropSlash(c))
  <2> HIDE DEF c
  <2>1. CASE Len(c) > 1 /\ c[Len(c)] = Empty
    <3>1. DropSlash(c) = SubSeq(c, 1, Len(c) - 1)
      BY <2>1 DEF DropSlash
    <3>2. /\ SubSeq(c, 1, Len(c) - 1) \in Seq(Segment)
          /\ \A i \in DOMAIN SubSeq(c, 1, Len(c) - 1) : i \in 1..Len(p) /\ SubSeq(c, 1, Len(c) - 1)[i] = c[i]
      BY <1>1, <2>1
    <3> QED
      BY <1>2, <3>1, <3>2 DEF Verbatim
  <2>2. CASE ~(Len(c) > 1 /\ c[Len(c)] = Empty)
    BY <1>1, <1>2, <2>2 DEF DropSlash, Verbatim
  <2> QED
    BY <2>1, <2>2
<1> QED
  BY <1>3, VerbatimKey DEF PathKeyLoose

\* The strict pass compares what is written; the folding pass takes in what it takes.
LEMMA VerbatimPathMatch ==
  ASSUME NEW p \in Seq(Segment), Verbatim(p), NEW q \in Seq(Segment), Verbatim(q), NEW routes
  PROVE  /\ StrictMatch(p, q, routes) = IF p = q THEN "exact" ELSE "none"
         /\ p = q => FoldingMatch(p, q, routes) = "exact"
<1>1. PathKey(p, FALSE) = p /\ PathKey(q, FALSE) = q
  BY VerbatimKey DEF PathKey, PathKeyStrict
<1>2. ~\E i \in DOMAIN p : p[i].k = "ph"
  BY DEF Verbatim
<1>3. PathMatch(p, q, FALSE) = IF p = q THEN "exact" ELSE "none"
  BY <1>1, <1>2, VerbatimFits DEF PathMatch
<1>4. p = q => PathMatch(p, q, TRUE) = "exact"
  BY LooseKey, SameFits DEF PathMatch, PathKey
<1> QED
  BY <1>3, <1>4 DEF StrictMatch, FoldingMatch, RoutedPathMatch

-----------------------------------------------------------------------------
(* Every answer is one to the question that was asked. *)

\* What is told is told of the kind that was asked about.
LEMMA OwnKind ==
  /\ AnswerPath => told'.is = "path"
  /\ AnswerPair => told'.is = "pair"
  /\ AnswerCatalog => told'.is = "catalog"
  /\ AnswerTrack => told'.is = "track"
  /\ AnswerStrip => told'.is = "strip"
  /\ AnswerImage => told'.is = "image"
  /\ AnswerReport => told'.is = "report"
  /\ AnswerCoverage => told'.is = "coverage"
<1>0. AnswerPath => \E x, y : told' = [is |-> "path", strict |-> x, folded |-> y]
  BY Zenon DEF AnswerPath
<1>1. AnswerPair => \E x : told' = [is |-> "pair", pair |-> x]
  BY Zenon DEF AnswerPair
<1>2. AnswerCatalog => \E x, y : told' = [is |-> "catalog", valid |-> x, apart |-> y]
  BY Zenon DEF AnswerCatalog
<1>3. AnswerTrack => \E x : told' = [is |-> "track", track |-> x]
  BY Zenon DEF AnswerTrack
<1>4. AnswerStrip => \E x : told' = [is |-> "strip", lines |-> x]
  BY Zenon DEF AnswerStrip
<1>5. AnswerImage => \E x, y : told' = [is |-> "image", image |-> x, passes |-> y]
  BY Zenon DEF AnswerImage
<1>6. AnswerReport => \E x, y, z : told' = [is |-> "report", first |-> x, run |-> y, again |-> z]
  BY Zenon DEF AnswerReport
<1>7. AnswerCoverage => \E x : told' = [is |-> "coverage", covered |-> x]
  BY Zenon DEF AnswerCoverage
<1> QED
  BY <1>0, <1>1, <1>2, <1>3, <1>4, <1>5, <1>6, <1>7

PathAnswer ==
  /\ ask \in Questions
  /\ told.is = "path" =>
       /\ ask.about = "path"
       /\ told = [is |-> "path", strict |-> StrictMatch(ask.gt, ask.found, ask.routes),
                  folded |-> FoldingMatch(ask.gt, ask.found, ask.routes)]

LEMMA PathAnswered == RulesSpec => []PathAnswer
<1>1. RulesInit => PathAnswer
  BY DEF RulesInit, PathAnswer, NotTold
<1>2. PathAnswer /\ [RulesNext]_rvars => PathAnswer'
  <2> SUFFICES ASSUME PathAnswer, [RulesNext]_rvars PROVE PathAnswer'
    OBVIOUS
  <2>1. CASE AnswerPath /\ UNCHANGED ask
    BY <2>1, Zenon DEF AnswerPath, PathAnswer, StrictMatch, FoldingMatch
  <2>2. ASSUME told'.is # "path", UNCHANGED ask PROVE PathAnswer'
    BY <2>2 DEF PathAnswer
  <2>3. CASE UNCHANGED rvars
    BY <2>3 DEF rvars, PathAnswer
  <2>4. AnswerPair \/ AnswerCatalog \/ AnswerTrack \/ AnswerStrip \/ AnswerImage \/ AnswerReport \/ AnswerCoverage
        => told'.is # "path"
    BY OwnKind
  <2> QED
    BY <2>1, <2>2, <2>3, <2>4 DEF RulesNext
<1> QED
  BY <1>1, <1>2, PTL DEF RulesSpec

\* Between two paths without a placeholder or an id, however long, the strict pass of
\* pathMatch (keys.ts) sees one path exactly when they are equal, and what it sees the
\* folding pass sees too.
THEOREM VerbatimStaysVerbatim ==
  ASSUME \A q \in Questions : q.about = "path" => q.gt \in Seq(Segment) /\ q.found \in Seq(Segment)
  PROVE  RulesSpec => []StrictNeverFolds
<1>1. PathAnswer => StrictNeverFolds
  <2> SUFFICES ASSUME PathAnswer, told.is = "path", Verbatim(ask.gt), Verbatim(ask.found)
               PROVE  /\ told.strict = "exact" <=> ask.gt = ask.found
                      /\ told.strict # "param" /\ (told.strict = "exact" => told.folded = "exact")
    BY DEF StrictNeverFolds
  <2>1. ask.gt \in Seq(Segment) /\ ask.found \in Seq(Segment)
    BY DEF PathAnswer
  <2>2. /\ told.strict = StrictMatch(ask.gt, ask.found, ask.routes)
        /\ told.folded = FoldingMatch(ask.gt, ask.found, ask.routes)
    BY DEF PathAnswer
  <2> QED
    BY <2>1, <2>2, VerbatimPathMatch
<1> QED
  BY <1>1, PathAnswered, PTL
-----------------------------------------------------------------------------
(* A static route owns its path. *)

LEMMA TemplateIsPath == ASSUME NEW p \in Seq(Segment) PROVE TemplatePath(p) \in Seq(Segment)
<1>1. ASSUME NEW t \in Segment PROVE TemplateSegment(t) \in Segment
  <2>1. Id \in Segment
    BY DEF Id, Segment
  <2> QED
    BY <2>1 DEF TemplateSegment
<1> QED
  BY <1>1 DEF TemplatePath

\* What a verbatim route matches exactly, it matches exactly when case is folded too.
LEMMA StaticFolds ==
  ASSUME NEW r \in Seq(Segment), Verbatim(r), NEW q \in Seq(Segment), PathMatch(r, q, FALSE) = "exact"
  PROVE  PathMatch(r, q, TRUE) = "exact"
<1>1. TemplatePath(r) = r
  BY VerbatimKey
<1>2. Fits(r, TemplatePath(q))
  BY <1>1 DEF PathMatch, PathKey, PathKeyStrict
<1>3. TemplatePath(q) = r
  BY <1>2, TemplateIsPath, VerbatimFits
<1>4. PathKey(r, TRUE) = PathKeyLoose(r) /\ PathKey(q, TRUE) = PathKeyLoose(r)
  BY <1>1, <1>3 DEF PathKey, PathKeyLoose
<1> QED
  BY <1>4, LooseKey, SameFits DEF PathMatch

\* The router's precedence leaves a placeholder nothing of a path that is routed statically.
LEMMA Owned ==
  ASSUME NEW routes, NEW r \in routes, r \in Seq(Segment), Verbatim(r), NEW q \in Seq(Segment),
         PathMatch(r, q, FALSE) = "exact",
         NEW p, PathMatch(p, q, FALSE) # "exact", PathMatch(p, q, TRUE) # "exact"
  PROVE  StrictMatch(p, q, routes) = "none" /\ FoldingMatch(p, q, routes) = "none"
<1>1. PathMatch(r, q, TRUE) = "exact"
  BY StaticFolds
<1>2. PathMatch(p, q, FALSE) \in {"param", "none"} /\ PathMatch(p, q, TRUE) \in {"param", "none"}
  BY DEF PathMatch
<1> QED
  BY <1>1, <1>2 DEF StrictMatch, FoldingMatch, RoutedPathMatch

LEMMA NoHit ==
  ASSUME NEW gt, NEW got, NEW routes, NEW names,
         StrictMatch(gt.path, got.path, routes) = "none", FoldingMatch(gt.path, got.path, routes) = "none"
  PROVE  HttpHit(gt, got, routes, names) = Miss
BY DEF HttpHit, StrictMatch, FoldingMatch

LEMMA NoBest ==
  ASSUME NEW f, NEW g, NEW routes,
         \A names : \A i \in DOMAIN g.http, j \in DOMAIN f.http : HttpHit(g.http[i], f.http[j], routes, names) = Miss
  PROVE  BestHttp(g, f, routes) = Miss
<1> DEFINE names == IF \E i \in DOMAIN g.http : g.http[i].headers # {} THEN f.names ELSE {"any"}
           hits  == [p \in (DOMAIN g.http) \X (DOMAIN f.http) |-> HttpHit(g.http[p[1]], f.http[p[2]], routes, names)]
           best  == {p \in DOMAIN hits : hits[p].hit /\ \A q \in DOMAIN hits : Rank(hits[q]) <= Rank(hits[p])}
<1>1. \A p \in DOMAIN hits : hits[p] = Miss
  <2> HIDE DEF names
  <2> QED
    OBVIOUS
<1>2. best = {}
  <2> HIDE DEF hits
  <2> QED
    BY <1>1 DEF Miss
<1> QED
  BY <1>2, Zenon DEF BestHttp, BestOf

LEMMA NothingLinesUp ==
  ASSUME NEW f, NEW g, NEW routes, OnlyByPath(f), g.http # <<>>,
         \A names : \A i \in DOMAIN g.http, j \in DOMAIN f.http : HttpHit(g.http[i], f.http[j], routes, names) = Miss
  PROVE  Verdict(g, f, routes).tier = "none"
<1>1. f.http # <<>> /\ f.file = {} /\ f.net = {} /\ f.gql = {} /\ f.ws = {} /\ f.llm = {}
  BY DEF OnlyByPath
<1>2. BestHttp(g, f, routes) = Miss
  BY NoBest
<1>3. Contradicts(g, f, routes)
  <2>1. \A i \in DOMAIN g.http, j \in DOMAIN f.http : ~HttpHit(g.http[i], f.http[j], routes, {"any"}).hit
    <3>1. ~Miss.hit
      BY DEF Miss
    <3> QED
      BY <3>1, Zenon
  <2> QED
    BY <1>1, <2>1 DEF Contradicts
<1>4. BestNet({NetHit(x, y) : x \in g.net, y \in f.net}) = Miss
  BY <1>1 DEF BestNet
<1>5. ~ApiHit(g, f)
  BY <1>1 DEF ApiHit
<1>6. SourceHit(g, f) = "none"
  <2>1. {p \in g.file \X f.file : FileMatches(p[1].path, p[2].path)} = {}
    BY <1>1
  <2> QED
    BY <2>1, Zenon DEF SourceHit
<1>7. ASSUME NEW proof, ~proof, NEW api, ~api PROVE Promoted(proof, Miss, Miss, api, "none") = "none"
  BY <1>7 DEF Promoted, Miss, Fine
<1>8. Verdict(g, f, routes) =
        Judged(Promoted(Shared(g, f) /\ ~Contradicts(g, f, routes), Miss, Miss, ApiHit(g, f), "none"),
               Miss, ApiHit(g, f), "none", Shared(g, f))
  BY <1>2, <1>4, <1>6 DEF Verdict, Compared
<1>9. Promoted(Shared(g, f) /\ ~Contradicts(g, f, routes), Miss, Miss, ApiHit(g, f), "none") = "none"
  BY <1>3, <1>5, <1>7, Zenon
<1> QED
  BY <1>8, <1>9 DEF Judged

StrictPair(f, g, routes) == PairFor(f, g, FALSE, routes)

PairAnswer ==
  /\ ask \in Questions
  /\ told.is = "pair" => ask.about = "pair" /\ told = [is |-> "pair", pair |-> StrictPair(ask.f, ask.g, ask.routes)]

LEMMA PairAnswered == RulesSpec => []PairAnswer
<1>1. RulesInit => PairAnswer
  BY DEF RulesInit, PairAnswer, NotTold
<1>2. PairAnswer /\ [RulesNext]_rvars => PairAnswer'
  <2> SUFFICES ASSUME PairAnswer, [RulesNext]_rvars PROVE PairAnswer'
    OBVIOUS
  <2>1. CASE AnswerPair /\ UNCHANGED ask
    BY <2>1, Zenon DEF AnswerPair, PairAnswer, StrictPair
  <2>2. ASSUME told'.is # "pair", UNCHANGED ask PROVE PairAnswer'
    BY <2>2 DEF PairAnswer
  <2>3. CASE UNCHANGED rvars
    BY <2>3 DEF rvars, PairAnswer
  <2>4. AnswerPath \/ AnswerCatalog \/ AnswerTrack \/ AnswerStrip \/ AnswerImage \/ AnswerReport \/ AnswerCoverage
        => told'.is # "pair"
    BY OwnKind
  <2> QED
    BY <2>1, <2>2, <2>3, <2>4 DEF RulesNext
<1> QED
  BY <1>1, <1>2, PTL DEF RulesSpec

LEMMA NothingAdmitted ==
  ASSUME NEW f, NEW g, NEW routes, Verdict(g, f, routes).tier = "none"
  PROVE  StrictPair(f, g, routes) = NoPair
BY DEF StrictPair, PairFor, Admit

LEMMA OwnedPair ==
  ASSUME NEW f, NEW g, NEW routes, routes \subseteq Seq(Segment),
         \A j \in DOMAIN f.http : f.http[j].path \in Seq(Segment),
         OnlyByPath(f), g.http # <<>>,
         \A j \in DOMAIN f.http :
           /\ \E r \in routes : Verbatim(r) /\ PathMatch(r, f.http[j].path, FALSE) = "exact"
           /\ \A i \in DOMAIN g.http, loose \in BOOLEAN :
                PathMatch(g.http[i].path, f.http[j].path, loose) # "exact"
  PROVE  StrictPair(f, g, routes) = NoPair
<1>1. ASSUME NEW i \in DOMAIN g.http, NEW j \in DOMAIN f.http, NEW names
      PROVE  HttpHit(g.http[i], f.http[j], routes, names) = Miss
  <2>1. PICK r \in routes : Verbatim(r) /\ PathMatch(r, f.http[j].path, FALSE) = "exact"
    OBVIOUS
  <2>2. /\ PathMatch(g.http[i].path, f.http[j].path, FALSE) # "exact"
        /\ PathMatch(g.http[i].path, f.http[j].path, TRUE) # "exact"
    OBVIOUS
  <2> QED
    BY <2>1, <2>2, Owned, NoHit
<1>2. \A names : \A i \in DOMAIN g.http, j \in DOMAIN f.http : HttpHit(g.http[i], f.http[j], routes, names) = Miss
  BY <1>1
<1>3. Verdict(g, f, routes).tier = "none"
  BY <1>2, NothingLinesUp, Zenon
<1> QED
  BY <1>3, NothingAdmitted

\* For every route table, entry and finding: a finding that has nothing but requests, all at
\* paths the table routes statically, pairs with no entry that has an http anchor and spells
\* none of those paths (routedPathMatch in keys.ts, pairFor in match.ts).
THEOREM RouterKeepsItsPaths ==
  ASSUME \A q \in Questions : q.about = "pair" =>
           q.routes \subseteq Seq(Segment) /\ \A j \in DOMAIN q.f.http : q.f.http[j].path \in Seq(Segment)
  PROVE  RulesSpec => []StaticRouteOwnsPath
<1>1. PairAnswer => StaticRouteOwnsPath
  <2> SUFFICES ASSUME PairAnswer, told.is = "pair", OnlyByPath(ask.f), ask.g.http # <<>>,
                      \A j \in DOMAIN ask.f.http :
                        /\ \E r \in ask.routes : Verbatim(r) /\ PathMatch(r, ask.f.http[j].path, FALSE) = "exact"
                        /\ \A i \in DOMAIN ask.g.http, loose \in BOOLEAN :
                             PathMatch(ask.g.http[i].path, ask.f.http[j].path, loose) # "exact"
               PROVE  told.pair = NoPair
    BY DEF StaticRouteOwnsPath
  <2>1. /\ told.pair = StrictPair(ask.f, ask.g, ask.routes) /\ ask.routes \subseteq Seq(Segment)
        /\ \A j \in DOMAIN ask.f.http : ask.f.http[j].path \in Seq(Segment)
    BY DEF PairAnswer
  <2>2. StrictPair(ask.f, ask.g, ask.routes) = NoPair
    BY <2>1, OwnedPair, Zenon
  <2> QED
    BY <2>1, <2>2
<1> QED
  BY <1>1, PairAnswered, PTL

-----------------------------------------------------------------------------
(* The pass an operation is credited with is the best of any report. *)

PassNames == {"none", "loose", "strict"}

LEMMA WeakestIsPass == ASSUME NEW S PROVE Weakest(S) \in PassNames
BY DEF Weakest, PassNames

LEMMA PathPassIsPass == ASSUME NEW p, NEW q, NEW routes PROVE PathPass(p, q, routes) \in PassNames
BY DEF PathPass, PassNames

LEMMA NamePassIsPass == ASSUME NEW a, NEW b PROVE NamePass(a, b) \in PassNames
BY DEF NamePass, PassNames

LEMMA OnlyIsPass == ASSUME NEW b, NEW x \in PassNames PROVE Only(b, x) \in PassNames
BY DEF Only, PassNames

LEMMA HttpIsPass == ASSUME NEW o, NEW r, NEW routes PROVE HttpReaches(o, r, routes) \in PassNames
BY OnlyIsPass, WeakestIsPass, Zenon DEF HttpReaches

LEMMA GraphqlIsPass == ASSUME NEW o, NEW r PROVE GraphqlReaches(o, r) \in PassNames
BY OnlyIsPass, NamePassIsPass, Zenon DEF GraphqlReaches

LEMMA WsIsPass == ASSUME NEW o, NEW r PROVE WsReaches(o, r) \in PassNames
<1> DEFINE endpoint == IF o.path = <<>> THEN "strict" ELSE IF r.path = <<>> THEN "loose" ELSE PathPass(o.path, r.path, {})
<1>1. endpoint \in PassNames
  BY PathPassIsPass DEF PassNames
<1>2. Only(r.event = Unspelt, endpoint) \in PassNames
  BY <1>1, OnlyIsPass, Zenon
<1>3. WsReaches(o, r) =
        Only(/\ o.namespace \in {"", Or(r.namespace, "/")}
             /\ Compatible(o.channel, r.channel) /\ (o.channel # "" => r.channel # ""),
             IF o.event = Unspelt THEN Only(r.event = Unspelt, endpoint)
             ELSE Weakest({endpoint, NamePass(o.event, r.event)}))
  BY Zenon DEF WsReaches
<1> HIDE DEF endpoint
<1> QED
  BY <1>2, <1>3, OnlyIsPass, WeakestIsPass, Zenon

LEMMA LlmIsPass == ASSUME NEW o, NEW r PROVE LlmReaches(o, r) \in PassNames
<1>1. "strict" \in PassNames
  BY DEF PassNames
<1> QED
  BY <1>1, OnlyIsPass, NamePassIsPass, Zenon DEF LlmReaches

LEMMA NetIsPass == ASSUME NEW o, NEW r PROVE NetReaches(o, r) \in PassNames
<1>1. \A b : Loosely(b) \in PassNames
  BY DEF Loosely, PassNames
<1> QED
  BY <1>1, OnlyIsPass, Zenon DEF NetReaches

LEMMA MatchIsPass ==
  ASSUME NEW o, NEW r, NEW routes
  PROVE  OpMatches(o, r, routes) \in PassNames /\ (RefKind(r) = "none" => OpMatches(o, r, routes) = "none")
<1>1. "none" \in PassNames
  BY DEF PassNames
<1> QED
  BY <1>1, HttpIsPass, GraphqlIsPass, WsIsPass, LlmIsPass, NetIsPass DEF OpMatches

\* What a report pays for an operation, and what the operation is credited with after i.
Pays(o, r, routes) == IF RefKind(r) = "none" THEN "none" ELSE OpMatches(o, r, routes)

Ledger(paid, o, reported, routes) ==
  paid = [i \in 0..Len(reported) |-> IF i = 0 THEN "none"
                                    ELSE IF RefKind(reported[i]) = "none" THEN paid[i - 1]
                                    ELSE Credit(paid[i - 1], OpMatches(o, reported[i], routes))]

LEMMA LedgerPays ==
  ASSUME NEW o, NEW reported, NEW routes, NEW paid, Ledger(paid, o, reported, routes), Len(reported) \in Nat
  PROVE  /\ paid[0] = "none"
         /\ \A i \in 1..Len(reported) : paid[i] = Credit(paid[i - 1], Pays(o, reported[i], routes))
<1>1. paid[0] = "none"
  BY DEF Ledger
<1>2. ASSUME NEW i \in 1..Len(reported) PROVE paid[i] = Credit(paid[i - 1], Pays(o, reported[i], routes))
  <2>1. paid[i] = IF RefKind(reported[i]) = "none" THEN paid[i - 1]
                  ELSE Credit(paid[i - 1], OpMatches(o, reported[i], routes))
    BY DEF Ledger
  <2> QED
    BY <2>1 DEF Pays, Credit
<1> QED
  BY <1>1, <1>2

\* Such a ledger can be kept for as long as one likes.
LEMMA LedgerExists ==
  ASSUME NEW o, NEW reported, NEW routes, Len(reported) \in Nat
  PROVE  \E paid : Ledger(paid, o, reported, routes)
<1> DEFINE Kept(paid, n) ==
             paid = [i \in 0..n |-> IF i = 0 THEN "none" ELSE Credit(paid[i - 1], Pays(o, reported[i], routes))]
           Never == {n \in Nat : ~\E paid : Kept(paid, n)}
<1>1. Never = {}
  <2> SUFFICES ASSUME Never # {} PROVE FALSE
    OBVIOUS
  <2>1. PICK m \in Never : \A n \in Never : m <= n
    <3> HIDE DEF Never
    <3>1. Never \subseteq Nat
      BY DEF Never
    <3> QED
      BY <3>1, Least
  <2>2. CASE m = 0
    <3>1. Kept([i \in 0..0 |-> "none"], 0)
      OBVIOUS
    <3> QED
      BY <2>2, <3>1
  <2>3. CASE m # 0
    <3>0. m \in Nat
      BY DEF Never
    <3>1. m - 1 \in Nat \ Never
      <4> HIDE DEF Never
      <4> QED
        BY <2>1, <2>3, <3>0
    <3>2. PICK paid : Kept(paid, m - 1)
      BY <3>1
    <3> DEFINE more == [i \in 0..m |-> IF i = m THEN Credit(paid[m - 1], Pays(o, reported[m], routes)) ELSE paid[i]]
    <3>3. ASSUME NEW i \in 0..m
          PROVE  more[i] = IF i = 0 THEN "none" ELSE Credit(more[i - 1], Pays(o, reported[i], routes))
      BY <2>1, <2>3, <3>2
    <3>4. Kept(more, m)
      <4> HIDE DEF more
      <4>1. more = [i \in 0..m |-> more[i]]
        BY DEF more
      <4> QED
        BY <3>3, <4>1
    <3> QED
      BY <3>4
  <2> QED
    BY <2>2, <2>3
<1>2. PICK paid : Kept(paid, Len(reported))
  BY <1>1
<1>3. ASSUME NEW i \in 0..Len(reported), i # 0
      PROVE  Credit(paid[i - 1], Pays(o, reported[i], routes)) =
               IF RefKind(reported[i]) = "none" THEN paid[i - 1]
               ELSE Credit(paid[i - 1], OpMatches(o, reported[i], routes))
  BY DEF Credit, Pays
<1>4. Ledger(paid, o, reported, routes)
  BY <1>2, <1>3 DEF Ledger
<1> QED
  BY <1>4

LEMMA PassOfLedger ==
  ASSUME NEW o, NEW reported, NEW routes, Len(reported) \in Nat
  PROVE  \E paid : Ledger(paid, o, reported, routes) /\ PassOf(o, reported, routes) = paid[Len(reported)]
<1> DEFINE kept == CHOOSE paid : Ledger(paid, o, reported, routes)
<1>1. Ledger(kept, o, reported, routes)
  BY LedgerExists
<1>2. PassOf(o, reported, routes) = kept[Len(reported)]
  BY Zenon DEF PassOf, Ledger
<1> QED
  BY <1>1, <1>2

\* The best that any report pays.
BestPaid(o, S, routes) ==
  IF \E r \in S : OpMatches(o, r, routes) = "strict" THEN "strict"
  ELSE IF \E r \in S : OpMatches(o, r, routes) = "loose" THEN "loose" ELSE "none"

\* Neither the order of the reports nor how often one is made tells.
LEMMA PassIsBest ==
  ASSUME NEW o, NEW reported, NEW routes, Len(reported) \in Nat, DOMAIN reported = 1..Len(reported)
  PROVE  PassOf(o, reported, routes) = BestPaid(o, ToSet(reported), routes)
<1> DEFINE n == Len(reported)
           pays(i) == Pays(o, reported[i], routes)
<1>1. PICK paid : Ledger(paid, o, reported, routes) /\ PassOf(o, reported, routes) = paid[n]
  BY PassOfLedger
<1>2. paid[0] = "none" /\ \A i \in 1..n : paid[i] = Credit(paid[i - 1], pays(i))
  BY <1>1, LedgerPays
<1>3. \A i \in 1..n : pays(i) \in PassNames /\ pays(i) = OpMatches(o, reported[i], routes)
  BY MatchIsPass DEF Pays, PassNames
<1> HIDE DEF n, pays
<1> DEFINE Right(i) == paid[i] = IF \E j \in 1..i : pays(j) = "strict" THEN "strict"
                                 ELSE IF \E j \in 1..i : pays(j) = "loose" THEN "loose" ELSE "none"
           Wrong    == {i \in 0..n : ~Right(i)}
<1>4. Wrong = {}
  <2> SUFFICES ASSUME Wrong # {} PROVE FALSE
    OBVIOUS
  <2>1. n \in Nat
    BY DEF n
  <2>2. PICK m \in Wrong : \A i \in Wrong : m <= i
    <3> HIDE DEF Wrong
    <3>1. Wrong \subseteq Nat
      BY <2>1 DEF Wrong
    <3> QED
      BY <3>1, Least
  <2>3. m \in 0..n /\ ~Right(m)
    BY <2>2
  <2>4. m # 0
    <3>1. Right(0)
      BY <1>2
    <3> QED
      BY <2>3, <3>1
  <2>5. m - 1 \in 0..n /\ m \in 1..n /\ m - 1 \notin Wrong
    <3> HIDE DEF Wrong
    <3> QED
      BY <2>1, <2>2, <2>3, <2>4
  <2>6. Right(m - 1)
    BY <2>5
  <2>7. paid[m] = Credit(paid[m - 1], pays(m)) /\ pays(m) \in PassNames
    BY <1>2, <1>3, <2>5
  <2>8. \A p : (\E j \in 1..m : pays(j) = p) <=> pays(m) = p \/ \E j \in 1..(m - 1) : pays(j) = p
    BY <2>1, <2>5
  <2>9. Right(m)
    BY <2>6, <2>7, <2>8 DEF Credit, PassNames
  <2> QED
    BY <2>3, <2>9
<1>5. Right(n)
  BY <1>4 DEF n
<1>6. \A p : (\E j \in 1..n : pays(j) = p) <=> \E r \in ToSet(reported) : OpMatches(o, r, routes) = p
  BY <1>3 DEF ToSet, n
<1> QED
  BY <1>1, <1>5, <1>6 DEF BestPaid

-----------------------------------------------------------------------------
(* The coverage track. *)

TrackAnswer ==
  /\ ask \in Questions
  /\ told.is = "track" =>
       /\ ask.about = "track"
       /\ told = [is |-> "track", track |-> Track(ask.ops, ask.reported, ask.variant, ask.vulns, ask.found)]

LEMMA TrackAnswered == RulesSpec => []TrackAnswer
<1>1. RulesInit => TrackAnswer
  BY DEF RulesInit, TrackAnswer, NotTold
<1>2. TrackAnswer /\ [RulesNext]_rvars => TrackAnswer'
  <2> SUFFICES ASSUME TrackAnswer, [RulesNext]_rvars PROVE TrackAnswer'
    OBVIOUS
  <2>1. CASE AnswerTrack /\ UNCHANGED ask
    BY <2>1 DEF AnswerTrack, TrackAnswer
  <2>2. ASSUME told'.is # "track", UNCHANGED ask PROVE TrackAnswer'
    BY <2>2 DEF TrackAnswer
  <2>3. CASE UNCHANGED rvars
    BY <2>3 DEF rvars, TrackAnswer
  <2>4. AnswerPath \/ AnswerPair \/ AnswerCatalog \/ AnswerStrip \/ AnswerImage \/ AnswerReport \/ AnswerCoverage
        => told'.is # "track"
    BY OwnKind
  <2> QED
    BY <2>1, <2>2, <2>3, <2>4 DEF RulesNext
<1> QED
  BY <1>1, <1>2, PTL DEF RulesSpec

\* The parts of a track, said by the reports' set alone.
Reaching(ops, S, variant) ==
  {o \in Expected(ops, variant) : \E r \in S : OpMatches(o, r, SurfaceRoutes(ops)) # "none"}
BestPasses(ops, S, variant) == [o \in Expected(ops, variant) |-> BestPaid(o, S, SurfaceRoutes(ops))]
Unmet(ops, S, variant) ==
  {OpKey(r) : r \in {x \in S : RefKind(x) # "none"
                              /\ \A o \in Expected(ops, variant) : OpMatches(o, x, SurfaceRoutes(ops)) = "none"}}
MappedBugs(ops, variant, vulns) == {v \in vulns : Carrying(Expected(ops, variant), v) # {}}
OnReached(ops, S, variant, vulns) ==
  {v \in MappedBugs(ops, variant, vulns) : Carrying(Expected(ops, variant), v) \cap Reaching(ops, S, variant) # {}}

SaidBySet(ops, S, variant, vulns, found) ==
  [pass      |-> BestPasses(ops, S, variant),
   touched   |-> Reaching(ops, S, variant),
   matched   |-> {},
   unknown   |-> Unmet(ops, S, variant),
   loose     |-> {o \in Reaching(ops, S, variant) : BestPasses(ops, S, variant)[o] = "loose"},
   routes    |-> {o \in Reaching(ops, S, variant) : IsTransport(o)},
   unmapped  |-> vulns \ MappedBugs(ops, variant, vulns),
   discovery |-> MappedBugs(ops, variant, vulns) \ (OnReached(ops, S, variant, vulns) \cup found),
   analysis  |-> OnReached(ops, S, variant, vulns) \ found,
   onTouched |-> OnReached(ops, S, variant, vulns)]

IsSequence(s) == Len(s) \in Nat /\ DOMAIN s = 1..Len(s)

LEMMA TrackIsSaidBySet ==
  ASSUME NEW ops, NEW reported, NEW variant, NEW vulns, NEW found, IsSequence(reported)
  PROVE  Unplaced(Track(ops, reported, variant, vulns, found)) =
           SaidBySet(ops, ToSet(reported), variant, vulns, found)
<1> DEFINE expected == Expected(ops, variant)
           routes   == SurfaceRoutes(ops)
           S        == ToSet(reported)
           by       == Passes(expected, reported, routes)
           touched  == {o \in expected : by[o] # "none"}
           matched  == Matched(expected, reported, routes)
           said     == {i \in DOMAIN reported : RefKind(reported[i]) # "none"}
           mapped   == {v \in vulns : Carrying(expected, v) # {}}
           on       == {v \in mapped : Reached(v, expected, touched)}
<1>1. by = BestPasses(ops, S, variant)
  BY PassIsBest DEF Passes, BestPasses, IsSequence
<1>2. touched = Reaching(ops, S, variant)
  <2>1. ASSUME NEW o \in expected
        PROVE  by[o] # "none" <=> \E r \in S : OpMatches(o, r, routes) # "none"
    <3>1. by[o] = BestPaid(o, S, routes)
      BY <1>1 DEF BestPasses
    <3>2. \A r \in S : OpMatches(o, r, routes) \in PassNames
      BY MatchIsPass
    <3> HIDE DEF by, S, routes
    <3> QED
      BY <3>1, <3>2 DEF BestPaid, PassNames
  <2> HIDE DEF by, S, routes
  <2>2. touched = {o \in expected : \E r \in S : OpMatches(o, r, routes) # "none"}
    BY <2>1
  <2> QED
    BY <2>2 DEF Reaching, S, routes
<1>3. {OpKey(reported[i]) : i \in said \ matched} = Unmet(ops, S, variant)
  <2>1. \A i \in DOMAIN reported : reported[i] \in S
    BY DEF ToSet
  <2>2. \A r \in S : \E i \in DOMAIN reported : reported[i] = r
    BY DEF ToSet
  <2>3. said \ matched = {i \in DOMAIN reported : RefKind(reported[i]) # "none"
                                               /\ \A o \in expected : OpMatches(o, reported[i], routes) = "none"}
    BY DEF Matched
  <2> HIDE DEF S, expected, routes, said, matched
  <2>4. {OpKey(reported[i]) : i \in said \ matched} =
        {OpKey(r) : r \in {x \in S : RefKind(x) # "none" /\ \A o \in expected : OpMatches(o, x, routes) = "none"}}
    BY <2>1, <2>2, <2>3
  <2> QED
    BY <2>4 DEF Unmet, expected, routes
<1>4. mapped = MappedBugs(ops, variant, vulns)
  BY DEF MappedBugs
<1>5. on = OnReached(ops, S, variant, vulns)
  BY <1>2, <1>4 DEF OnReached, Reached
<1>6. Track(ops, reported, variant, vulns, found) =
        [pass |-> by, touched |-> touched, matched |-> matched,
         unknown |-> {OpKey(reported[i]) : i \in said \ matched},
         loose |-> {o \in touched : by[o] = "loose"}, routes |-> {o \in touched : IsTransport(o)},
         unmapped |-> vulns \ mapped, discovery |-> mapped \ (on \cup found), analysis |-> on \ found,
         onTouched |-> on]
  BY Zenon DEF Track, TrackOf
<1> DEFINE unknown == {OpKey(reported[i]) : i \in said \ matched}
           loose   == {o \in touched : by[o] = "loose"}
           paths   == {o \in touched : IsTransport(o)}
<1>7. /\ loose = {o \in Reaching(ops, S, variant) : BestPasses(ops, S, variant)[o] = "loose"}
      /\ paths = {o \in Reaching(ops, S, variant) : IsTransport(o)}
  <2> HIDE DEF by, touched, S
  <2> QED
    BY <1>1, <1>2
<1> HIDE DEF S, by, touched, matched, said, mapped, on, unknown, loose, paths
<1>8. Track(ops, reported, variant, vulns, found) =
        [pass |-> by, touched |-> touched, matched |-> matched, unknown |-> unknown, loose |-> loose, routes |-> paths,
         unmapped |-> vulns \ mapped, discovery |-> mapped \ (on \cup found), analysis |-> on \ found,
         onTouched |-> on]
  BY <1>6, Zenon DEF unknown, loose, paths
<1>9. Unplaced(Track(ops, reported, variant, vulns, found)) =
        [pass |-> by, touched |-> touched, matched |-> {}, unknown |-> unknown, loose |-> loose, routes |-> paths,
         unmapped |-> vulns \ mapped, discovery |-> mapped \ (on \cup found), analysis |-> on \ found,
         onTouched |-> on]
  BY <1>8 DEF Unplaced
<1>10. unknown = Unmet(ops, S, variant)
  BY <1>3 DEF unknown
<1> QED
  BY <1>1, <1>2, <1>4, <1>5, <1>7, <1>9, <1>10, Zenon DEF SaidBySet, S

LEMMA SequencesAre ==
  ASSUME NEW T, NEW s \in Seq(T)
  PROVE  /\ IsSequence(s) /\ IsSequence(Reverse(s)) /\ IsSequence(s \o s)
         /\ ToSet(Reverse(s)) = ToSet(s) /\ ToSet(s \o s) = ToSet(s)
<1>1. IsSequence(s) /\ IsSequence(s \o s)
  BY DEF IsSequence
<1>2. Reverse(s) = [i \in 1..Len(s) |-> s[(Len(s) - i) + 1]]
  BY DEF Reverse
<1>3. Reverse(s) \in Seq(T) /\ Len(Reverse(s)) = Len(s)
  BY <1>2
<1>4. ToSet(Reverse(s)) = ToSet(s)
  <2>1. \A i \in 1..Len(s) : Len(s) - i + 1 \in 1..Len(s) /\ Len(s) - (Len(s) - i + 1) + 1 = i
    OBVIOUS
  <2>2. \A i \in 1..Len(s) : Reverse(s)[i] = s[Len(s) - i + 1] /\ s[i] = Reverse(s)[Len(s) - i + 1]
    BY <1>2, <2>1
  <2> DEFINE rev == Reverse(s)
  <2>3. DOMAIN s = 1..Len(s) /\ DOMAIN rev = 1..Len(s)
    BY <1>3
  <2>4. (\A i \in DOMAIN s : \E j \in DOMAIN rev : s[i] = rev[j]) /\ (\A i \in DOMAIN rev : \E j \in DOMAIN s : rev[i] = s[j])
    BY <2>1, <2>2, <2>3
  <2> HIDE DEF rev
  <2>5. {s[i] : i \in DOMAIN s} = {rev[i] : i \in DOMAIN rev}
    BY <2>4
  <2> QED
    BY <2>5 DEF ToSet, rev
<1>5. ToSet(s \o s) = ToSet(s)
  <2>1. /\ \A i \in 1..Len(s) : i \in 1..Len(s \o s) /\ (s \o s)[i] = s[i]
        /\ \A i \in 1..Len(s \o s) : (s \o s)[i] = s[i] \/ (i - Len(s) \in 1..Len(s) /\ (s \o s)[i] = s[i - Len(s)])
    OBVIOUS
  <2>2. \A i \in 1..Len(s \o s) : i \in 1..Len(s) \/ i - Len(s) \in 1..Len(s)
    OBVIOUS
  <2>3. \A i \in 1..Len(s \o s) : \E j \in 1..Len(s) : (s \o s)[i] = s[j]
    BY <2>1, <2>2
  <2> DEFINE twice == s \o s
  <2>4. DOMAIN s = 1..Len(s) /\ DOMAIN twice = 1..Len(s \o s)
    OBVIOUS
  <2>5. (\A i \in DOMAIN s : \E j \in DOMAIN twice : s[i] = twice[j]) /\ (\A i \in DOMAIN twice : \E j \in DOMAIN s : twice[i] = s[j])
    BY <2>1, <2>3, <2>4
  <2> HIDE DEF twice
  <2>6. {s[i] : i \in DOMAIN s} = {twice[i] : i \in DOMAIN twice}
    BY <2>5
  <2> QED
    BY <2>6 DEF ToSet, twice
<1> QED
  BY <1>1, <1>3, <1>4, <1>5 DEF IsSequence

\* For every catalog and every trace, however long: coverageTrack (coverage.ts) says the same
\* of the trace read backwards and of the trace said twice.
THEOREM TrackForgetsOrder ==
  ASSUME \A q \in Questions : q.about = "track" => \E T : q.reported \in Seq(T)
  PROVE  RulesSpec => []TrackOrderFree
<1>1. TrackAnswer => TrackOrderFree
  <2> SUFFICES ASSUME TrackAnswer, told.is = "track" PROVE TrackOrderFree
    BY DEF TrackOrderFree
  <2> DEFINE s == ask.reported
             again(x) == Track(ask.ops, x, ask.variant, ask.vulns, ask.found)
  <2>1. PICK T : s \in Seq(T)
    BY DEF TrackAnswer
  <2>2. told.track = again(s)
    BY DEF TrackAnswer
  <2>3. \A x : IsSequence(x) => Unplaced(again(x)) = SaidBySet(ask.ops, ToSet(x), ask.variant, ask.vulns, ask.found)
    BY TrackIsSaidBySet
  <2> HIDE DEF s, again
  <2>4. /\ Unplaced(again(Reverse(s))) = Unplaced(told.track)
        /\ Unplaced(again(s \o s)) = Unplaced(told.track)
    BY <2>1, <2>2, <2>3, SequencesAre
  <2> QED
    BY <2>4, Zenon DEF TrackOrderFree, s, again
<1> QED
  BY <1>1, TrackAnswered, PTL

\* For every catalog, trace and set of bugs found: coverageTrack's two kinds of miss are the
\* bugs no report reaches and those a report reaches and nobody found, and together with the
\* found and the unmapped ones they are all bugs.
THEOREM EveryMissIsSplit ==
  ASSUME \A q \in Questions : q.about = "track" => \E T : q.reported \in Seq(T)
  PROVE  RulesSpec => []MissSplit
<1>1. TrackAnswer => MissSplit
  <2> SUFFICES ASSUME TrackAnswer, told.is = "track" PROVE MissSplit
    BY DEF MissSplit
  <2> DEFINE S == ToSet(ask.reported)
             t == told.track
             expected == Expected(ask.ops, ask.variant)
             reached == {v \in ask.vulns : \E o \in Carrying(expected, v), r \in S :
                           OpMatches(o, r, SurfaceRoutes(ask.ops)) # "none"}
             mapped == MappedBugs(ask.ops, ask.variant, ask.vulns)
  <2>1. PICK T : ask.reported \in Seq(T)
    BY DEF TrackAnswer
  <2>2. t = Track(ask.ops, ask.reported, ask.variant, ask.vulns, ask.found)
    BY DEF TrackAnswer
  <2>3. Unplaced(t) = SaidBySet(ask.ops, S, ask.variant, ask.vulns, ask.found)
    BY <2>1, <2>2, SequencesAre, TrackIsSaidBySet
  <2>4. OnReached(ask.ops, S, ask.variant, ask.vulns) = reached
    <3> HIDE DEF S
    <3>1. OnReached(ask.ops, S, ask.variant, ask.vulns) =
            {v \in ask.vulns : Carrying(expected, v) # {} /\ Carrying(expected, v) \cap Reaching(ask.ops, S, ask.variant) # {}}
      BY DEF OnReached, MappedBugs
    <3>2. \A v : Carrying(expected, v) \cap Reaching(ask.ops, S, ask.variant) =
                 {o \in Carrying(expected, v) : \E r \in S : OpMatches(o, r, SurfaceRoutes(ask.ops)) # "none"}
      BY DEF Reaching, Carrying
    <3> QED
      BY <3>1, <3>2
  <2>5. /\ t.unmapped = ask.vulns \ mapped
        /\ t.discovery = mapped \ (reached \cup ask.found)
        /\ t.analysis = reached \ ask.found
        /\ t.onTouched = reached
    <3> HIDE DEF mapped, reached, t, S
    <3>1. Unplaced(t) = [pass |-> BestPasses(ask.ops, S, ask.variant), touched |-> Reaching(ask.ops, S, ask.variant),
            matched |-> {}, unknown |-> Unmet(ask.ops, S, ask.variant),
            loose |-> {o \in Reaching(ask.ops, S, ask.variant) : BestPasses(ask.ops, S, ask.variant)[o] = "loose"},
            routes |-> {o \in Reaching(ask.ops, S, ask.variant) : IsTransport(o)},
            unmapped |-> ask.vulns \ mapped, discovery |-> mapped \ (reached \cup ask.found),
            analysis |-> reached \ ask.found, onTouched |-> reached]
      BY <2>3, <2>4, Zenon DEF SaidBySet, mapped
    <3>2. /\ Unplaced(t).unmapped = ask.vulns \ mapped /\ Unplaced(t).discovery = mapped \ (reached \cup ask.found)
          /\ Unplaced(t).analysis = reached \ ask.found /\ Unplaced(t).onTouched = reached
      BY <3>1
    <3>3. /\ Unplaced(t).unmapped = t.unmapped /\ Unplaced(t).discovery = t.discovery
          /\ Unplaced(t).analysis = t.analysis /\ Unplaced(t).onTouched = t.onTouched
      BY DEF Unplaced
    <3> QED
      BY <3>2, <3>3
  <2>6. mapped \subseteq ask.vulns
    BY DEF MappedBugs
  <2>7. t.discovery = ask.vulns \ (ask.found \cup reached \cup t.unmapped)
    <3> HIDE DEF mapped, reached, t
    <3> QED
      BY <2>5, <2>6
  <2> QED
    BY <2>5, <2>7, Zenon DEF MissSplit
<1> QED
  BY <1>1, TrackAnswered, PTL

-----------------------------------------------------------------------------
(* The answer key: what make check has called green is green still. *)

GreenIsGreen == checked = "green" => Green(tree, key, cat)

LEMMA StaysGreen == ASpec => []GreenIsGreen
<1>1. AInit => GreenIsGreen
  BY DEF AInit, GreenIsGreen
<1>2. GreenIsGreen /\ [ANext]_avars => GreenIsGreen'
  <2> SUFFICES ASSUME GreenIsGreen, [ANext]_avars PROVE GreenIsGreen'
    OBVIOUS
  <2>1. ASSUME checked' = "not yet" PROVE GreenIsGreen'
    BY <2>1 DEF GreenIsGreen
  <2>2. EditSource \/ Plant \/ Unplant \/ AddOperation \/ MapBug \/ SetTier => checked' = "not yet"
    BY Zenon DEF EditSource, Plant, Unplant, AddOperation, MapBug, SetTier, Edit
  <2>3. WriteMatch \/ WriteSurface => checked' = "not yet"
    BY Zenon DEF WriteMatch, WriteSurface
  <2>4. Check => GreenIsGreen'
    BY DEF Check, GreenIsGreen
  <2>5. CASE UNCHANGED avars
    BY <2>5, Zenon DEF avars, GreenIsGreen
  <2> QED
    BY <2>1, <2>2, <2>3, <2>4, <2>5, Zenon DEF ANext
<1> QED
  BY <1>1, <1>2, PTL DEF ASpec

-----------------------------------------------------------------------------
(* Two operations of a catalog, told apart by a report. *)

\* A glob is written in one way only.
PathSegment == {s \in Segment : (s.k = "star" => s = Star) /\ (s.k = "deep" => s = Deep)}

IsDeep(p) == p # <<>> /\ p[Len(p)].k = "deep"
Fixed(p)  == IF IsDeep(p) THEN Len(p) - 1 ELSE Len(p)
LongAs(p, got) == IF IsDeep(p) THEN Len(got) > Fixed(p) ELSE Len(got) = Fixed(p)

\* What a segment of a pattern takes, as it is written and with its placeholder opened up.
TakesExactly(w, g) == w.k = "star" \/ TemplateSegment(w) = TemplateSegment(g)
Takes(w, g) == TakesExactly(w, g) \/ (w.k = "ph" /\ TemplateSegment(g) # Empty)

LEMMA SegmentsTemplated ==
  ASSUME NEW s \in PathSegment
  PROVE  /\ TemplateSegment(s).k = (IF s.k = "ph" THEN "id" ELSE s.k)
         /\ s.k # "open" /\ TemplateSegment(s).k # "open" /\ TemplateSegment(s) \in PathSegment
         /\ s.k \in {"ph", "id"} => TemplateSegment(s) = Id
         /\ s.k \notin {"ph", "id"} => TemplateSegment(s) = s
BY DEF PathSegment, Segment, TemplateSegment, Id, Star, Deep

\* A placeholder opened up.
LaidOpen == [k |-> "open", n |-> "", up |-> FALSE]

LEMMA IdIsSomething == Id # Empty
BY DEF Id, Empty, Lit

LEMMA ExactlyFits ==
  ASSUME NEW p \in Seq(PathSegment), NEW got \in Seq(PathSegment)
  PROVE  PathMatch(p, got, FALSE) = "exact" <=> LongAs(p, got) /\ \A i \in 1..Fixed(p) : TakesExactly(p[i], got[i])
<1> DEFINE want == TemplatePath(p)
           found == TemplatePath(got)
<1>1. /\ Len(want) = Len(p) /\ Len(found) = Len(got) /\ (want = <<>> <=> p = <<>>)
      /\ \A i \in 1..Len(p) : want[i] = TemplateSegment(p[i])
      /\ \A i \in 1..Len(got) : found[i] = TemplateSegment(got[i])
  BY DEF TemplatePath
<1>2. \A i \in 1..Len(p) : p[i] \in PathSegment
  OBVIOUS
<1>3. \A i \in 1..Len(p) : want[i].k = (IF p[i].k = "ph" THEN "id" ELSE p[i].k) /\ want[i].k # "open"
  BY <1>1, <1>2, SegmentsTemplated
<1>4. IsDeep(p) <=> want # <<>> /\ want[Len(want)].k = "deep"
  <2>1. p # <<>> => Len(p) \in 1..Len(p)
    OBVIOUS
  <2> QED
    BY <1>1, <1>3, <2>1 DEF IsDeep
<1>5. Fixed(p) \in Nat /\ Fixed(p) <= Len(p)
  BY DEF Fixed, IsDeep
<1> HIDE DEF want, found
<1>6. ASSUME LongAs(p, got), NEW i \in 1..Fixed(p)
      PROVE  SegmentFits(want[i], found[i]) <=> TakesExactly(p[i], got[i])
  <2>1. i \in 1..Len(p) /\ i \in 1..Len(got)
    BY <1>5, <1>6 DEF LongAs
  <2>2. want[i].k = "star" <=> p[i].k = "star"
    BY <1>3, <2>1
  <2> QED
    BY <1>1, <1>3, <2>1, <2>2 DEF SegmentFits, TakesExactly
<1>7. Fits(want, found) <=> LongAs(p, got) /\ \A i \in 1..Fixed(p) : SegmentFits(want[i], found[i])
  BY <1>1, <1>4, Zenon DEF Fits, LongAs, Fixed
<1>8. PathMatch(p, got, FALSE) = "exact" <=> Fits(want, found)
  BY DEF PathMatch, PathKey, PathKeyStrict, want, found
<1> QED
  BY <1>6, <1>7, <1>8

LEMMA PathTakes ==
  ASSUME NEW p \in Seq(PathSegment), NEW got \in Seq(PathSegment)
  PROVE  PathMatch(p, got, FALSE) # "none" <=> LongAs(p, got) /\ \A i \in 1..Fixed(p) : Takes(p[i], got[i])
<1> DEFINE want == PlaceholderPattern(p, FALSE)
           found == TemplatePath(got)
           holds == \E i \in DOMAIN p : p[i].k = "ph"
<1>1. /\ Len(want) = Len(p) /\ Len(found) = Len(got) /\ (want = <<>> <=> p = <<>>)
      /\ \A i \in 1..Len(p) : want[i] = IF p[i].k = "ph" THEN LaidOpen ELSE TemplateSegment(p[i])
      /\ \A i \in 1..Len(got) : found[i] = TemplateSegment(got[i])
  <2>1. PathKey(p, FALSE) = TemplatePath(p)
    BY DEF PathKey, PathKeyStrict
  <2>2. DOMAIN TemplatePath(p) = 1..Len(p) /\ \A i \in 1..Len(p) : TemplatePath(p)[i] = TemplateSegment(p[i])
    BY DEF TemplatePath
  <2>3. want = [i \in 1..Len(p) |-> IF p[i].k = "ph" THEN LaidOpen ELSE TemplatePath(p)[i]]
    BY <2>1, <2>2, Zenon DEF PlaceholderPattern, LaidOpen
  <2>4. DOMAIN want = 1..Len(p) /\ Len(want) = Len(p) /\ (want = <<>> <=> p = <<>>)
    <3> DEFINE opened(i) == IF p[i].k = "ph" THEN LaidOpen ELSE TemplatePath(p)[i]
    <3>1. want = [i \in 1..Len(p) |-> opened(i)]
      BY <2>3, Zenon
    <3>2. Len(p) \in Nat /\ (p = <<>> <=> Len(p) = 0)
      OBVIOUS
    <3> HIDE DEF want, opened
    <3> QED
      BY <3>1, <3>2
  <2>5. \A i \in 1..Len(p) : want[i] = IF p[i].k = "ph" THEN LaidOpen ELSE TemplateSegment(p[i])
    <3> HIDE DEF want
    <3> QED
      BY <2>2, <2>3
  <2>6. Len(found) = Len(got) /\ \A i \in 1..Len(got) : found[i] = TemplateSegment(got[i])
    BY DEF TemplatePath
  <2> QED
    BY <2>4, <2>5, <2>6
<1>2. \A i \in 1..Len(p) : p[i] \in PathSegment
  OBVIOUS
<1>3. \A i \in 1..Len(p) : want[i].k = (IF p[i].k = "ph" THEN "open" ELSE p[i].k) /\ p[i].k # "open"
  <2> HIDE DEF want, found, holds
  <2> SUFFICES ASSUME NEW i \in 1..Len(p)
               PROVE  want[i].k = (IF p[i].k = "ph" THEN "open" ELSE p[i].k) /\ p[i].k # "open"
    OBVIOUS
  <2>1. want[i] = IF p[i].k = "ph" THEN LaidOpen ELSE TemplateSegment(p[i])
    BY <1>1
  <2>2. p[i].k # "open" /\ (p[i].k # "ph" => TemplateSegment(p[i]).k = p[i].k)
    BY <1>2, SegmentsTemplated
  <2>3. LaidOpen.k = "open"
    BY DEF LaidOpen
  <2> QED
    BY <2>1, <2>2, <2>3
<1>4. IsDeep(p) <=> want # <<>> /\ want[Len(want)].k = "deep"
  <2>1. p # <<>> => Len(p) \in 1..Len(p)
    OBVIOUS
  <2> QED
    BY <1>1, <1>3, <2>1 DEF IsDeep
<1>5. Fixed(p) \in Nat /\ Fixed(p) <= Len(p) /\ DOMAIN p = 1..Len(p)
  BY DEF Fixed, IsDeep
<1>6. Fits(want, found) <=> LongAs(p, got) /\ \A i \in 1..Fixed(p) : SegmentFits(want[i], found[i])
  <2> HIDE DEF want, found
  <2> QED
    BY <1>1, <1>4, Zenon DEF Fits, LongAs, Fixed
<1>7. PathMatch(p, got, FALSE) # "none" <=> PathMatch(p, got, FALSE) = "exact" \/ (holds /\ Fits(want, found))
  BY DEF PathMatch, PathKey, PathKeyStrict
<1> HIDE DEF want, found, holds
<1>8. ASSUME LongAs(p, got), NEW i \in 1..Fixed(p)
      PROVE  /\ SegmentFits(want[i], found[i]) <=> Takes(p[i], got[i])
             /\ p[i].k # "ph" => (Takes(p[i], got[i]) <=> TakesExactly(p[i], got[i]))
             /\ TakesExactly(p[i], got[i]) => Takes(p[i], got[i])
  <2>1. i \in 1..Len(p) /\ i \in 1..Len(got)
    BY <1>5, <1>8 DEF LongAs
  <2>0. got[i] \in PathSegment
    BY <2>1
  <2>2. p[i].k = "ph" => TemplateSegment(p[i]) # Empty
    BY <1>2, <2>1, SegmentsTemplated, IdIsSomething
  <2>3. p[i].k = "ph" => want[i].k = "open" /\ want[i] # found[i]
    <3>1. found[i].k # "open"
      BY <1>1, <2>0, <2>1, SegmentsTemplated
    <3> QED
      BY <1>3, <2>1, <3>1
  <2>4. p[i].k # "ph" => want[i] = TemplateSegment(p[i]) /\ want[i].k = p[i].k /\ p[i].k # "open"
    BY <1>1, <1>3, <2>1
  <2> QED
    BY <1>1, <2>1, <2>2, <2>3, <2>4 DEF SegmentFits, Takes, TakesExactly
<1>9. CASE holds
  BY <1>6, <1>7, <1>8, <1>9, ExactlyFits
<1>10. CASE ~holds
  <2>1. \A i \in 1..Fixed(p) : p[i].k # "ph"
    BY <1>5, <1>10 DEF holds
  <2> QED
    BY <1>7, <1>8, <1>10, <2>1, ExactlyFits
<1> QED
  BY <1>9, <1>10

StrictlyTakes(p, got) == PathMatch(p, got, FALSE) # "none"

LEMMA TakesItself ==
  ASSUME NEW p \in Seq(PathSegment)
  PROVE  PathMatch(p, p, FALSE) = "exact"
<1>1. Fixed(p) \in Nat /\ LongAs(p, p)
  BY DEF Fixed, IsDeep, LongAs
<1> QED
  BY <1>1, ExactlyFits DEF TakesExactly

\* A path that ends in ** takes longer ones than any other does.
LEMMA LongerThan ==
  ASSUME NEW p \in Seq(PathSegment), NEW q \in Seq(PathSegment), IsDeep(p), ~IsDeep(q)
  PROVE  \E got \in Seq(PathSegment) :
            got # <<>> /\ PathMatch(p, got, FALSE) = "exact" /\ PathMatch(q, got, FALSE) = "none"
<1> DEFINE n == Len(p) + Len(q)
           got == [i \in 1..n |-> IF i <= Len(p) THEN p[i] ELSE Deep]
<1>1. Deep \in PathSegment
  <2>1. Deep = [k |-> "deep", n |-> "", up |-> FALSE] /\ Deep \in Segment
    BY DEF Deep, Segment
  <2> QED
    BY <2>1 DEF PathSegment
<1>2. got \in Seq(PathSegment) /\ Len(got) = n /\ n \in Nat /\ Len(p) > 0
  BY <1>1 DEF IsDeep
<1>3. Fixed(p) = Len(p) - 1 /\ Fixed(q) = Len(q)
  BY DEF Fixed
<1>4. \A i \in 1..Len(p) : got[i] = p[i]
  OBVIOUS
<1> HIDE DEF got
<1>5. LongAs(p, got) /\ \A i \in 1..Fixed(p) : TakesExactly(p[i], got[i])
  BY <1>2, <1>3, <1>4 DEF LongAs, TakesExactly
<1>6. ~LongAs(q, got)
  BY <1>2, <1>3 DEF LongAs
<1>7. got # <<>>
  BY <1>2
<1> QED
  BY <1>2, <1>5, <1>6, <1>7, ExactlyFits, PathTakes

\* Where the one takes the other's own path as it is written and the other the one's, they
\* are one path but for the names of their placeholders.
LEMMA ExactBothWays ==
  ASSUME NEW p \in Seq(PathSegment), NEW q \in Seq(PathSegment), IsDeep(p) <=> IsDeep(q),
         PathMatch(p, q, FALSE) = "exact", PathMatch(q, p, FALSE) = "exact"
  PROVE  TemplatePath(p) = TemplatePath(q)
<1>1. Len(p) = Len(q) /\ Fixed(p) = Fixed(q)
  <2>1. LongAs(p, q) /\ LongAs(q, p)
    BY ExactlyFits
  <2> QED
    BY <2>1 DEF LongAs, Fixed
<1>2. ASSUME NEW i \in 1..Len(p) PROVE TemplateSegment(p[i]) = TemplateSegment(q[i])
  <2>1. p[i] \in PathSegment /\ q[i] \in PathSegment
    BY <1>1
  <2>2. CASE i \in 1..Fixed(p)
    <3>1. TakesExactly(p[i], q[i]) /\ TakesExactly(q[i], p[i])
      BY <1>1, <2>2, ExactlyFits
    <3>2. p[i].k = "star" /\ q[i].k = "star" => p[i] = q[i]
      BY <2>1 DEF PathSegment
    <3> QED
      BY <3>1, <3>2 DEF TakesExactly
  <2>3. CASE i \notin 1..Fixed(p)
    <3>1. IsDeep(p) /\ i = Len(p)
      BY <2>3 DEF Fixed
    <3>2. p[i].k = "deep" /\ q[i].k = "deep"
      BY <1>1, <3>1 DEF IsDeep
    <3> QED
      BY <2>1, <3>2 DEF PathSegment
  <2> QED
    BY <2>2, <2>3
<1>3. DOMAIN p = 1..Len(p) /\ DOMAIN q = 1..Len(p)
  BY <1>1
<1> QED
  BY <1>2, <1>3 DEF TemplatePath

\* Without a router: a found path that one of two takes and the other does not.
LEMMA PathsApart ==
  ASSUME NEW p \in Seq(PathSegment), NEW q \in Seq(PathSegment), p # <<>>, q # <<>>,
         TemplatePath(p) # TemplatePath(q)
  PROVE  \E got \in Seq(PathSegment) : got # <<>> /\ (StrictlyTakes(p, got) <=> ~StrictlyTakes(q, got))
<1>1. StrictlyTakes(p, p) /\ StrictlyTakes(q, q)
  BY TakesItself DEF StrictlyTakes
<1>2. CASE ~(IsDeep(p) <=> IsDeep(q))
  BY <1>2, LongerThan DEF StrictlyTakes
<1>3. CASE (IsDeep(p) <=> IsDeep(q)) /\ Len(p) # Len(q)
  <2>1. ~LongAs(p, q) \/ ~LongAs(q, p)
    BY <1>3 DEF LongAs, Fixed
  <2> QED
    BY <1>1, <2>1, PathTakes DEF StrictlyTakes
<1>4. CASE (IsDeep(p) <=> IsDeep(q)) /\ Len(p) = Len(q)
  <2>0. Fixed(p) = Fixed(q) /\ Fixed(p) <= Len(p) /\ Fixed(p) \in Nat /\ LongAs(p, q) /\ LongAs(q, p) /\ LongAs(p, p)
        /\ LongAs(q, q)
    BY <1>4 DEF LongAs, Fixed, IsDeep
  <2>1. PICK i \in 1..Len(p) : TemplateSegment(p[i]) # TemplateSegment(q[i])
    <3>1. DOMAIN p = 1..Len(p) /\ DOMAIN q = 1..Len(p)
      BY <1>4
    <3> QED
      BY <3>1 DEF TemplatePath
  <2>2. p[i] \in PathSegment /\ q[i] \in PathSegment
    BY <1>4
  <2>3. i \in 1..Fixed(p)
    <3> SUFFICES ASSUME i \notin 1..Fixed(p) PROVE FALSE
      OBVIOUS
    <3>1. IsDeep(p) /\ IsDeep(q) /\ i = Len(p)
      BY <1>4 DEF Fixed
    <3>2. p[i].k = "deep" /\ q[i].k = "deep"
      BY <1>4, <3>1 DEF IsDeep
    <3> QED
      BY <2>1, <2>2, <3>2 DEF PathSegment
  <2>4. ASSUME NEW a \in Seq(PathSegment), NEW b \in Seq(PathSegment), Len(a) = Len(p), Len(b) = Len(p),
               IsDeep(a) <=> IsDeep(p), IsDeep(b) <=> IsDeep(p), Fixed(a) = Fixed(p), Fixed(b) = Fixed(p),
               a[i].k = "star", b[i].k # "star"
        PROVE  \E got \in Seq(PathSegment) : got # <<>> /\ StrictlyTakes(a, got) /\ ~StrictlyTakes(b, got)
    <3> DEFINE x == IF b[i].k = "lit" THEN Ph ELSE Empty
               got == [a EXCEPT ![i] = x]
    <3>1. Ph \in PathSegment /\ Empty \in PathSegment /\ x \in PathSegment
      <4>1. Ph = [k |-> "ph", n |-> "", up |-> FALSE] /\ Empty = [k |-> "lit", n |-> "", up |-> FALSE]
        BY DEF Ph, Empty, Lit
      <4>2. Ph \in Segment /\ Empty \in Segment
        BY <4>1 DEF Segment
      <4> QED
        BY <4>1, <4>2 DEF PathSegment
    <3>2. b[i] \in PathSegment /\ i \in 1..Len(a)
      BY <2>4
    <3>3. ~Takes(b[i], x)
      <4>1. CASE b[i].k = "lit"
        <5>1. TemplateSegment(b[i]).k = "lit" /\ TemplateSegment(x).k = "id"
          BY <3>1, <3>2, <4>1, SegmentsTemplated DEF Ph
        <5> QED
          BY <4>1, <5>1 DEF Takes, TakesExactly
      <4>2. CASE b[i].k # "lit"
        <5>1. TemplateSegment(x) = Empty /\ Empty.k = "lit"
          BY <4>2 DEF TemplateSegment, Empty, Lit
        <5>2. TemplateSegment(b[i]).k # "lit"
          BY <3>2, <4>2, SegmentsTemplated
        <5> QED
          BY <2>4, <5>1, <5>2 DEF Takes, TakesExactly
      <4> QED
        BY <4>1, <4>2
    <3> HIDE DEF x
    <3>4. got \in Seq(PathSegment) /\ Len(got) = Len(a) /\ got[i] = x /\ got # <<>> /\ \A j \in 1..Len(a) : j # i => got[j] = a[j]
      BY <3>1, <3>2
    <3> HIDE DEF got
    <3>5. LongAs(a, got) /\ LongAs(b, got)
      BY <2>0, <2>4, <3>4 DEF LongAs
    <3>6. \A j \in 1..Fixed(a) : Takes(a[j], got[j])
      BY <2>0, <2>4, <3>4 DEF Takes, TakesExactly
    <3> QED
      BY <2>3, <2>4, <3>3, <3>4, <3>5, <3>6, PathTakes DEF StrictlyTakes
  <2>5. CASE p[i].k = "star" /\ q[i].k # "star"
    BY <1>4, <2>0, <2>4, <2>5
  <2>6. CASE q[i].k = "star" /\ p[i].k # "star"
    BY <1>4, <2>0, <2>4, <2>6
  <2>7. CASE p[i].k # "star" /\ q[i].k # "star"
    <3>1. CASE q[i].k # "ph"
      <4>1. ~Takes(q[i], p[i])
        BY <2>1, <2>7, <3>1 DEF Takes, TakesExactly
      <4> QED
        BY <1>1, <2>0, <2>3, <4>1, PathTakes DEF StrictlyTakes
    <3>2. CASE p[i].k # "ph"
      <4>1. ~Takes(p[i], q[i])
        BY <2>1, <2>7, <3>2 DEF Takes, TakesExactly
      <4> QED
        BY <1>1, <2>0, <2>3, <4>1, PathTakes DEF StrictlyTakes
    <3>3. ~(p[i].k = "ph" /\ q[i].k = "ph")
      BY <2>1, <2>2, SegmentsTemplated
    <3> QED
      BY <3>1, <3>2, <3>3
  <2>8. ~(p[i].k = "star" /\ q[i].k = "star")
    BY <2>1, <2>2 DEF PathSegment
  <2> QED
    BY <2>5, <2>6, <2>7, <2>8
<1> QED
  BY <1>2, <1>3, <1>4

\* With a router that serves both.
LEMMA RoutesApart ==
  ASSUME NEW p \in Seq(PathSegment), NEW q \in Seq(PathSegment), p # <<>>, q # <<>>,
         TemplatePath(p) # TemplatePath(q), NEW routes, p \in routes, q \in routes
  PROVE  \E got \in Seq(PathSegment) :
            got # <<>> /\ (StrictMatch(p, got, routes) = "none" <=> StrictMatch(q, got, routes) # "none")
<1>1. \A a, got : PathMatch(a, got, FALSE) = "exact" => StrictMatch(a, got, routes) = "exact"
  BY DEF StrictMatch, RoutedPathMatch
<1>2. \A a, got : PathMatch(a, got, FALSE) = "none" => StrictMatch(a, got, routes) = "none"
  BY DEF StrictMatch, RoutedPathMatch
<1>3. ASSUME NEW a, NEW b \in routes, PathMatch(b, b, FALSE) = "exact", PathMatch(a, b, FALSE) # "exact"
      PROVE  StrictMatch(a, b, routes) = "none"
  BY <1>3 DEF StrictMatch, RoutedPathMatch, PathMatch
<1>4. StrictMatch(p, p, routes) = "exact" /\ StrictMatch(q, q, routes) = "exact"
  BY <1>1, TakesItself
<1>5. CASE ~(IsDeep(p) <=> IsDeep(q))
  <2>1. ASSUME NEW a \in Seq(PathSegment), NEW b \in Seq(PathSegment), IsDeep(a), ~IsDeep(b)
        PROVE  \E got \in Seq(PathSegment) :
                 got # <<>> /\ StrictMatch(a, got, routes) = "exact" /\ StrictMatch(b, got, routes) = "none"
    <3>1. PICK got \in Seq(PathSegment) :
                 got # <<>> /\ PathMatch(a, got, FALSE) = "exact" /\ PathMatch(b, got, FALSE) = "none"
      BY <2>1, LongerThan
    <3>2. StrictMatch(a, got, routes) = "exact" /\ StrictMatch(b, got, routes) = "none"
      BY <1>1, <1>2, <3>1
    <3> QED
      BY <3>1, <3>2
  <2>2. "exact" # "none"
    OBVIOUS
  <2> QED
    BY <1>5, <2>1, <2>2
<1>6. CASE IsDeep(p) <=> IsDeep(q)
  <2>1. PathMatch(p, q, FALSE) # "exact" \/ PathMatch(q, p, FALSE) # "exact"
    BY <1>6, ExactBothWays
  <2> QED
    BY <1>3, <1>4, <2>1, TakesItself
<1> QED
  BY <1>5, <1>6

\* The reports there may be, with words W for names.
NameFrom(W) == [w : W, up : BOOLEAN]
ReportsOf(W) ==
  [kind : W, method : W, path : Seq(PathSegment), endpoint : BOOLEAN, query : SUBSET (W \X NameFrom(W)), port : Int,
   op : NameFrom(W), gqlKind : W, field : NameFrom(W), event : NameFrom(W), channel : W, namespace : W,
   tool : NameFrom(W), injection : W, host : W, proto : W]

Spoken(W) == {"", "query", "/"} \subseteq W

\* A report the first is reached by strictly and the second is not.
TellsApart(o, p, routes, S) ==
  \E r \in S : OpMatches(o, r, routes) = "strict" /\ OpMatches(p, r, routes) # "strict"

LEMMA WeakestStrict ==
  ASSUME NEW S, S \subseteq PassNames
  PROVE  Weakest(S) = "strict" <=> S \subseteq {"strict"}
BY DEF Weakest, PassNames

LEMMA HttpFoldedKey ==
  ASSUME NEW o, o.kind = "http", o.path # <<>>
  PROVE  FoldedKey(o) = <<"http", o.method, o.port, TemplatePath(o.path), Folded(o.query)>>
<1> DEFINE r == [AsReport(o) EXCEPT !.query = Folded(o.query)]
<1>1. r.kind = "http" /\ r.method = o.method /\ r.port = o.port /\ r.path = o.path /\ r.query = Folded(o.query)
  BY DEF AsReport
<1> HIDE DEF r
<1>2. RefKind(r) = "http"
  BY <1>1 DEF RefKind, Kinds
<1>3. OpKey(r) = <<"http", o.method, o.port, TemplatePath(o.path), Folded(o.query)>>
  BY <1>1, <1>2 DEF OpKey
<1> QED
  BY <1>3 DEF FoldedKey, r

\* Only an http key has a query in it.
LEMMA OtherFoldedKey ==
  ASSUME NEW o, o.kind \in {"graphql", "ws", "llm", "net"}
  PROVE  FoldedKey(o) = OpKey(o)
<1> DEFINE r == [AsReport(o) EXCEPT !.query = Folded(o.query)]
<1>1. /\ r.kind = o.kind /\ r.path = o.path /\ r.port = o.port /\ r.op = o.op /\ r.gqlKind = o.gqlKind /\ r.field = o.field
      /\ r.event = o.event /\ r.channel = o.channel /\ r.namespace = o.namespace
      /\ r.tool = o.tool /\ r.injection = o.injection /\ r.host = o.host /\ r.proto = o.proto
  BY DEF AsReport
<1> HIDE DEF r
<1>2. RefKind(r) = o.kind /\ RefKind(o) = o.kind
  BY <1>1 DEF RefKind, Kinds
<1>3. OpKey(r) = OpKey(o)
  BY <1>1, <1>2 DEF OpKey
<1> QED
  BY <1>3 DEF FoldedKey, r

LEMMA HttpApart ==
  ASSUME NEW W, Spoken(W), NEW o, NEW p, AsReport(o) \in ReportsOf(W), AsReport(p) \in ReportsOf(W),
         o.kind = "http", p.kind = "http", Identified(o), Identified(p), FoldedKey(o) # FoldedKey(p),
         NEW routes, o.path \in routes, p.path \in routes
  PROVE  TellsApart(o, p, routes, ReportsOf(W)) \/ TellsApart(p, o, routes, ReportsOf(W))
<1>1. ASSUME NEW a, NEW b, NEW got \in Seq(PathSegment), AsReport(a) \in ReportsOf(W), a.kind = "http", b.kind = "http",
             a.path # <<>>, got # <<>>,
             StrictMatch(a.path, got, routes) # "none", StrictMatch(b.path, got, routes) = "none"
      PROVE  TellsApart(a, b, routes, ReportsOf(W))
  <2> DEFINE r == [AsReport(a) EXCEPT !.path = got]
  <2>1. r \in ReportsOf(W) /\ r.path = got /\ RefKind(r) = "http" /\ r.method = a.method /\ r.port = a.port /\ r.query = a.query
    BY <1>1 DEF AsReport, ReportsOf, RefKind, Kinds
  <2> HIDE DEF r
  <2>2. PathPass(a.path, r.path, routes) = "strict" /\ PathPass(b.path, r.path, routes) # "strict"
    BY <1>1, <2>1 DEF PathPass, StrictMatch
  <2>3. OpMatches(a, r, routes) = "strict"
    <3>1. Weakest({PathPass(a.path, r.path, routes), Loosely(a.method # NoVerb /\ r.method = NoVerb),
                   Loosely(a.port # r.port /\ a.port # NoPort)}) = "strict"
      BY <2>1, <2>2 DEF Weakest, Loosely
    <3> QED
      BY <1>1, <2>1, <3>1 DEF OpMatches, HttpReaches, Only
  <2>4. OpMatches(b, r, routes) # "strict"
    <3>1. Weakest({PathPass(b.path, r.path, routes), Loosely(b.method # NoVerb /\ r.method = NoVerb),
                   Loosely(b.port # r.port /\ b.port # NoPort)}) # "strict"
      <4> DEFINE path == PathPass(b.path, r.path, routes)
                 verb == Loosely(b.method # NoVerb /\ r.method = NoVerb)
                 port == Loosely(b.port # r.port /\ b.port # NoPort)
      <4>1. {path, verb, port} \subseteq PassNames
        BY PathPassIsPass DEF Loosely, PassNames
      <4>2. ~({path, verb, port} \subseteq {"strict"})
        BY <2>2
      <4> HIDE DEF path, verb, port
      <4>3. Weakest({path, verb, port}) # "strict"
        BY <4>1, <4>2, WeakestStrict
      <4> QED
        BY <4>3 DEF path, verb, port
    <3> QED
      BY <1>1, <2>1, <3>1 DEF OpMatches, HttpReaches, Only
  <2> QED
    BY <2>1, <2>3, <2>4 DEF TellsApart
<1>2. o.path # <<>> /\ p.path # <<>> /\ o.path \in Seq(PathSegment) /\ p.path \in Seq(PathSegment)
  BY DEF Identified, AsReport, ReportsOf
<1>3. CASE TemplatePath(o.path) # TemplatePath(p.path)
  BY <1>1, <1>2, <1>3, RoutesApart
<1>4. CASE TemplatePath(o.path) = TemplatePath(p.path)
  <2>1. ~(o.method = p.method /\ o.port = p.port /\ Folded(o.query) = Folded(p.query))
    BY <1>2, <1>4, HttpFoldedKey
  <2>2. ASSUME NEW a, AsReport(a) \in ReportsOf(W), a.kind = "http", a.path # <<>>
        PROVE  /\ OpMatches(a, AsReport(a), routes) = "strict" /\ AsReport(a).path = a.path
               /\ AsReport(a).method = a.method /\ AsReport(a).port = a.port /\ AsReport(a).query = a.query
               /\ RefKind(AsReport(a)) = "http"
    <3>1. StrictMatch(a.path, a.path, routes) = "exact"
      BY <2>2, TakesItself DEF StrictMatch, RoutedPathMatch, AsReport, ReportsOf
    <3>2. /\ AsReport(a).path = a.path /\ AsReport(a).method = a.method /\ AsReport(a).port = a.port
          /\ AsReport(a).query = a.query /\ RefKind(AsReport(a)) = "http"
      BY <2>2 DEF AsReport, RefKind, Kinds
    <3>3. Weakest({PathPass(a.path, a.path, routes), Loosely(a.method # NoVerb /\ a.method = NoVerb),
                   Loosely(a.port # a.port /\ a.port # NoPort)}) = "strict"
      BY <3>1 DEF Weakest, Loosely, PathPass, StrictMatch
    <3> QED
      BY <2>2, <3>2, <3>3 DEF OpMatches, HttpReaches, Only
  <2>3. ASSUME NEW a, NEW b, AsReport(b) \in ReportsOf(W), a.kind = "http", b.kind = "http", b.path # <<>>,
               OpMatches(a, AsReport(b), routes) = "strict"
        PROVE  /\ Folded(a.query) \subseteq Folded(b.query)
               /\ a.method \in {NoVerb, b.method} /\ a.port \in {NoPort, b.port}
    <3>1. /\ AsReport(b).path = b.path /\ AsReport(b).method = b.method /\ AsReport(b).port = b.port
          /\ AsReport(b).query = b.query /\ RefKind(AsReport(b)) = "http"
      BY <2>2, <2>3
    <3>2. HttpReaches(a, AsReport(b), routes) = "strict"
      BY <2>3, <3>1 DEF OpMatches
    <3>3. /\ Folded(a.query) \subseteq Folded(b.query)
          /\ a.method = NoVerb \/ b.method = NoVerb \/ a.method = b.method
          /\ a.port = NoPort \/ b.port \in {NoPort, a.port}
          /\ Weakest({PathPass(a.path, b.path, routes), Loosely(a.method # NoVerb /\ b.method = NoVerb),
                      Loosely(a.port # b.port /\ a.port # NoPort)}) = "strict"
      BY <3>1, <3>2 DEF HttpReaches, Only
    <3>4. /\ Loosely(a.method # NoVerb /\ b.method = NoVerb) = "strict"
          /\ Loosely(a.port # b.port /\ a.port # NoPort) = "strict"
      BY <3>3, PathPassIsPass, WeakestStrict DEF Loosely, PassNames
    <3> QED
      BY <3>3, <3>4 DEF Loosely
  <2>4. SUFFICES ASSUME OpMatches(p, AsReport(o), routes) = "strict", OpMatches(o, AsReport(p), routes) = "strict"
                 PROVE  FALSE
    BY <1>2, <2>2 DEF TellsApart
  <2>5. Folded(o.query) = Folded(p.query) /\ o.method = p.method /\ o.port = p.port
    <3>1. Folded(o.query) \subseteq Folded(p.query) /\ o.method \in {NoVerb, p.method} /\ o.port \in {NoPort, p.port}
      BY <1>2, <2>3, <2>4
    <3>2. Folded(p.query) \subseteq Folded(o.query) /\ p.method \in {NoVerb, o.method} /\ p.port \in {NoPort, o.port}
      BY <1>2, <2>3, <2>4
    <3> QED
      BY <3>1, <3>2
  <2> QED
    BY <2>1, <2>5
<1> QED
  BY <1>3, <1>4

LEMMA NameStrict ==
  ASSUME NEW want, NEW got
  PROVE  NamePass(want, got) = "strict" <=> got = want /\ got # Unspelt
BY DEF NamePass

LEMMA GraphqlApart ==
  ASSUME NEW W, Spoken(W), NEW o, NEW p, AsReport(o) \in ReportsOf(W), AsReport(p) \in ReportsOf(W),
         o.kind = "graphql", p.kind = "graphql", Identified(o), Identified(p), OpKey(o) # OpKey(p), NEW routes
  PROVE  TellsApart(o, p, routes, ReportsOf(W)) \/ TellsApart(p, o, routes, ReportsOf(W))
<1>1. "" \in W /\ "query" \in W /\ Unspelt \in NameFrom(W)
  BY DEF Spoken, Unspelt, NameFrom
<1> DEFINE reached(a, r) == GraphqlReaches(a, r) = "strict"
<1>2. ASSUME NEW a, NEW b, NEW r \in ReportsOf(W), a.kind = "graphql", b.kind = "graphql", r.kind = "graphql",
             reached(a, r), ~reached(b, r)
      PROVE  TellsApart(a, b, routes, ReportsOf(W))
  BY <1>2 DEF TellsApart, OpMatches, RefKind, Kinds
<1>3. ASSUME NEW a, NEW r, a.op # Unspelt
      PROVE  reached(a, r) <=> /\ Compatible(a.gqlKind, r.gqlKind) /\ CompatibleName(a.field, r.field)
                               /\ r.op = a.op
  BY <1>3, NameStrict DEF GraphqlReaches, Only
<1>4. ASSUME NEW a, NEW r, a.op = Unspelt
      PROVE  reached(a, r) <=> a.field # Unspelt /\ r.field = a.field
  BY <1>4, NameStrict DEF GraphqlReaches, Only
<1> HIDE DEF reached
<1>5. ASSUME NEW a, NEW b, AsReport(a) \in ReportsOf(W), a.kind = "graphql", b.kind = "graphql",
             a.op # Unspelt, b.op = Unspelt
      PROVE  TellsApart(a, b, routes, ReportsOf(W))
  <2> DEFINE r == [AsReport(a) EXCEPT !.field = Unspelt]
  <2>1. r \in ReportsOf(W) /\ r.kind = "graphql" /\ r.field = Unspelt /\ r.gqlKind = a.gqlKind /\ r.op = a.op
    BY <1>1, <1>5 DEF AsReport, ReportsOf
  <2> HIDE DEF r
  <2>2. CompatibleName(a.field, r.field) /\ Compatible(a.gqlKind, r.gqlKind)
    <3>1. Unspelt.w = ""
      BY DEF Unspelt
    <3> QED
      BY <2>1, <3>1, Zenon DEF CompatibleName, Compatible
  <2> QED
    BY <1>2, <1>3, <1>4, <1>5, <2>1, <2>2
<1>6. ASSUME NEW a, AsReport(a) \in ReportsOf(W), a.kind = "graphql", a.op # Unspelt, NEW k \in W, Compatible(a.gqlKind, k)
      PROVE  \E r \in ReportsOf(W) : /\ r.kind = "graphql" /\ r.gqlKind = k /\ r.op = a.op /\ r.field = a.field
                                     /\ reached(a, r)
  <2> DEFINE r == [AsReport(a) EXCEPT !.gqlKind = k]
  <2>1. r \in ReportsOf(W) /\ r.kind = "graphql" /\ r.field = a.field /\ r.gqlKind = k /\ r.op = a.op
    BY <1>6 DEF AsReport, ReportsOf
  <2> HIDE DEF r
  <2>2. CompatibleName(a.field, r.field) /\ Compatible(a.gqlKind, r.gqlKind)
    BY <1>6, <2>1 DEF CompatibleName, Compatible
  <2> QED
    BY <1>3, <1>6, <2>1, <2>2
<1>7. CASE o.op # Unspelt /\ p.op # Unspelt
  <2> DEFINE k == Or(o.gqlKind, "query")
  <2>1. k \in W /\ k # "" /\ Compatible(o.gqlKind, k)
    BY <1>1 DEF Or, Compatible, AsReport, ReportsOf
  <2>2. PICK r \in ReportsOf(W) : r.kind = "graphql" /\ r.gqlKind = k /\ r.op = o.op /\ r.field = o.field /\ reached(o, r)
    BY <1>6, <1>7, <2>1
  <2> DEFINE h == Or(p.gqlKind, "query")
  <2>3. h \in W /\ h # "" /\ Compatible(p.gqlKind, h)
    BY <1>1 DEF Or, Compatible, AsReport, ReportsOf
  <2>4. PICK s \in ReportsOf(W) : s.kind = "graphql" /\ s.gqlKind = h /\ s.op = p.op /\ s.field = p.field /\ reached(p, s)
    BY <1>6, <1>7, <2>3
  <2>5. <<"op", k, o.op>> # <<"op", h, p.op>>
    BY <1>7 DEF OpKey, RefKind, Kinds
  <2>6. CASE o.op # p.op
    BY <1>2, <1>3, <1>7, <2>2, <2>6
  <2>7. CASE o.op = p.op
    <3>1. k # h
      BY <2>5, <2>7
    <3>2. ~Compatible(o.gqlKind, h) \/ ~Compatible(p.gqlKind, k)
      BY <2>1, <2>3, <3>1 DEF Compatible, Or
    <3>3. ~reached(o, s) \/ ~reached(p, r)
      BY <1>3, <1>7, <2>2, <2>4, <3>2
    <3> QED
      BY <1>2, <2>2, <2>4, <3>3
  <2> QED
    BY <2>6, <2>7
<1>8. CASE o.op = Unspelt /\ p.op = Unspelt
  <2>1. o.field # Unspelt /\ p.field # Unspelt /\ o.field # p.field
    BY <1>8 DEF Identified, OpKey, RefKind, Kinds
  <2>2. AsReport(o).kind = "graphql" /\ AsReport(o).field = o.field
    BY DEF AsReport
  <2> QED
    BY <1>2, <1>4, <1>8, <2>1, <2>2
<1> QED
  BY <1>5, <1>7, <1>8

LEMMA WsApart ==
  ASSUME NEW W, Spoken(W), NEW o, NEW p, AsReport(o) \in ReportsOf(W), AsReport(p) \in ReportsOf(W),
         o.kind = "ws", p.kind = "ws", OpKey(o) # OpKey(p), NEW routes
  PROVE  TellsApart(o, p, routes, ReportsOf(W)) \/ TellsApart(p, o, routes, ReportsOf(W))
<1> DEFINE place(a, r) == IF a.path = <<>> THEN "strict"
                          ELSE IF r.path = <<>> THEN "loose" ELSE PathPass(a.path, r.path, {})
           reached(a, r) == /\ a.namespace \in {"", Or(r.namespace, "/")}
                            /\ Compatible(a.channel, r.channel) /\ (a.channel # "" => r.channel # "")
                            /\ a.event = r.event /\ place(a, r) = "strict"
<1>1. ASSUME NEW a, NEW r PROVE WsReaches(a, r) = "strict" <=> reached(a, r)
  <2>1. place(a, r) \in PassNames
    BY PathPassIsPass DEF PassNames
  <2> DEFINE open == /\ a.namespace \in {"", Or(r.namespace, "/")}
                     /\ Compatible(a.channel, r.channel) /\ (a.channel # "" => r.channel # "")
             pass == IF a.event = Unspelt THEN Only(r.event = Unspelt, place(a, r))
                     ELSE Weakest({place(a, r), NamePass(a.event, r.event)})
  <2>2. WsReaches(a, r) = Only(open, pass)
    BY Zenon DEF WsReaches
  <2> HIDE DEF place
  <2>3. pass = "strict" <=> a.event = r.event /\ place(a, r) = "strict"
    <3>1. CASE a.event = Unspelt
      BY <3>1 DEF Only
    <3>2. CASE a.event # Unspelt
      <4>1. {place(a, r), NamePass(a.event, r.event)} \subseteq PassNames
        BY <2>1, NamePassIsPass
      <4>2. Weakest({place(a, r), NamePass(a.event, r.event)}) = "strict"
              <=> place(a, r) = "strict" /\ NamePass(a.event, r.event) = "strict"
        BY <4>1, WeakestStrict
      <4> QED
        BY <3>2, <4>2, NameStrict
    <3> QED
      BY <3>1, <3>2
  <2> HIDE DEF open, pass
  <2>4. WsReaches(a, r) = "strict" <=> open /\ pass = "strict"
    BY <2>2 DEF Only
  <2> QED
    BY <2>3, <2>4 DEF open
<1> HIDE DEF reached
<1>2. ASSUME NEW a, NEW b, NEW r \in ReportsOf(W), a.kind = "ws", b.kind = "ws", r.kind = "ws",
             reached(a, r), ~reached(b, r)
      PROVE  TellsApart(a, b, routes, ReportsOf(W))
  BY <1>1, <1>2 DEF TellsApart, OpMatches, RefKind, Kinds
<1>3. ASSUME NEW a, AsReport(a) \in ReportsOf(W), a.kind = "ws", NEW ns \in W, a.namespace \in {"", Or(ns, "/")},
             NEW got \in Seq(PathSegment), a.path # <<>> => got # <<>> /\ StrictlyTakes(a.path, got)
      PROVE  \E r \in ReportsOf(W) : /\ r.kind = "ws" /\ r.namespace = ns /\ r.path = got /\ r.event = a.event
                                     /\ r.channel = a.channel /\ reached(a, r)
  <2> DEFINE r == [AsReport(a) EXCEPT !.namespace = ns, !.path = got]
  <2>1. r \in ReportsOf(W) /\ r.kind = "ws" /\ r.namespace = ns /\ r.path = got /\ r.event = a.event /\ r.channel = a.channel
    BY <1>3 DEF AsReport, ReportsOf
  <2> HIDE DEF r
  <2>2. place(a, r) = "strict"
    BY <1>3, <2>1 DEF StrictlyTakes, PathPass, RoutedPathMatch
  <2>3. reached(a, r)
    BY <1>3, <2>1, <2>2 DEF reached, Compatible
  <2> QED
    BY <2>1, <2>3
<1>4. "" \in W /\ "query" \in W /\ "/" \in W
  BY DEF Spoken
<1>5. ASSUME NEW a, AsReport(a) \in ReportsOf(W), a.kind = "ws"
      PROVE  /\ a.path \in Seq(PathSegment) /\ a.namespace \in W
             /\ a.path # <<>> => StrictlyTakes(a.path, a.path)
             /\ a.namespace \in {"", Or(a.namespace, "/")}
  BY <1>5, TakesItself DEF AsReport, ReportsOf, StrictlyTakes, Or
<1>6. ASSUME NEW a, NEW b, AsReport(a) \in ReportsOf(W), AsReport(b) \in ReportsOf(W), a.kind = "ws", b.kind = "ws",
             NEW ns \in W, a.namespace \in {"", Or(ns, "/")}, b.namespace \notin {"", Or(ns, "/")}
      PROVE  TellsApart(a, b, routes, ReportsOf(W))
  <2>1. PICK r \in ReportsOf(W) : r.kind = "ws" /\ r.namespace = ns /\ reached(a, r)
    BY <1>3, <1>5, <1>6
  <2>2. ~reached(b, r)
    BY <1>6, <2>1 DEF reached
  <2> QED
    BY <1>2, <1>6, <2>1, <2>2
<1>7. CASE o.namespace # p.namespace
  <2>1. ASSUME NEW a, NEW b, AsReport(a) \in ReportsOf(W), AsReport(b) \in ReportsOf(W), a.kind = "ws", b.kind = "ws",
               a.namespace # b.namespace, b.namespace # ""
        PROVE  TellsApart(a, b, routes, ReportsOf(W))
    <3> DEFINE ns == IF a.namespace # "" THEN a.namespace ELSE IF b.namespace = "/" THEN "query" ELSE ""
    <3>1. ns \in W /\ a.namespace \in {"", Or(ns, "/")} /\ b.namespace \notin {"", Or(ns, "/")}
      BY <1>4, <1>5, <2>1 DEF Or
    <3> HIDE DEF ns
    <3> QED
      BY <1>6, <2>1, <3>1
  <2> QED
    BY <1>7, <2>1
<1>8. CASE o.channel # p.channel \/ o.event # p.event
  <2>1. ASSUME NEW a, NEW b, AsReport(a) \in ReportsOf(W), AsReport(b) \in ReportsOf(W), a.kind = "ws", b.kind = "ws",
               (a.channel # b.channel /\ b.channel # "") \/ a.event # b.event
        PROVE  TellsApart(a, b, routes, ReportsOf(W))
    <3>1. PICK r \in ReportsOf(W) : r.kind = "ws" /\ r.event = a.event /\ r.channel = a.channel /\ reached(a, r)
      BY <1>3, <1>5, <2>1
    <3>2. ~reached(b, r)
      BY <2>1, <3>1 DEF reached, Compatible
    <3> QED
      BY <1>2, <2>1, <3>1, <3>2
  <2> QED
    BY <1>8, <2>1
<1>9. CASE TemplatePath(o.path) # TemplatePath(p.path)
  <2>1. ASSUME NEW a, NEW b, AsReport(a) \in ReportsOf(W), AsReport(b) \in ReportsOf(W), a.kind = "ws", b.kind = "ws",
               NEW got \in Seq(PathSegment), a.path # <<>> => got # <<>> /\ StrictlyTakes(a.path, got),
               b.path # <<>>, got = <<>> \/ ~StrictlyTakes(b.path, got)
        PROVE  TellsApart(a, b, routes, ReportsOf(W))
    <3>1. PICK r \in ReportsOf(W) : r.kind = "ws" /\ r.path = got /\ reached(a, r)
      BY <1>3, <1>5, <2>1
    <3>2. place(b, r) # "strict"
      BY <2>1, <3>1 DEF StrictlyTakes, PathPass, RoutedPathMatch
    <3>3. ~reached(b, r)
      BY <3>2 DEF reached
    <3> QED
      BY <1>2, <2>1, <3>1, <3>3
  <2>2. CASE o.path = <<>>
    <3>1. p.path # <<>>
      BY <1>9, <2>2
    <3> QED
      BY <1>5, <2>1, <2>2, <3>1
  <2>3. CASE p.path = <<>>
    <3>1. o.path # <<>>
      BY <1>9, <2>3
    <3> QED
      BY <1>5, <2>1, <2>3, <3>1
  <2>4. CASE o.path # <<>> /\ p.path # <<>>
    <3>1. PICK got \in Seq(PathSegment) : got # <<>> /\ (StrictlyTakes(o.path, got) <=> ~StrictlyTakes(p.path, got))
      BY <1>5, <1>9, <2>4, PathsApart
    <3> QED
      BY <2>1, <2>4, <3>1
  <2> QED
    BY <2>2, <2>3, <2>4
<1>10. <<"ws", TemplatePath(o.path), o.namespace, o.event, o.channel>> # <<"ws", TemplatePath(p.path), p.namespace, p.event, p.channel>>
  BY DEF OpKey, RefKind, Kinds
<1> QED
  BY <1>7, <1>8, <1>9, <1>10

LEMMA LlmApart ==
  ASSUME NEW W, Spoken(W), NEW o, NEW p, AsReport(o) \in ReportsOf(W), AsReport(p) \in ReportsOf(W),
         o.kind = "llm", p.kind = "llm", Identified(o), Identified(p), OpKey(o) # OpKey(p), NEW routes
  PROVE  TellsApart(o, p, routes, ReportsOf(W)) \/ TellsApart(p, o, routes, ReportsOf(W))
<1> DEFINE reached(a, r) == IF a.tool # Unspelt THEN Compatible(a.injection, r.injection) /\ r.tool = a.tool
                            ELSE a.injection # "" /\ a.injection = r.injection
<1>1. ASSUME NEW a, NEW b, NEW r \in ReportsOf(W), a.kind = "llm", b.kind = "llm", r.kind = "llm",
             reached(a, r), ~reached(b, r)
      PROVE  TellsApart(a, b, routes, ReportsOf(W))
  <2>1. \A x : LlmReaches(x, r) = "strict" <=> reached(x, r)
    <3> SUFFICES ASSUME NEW x PROVE LlmReaches(x, r) = "strict" <=> reached(x, r)
      OBVIOUS
    <3>1. CASE x.tool # Unspelt
      BY <3>1, NameStrict DEF LlmReaches, Only
    <3>2. CASE x.tool = Unspelt
      BY <3>2 DEF LlmReaches, Only
    <3> QED
      BY <3>1, <3>2
  <2> QED
    BY <1>1, <2>1 DEF TellsApart, OpMatches, RefKind, Kinds
<1>2. "" \in W
  BY DEF Spoken
<1>3. ASSUME NEW a, NEW b, AsReport(a) \in ReportsOf(W), a.kind = "llm", b.kind = "llm", a.tool # Unspelt, b.tool # a.tool,
             b.tool # Unspelt \/ b.injection # ""
      PROVE  TellsApart(a, b, routes, ReportsOf(W))
  <2> DEFINE r == [AsReport(a) EXCEPT !.injection = ""]
  <2>1. r \in ReportsOf(W) /\ r.kind = "llm" /\ r.tool = a.tool /\ r.injection = ""
    BY <1>2, <1>3 DEF AsReport, ReportsOf
  <2> HIDE DEF r
  <2>2. reached(a, r) /\ ~reached(b, r)
    BY <1>3, <2>1 DEF Compatible
  <2> QED
    BY <1>1, <1>3, <2>1, <2>2
<1>4. CASE o.tool # Unspelt \/ p.tool # Unspelt
  <2>1. o.tool # p.tool
    BY <1>4 DEF OpKey, RefKind, Kinds
  <2> QED
    BY <1>3, <1>4, <2>1 DEF Identified
<1>5. CASE o.tool = Unspelt /\ p.tool = Unspelt
  <2>1. o.injection # "" /\ p.injection # "" /\ o.injection # p.injection
    BY <1>5 DEF Identified, OpKey, RefKind, Kinds
  <2>2. AsReport(o).kind = "llm" /\ AsReport(o).injection = o.injection
    BY DEF AsReport
  <2> QED
    BY <1>1, <1>5, <2>1, <2>2
<1> QED
  BY <1>4, <1>5

LEMMA NetApart ==
  ASSUME NEW W, NEW o, NEW p, AsReport(o) \in ReportsOf(W), AsReport(p) \in ReportsOf(W),
         o.kind = "net", p.kind = "net", Identified(o), Identified(p), OpKey(o) # OpKey(p), NEW routes
  PROVE  TellsApart(o, p, routes, ReportsOf(W)) \/ TellsApart(p, o, routes, ReportsOf(W))
<1> DEFINE reached(a, r) == /\ a.port # NoPort /\ a.port = r.port /\ Or(a.proto, "tcp") = Or(r.proto, "tcp")
                            /\ Compatible(a.host, r.host) /\ (a.host # "" => r.host # "")
<1>1. ASSUME NEW a, NEW b, AsReport(a) \in ReportsOf(W), a.kind = "net", b.kind = "net",
             reached(a, a), ~reached(b, a)
      PROVE  TellsApart(a, b, routes, ReportsOf(W))
  <2>1. \A x, r : NetReaches(x, r) = "strict" <=> reached(x, r)
    BY DEF NetReaches, Only, Loosely
  <2>2. /\ AsReport(a).kind = "net" /\ AsReport(a).port = a.port /\ AsReport(a).proto = a.proto /\ AsReport(a).host = a.host
    BY <1>1 DEF AsReport
  <2>3. reached(a, AsReport(a)) /\ ~reached(b, AsReport(a))
    BY <1>1, <2>2
  <2> HIDE DEF reached
  <2>4. RefKind(AsReport(a)) = "net"
    BY <2>2 DEF RefKind, Kinds
  <2>5. PICK r : r = AsReport(a)
    OBVIOUS
  <2>6. OpMatches(a, r, routes) = NetReaches(a, r) /\ OpMatches(b, r, routes) = NetReaches(b, r)
    BY <1>1, <2>4, <2>5 DEF OpMatches
  <2>7. NetReaches(a, r) = "strict" /\ NetReaches(b, r) # "strict"
    BY <2>1, <2>3, <2>5
  <2> QED
    BY <1>1, <2>5, <2>6, <2>7 DEF TellsApart
<1>2. reached(o, o) /\ reached(p, p)
  BY DEF Identified, Compatible
<1>3. <<"net", o.host, o.port, Or(o.proto, "tcp")>> # <<"net", p.host, p.port, Or(p.proto, "tcp")>>
  BY DEF OpKey, RefKind, Kinds
<1>4. ~reached(o, p) \/ ~reached(p, o)
  BY <1>3 DEF Compatible
<1> QED
  BY <1>1, <1>2, <1>4

\* A report of the operation itself reaches it.
LEMMA ReachedByItself ==
  ASSUME NEW W, NEW o, AsReport(o) \in ReportsOf(W), Identified(o), NEW routes
  PROVE  OpMatches(o, AsReport(o), routes) = "strict"
<1> DEFINE r == AsReport(o)
<1>1. o.kind \in {"http", "graphql", "ws", "llm", "net"}
  BY DEF Identified
<1>2. /\ r.kind = o.kind /\ r.path = o.path /\ r.method = o.method /\ r.port = o.port /\ r.query = o.query
      /\ r.op = o.op /\ r.gqlKind = o.gqlKind /\ r.field = o.field
      /\ r.event = o.event /\ r.channel = o.channel /\ r.namespace = o.namespace
      /\ r.tool = o.tool /\ r.injection = o.injection /\ r.host = o.host /\ r.proto = o.proto
  BY DEF AsReport
<1>3. o.path \in Seq(PathSegment)
  BY DEF AsReport, ReportsOf
<1>4. \A table : PathPass(o.path, o.path, table) = "strict"
  BY <1>3, TakesItself DEF PathPass, RoutedPathMatch
<1>5. \A x : Compatible(x, x) /\ CompatibleName(x, x) /\ (x # Unspelt => NamePass(x, x) = "strict")
  BY DEF Compatible, CompatibleName, NamePass
<1> HIDE DEF r
<1>6. RefKind(r) = o.kind
  BY <1>1, <1>2 DEF RefKind, Kinds
<1>7. CASE o.kind = "http"
  <2>1. Weakest({PathPass(o.path, o.path, routes), Loosely(o.method # NoVerb /\ o.method = NoVerb),
                 Loosely(o.port # o.port /\ o.port # NoPort)}) = "strict"
    BY <1>4 DEF Weakest, Loosely
  <2>2. o.path # <<>>
    BY <1>7 DEF Identified
  <2> QED
    BY <1>2, <1>6, <1>7, <2>1, <2>2 DEF OpMatches, HttpReaches, Only, r
<1>8. CASE o.kind = "graphql"
  <2>1. o.op # Unspelt \/ o.field # Unspelt
    BY <1>8 DEF Identified
  <2>2. GraphqlReaches(o, r) = "strict"
    BY <1>2, <1>5, <2>1 DEF GraphqlReaches, Only
  <2> QED
    BY <1>6, <1>8, <2>2, Zenon DEF OpMatches, r
<1>9. CASE o.kind = "ws"
  <2>1. o.namespace \in {"", Or(o.namespace, "/")}
    BY DEF Or
  <2> DEFINE place == IF o.path = <<>> THEN "strict" ELSE IF o.path = <<>> THEN "loose" ELSE PathPass(o.path, o.path, {})
  <2>2. place = "strict"
    BY <1>4
  <2>3. WsReaches(o, r) = Only(/\ o.namespace \in {"", Or(o.namespace, "/")}
                               /\ Compatible(o.channel, o.channel) /\ (o.channel # "" => o.channel # ""),
                               IF o.event = Unspelt THEN Only(o.event = Unspelt, place)
                               ELSE Weakest({place, NamePass(o.event, o.event)}))
    BY <1>2, Zenon DEF WsReaches
  <2> HIDE DEF place
  <2>4. WsReaches(o, r) = "strict"
    BY <1>5, <2>1, <2>2, <2>3 DEF Only, Weakest
  <2> QED
    BY <1>6, <1>9, <2>4, Zenon DEF OpMatches, r
<1>10. CASE o.kind = "llm"
  <2>1. o.tool # Unspelt \/ o.injection # ""
    BY <1>10 DEF Identified
  <2>2. LlmReaches(o, r) = "strict"
    BY <1>2, <1>5, <2>1 DEF LlmReaches, Only
  <2> QED
    BY <1>6, <1>10, <2>2, Zenon DEF OpMatches, r
<1>11. CASE o.kind = "net"
  <2>1. o.port # NoPort
    BY <1>11 DEF Identified
  <2>2. NetReaches(o, r) = "strict"
    BY <1>2, <1>5, <2>1 DEF NetReaches, Only, Loosely
  <2> QED
    BY <1>6, <1>11, <2>2, Zenon DEF OpMatches, r
<1> QED
  BY <1>1, <1>7, <1>8, <1>9, <1>10, <1>11 DEF r

LEMMA OperationsApart ==
  ASSUME NEW W, Spoken(W), NEW o, NEW p, AsReport(o) \in ReportsOf(W), AsReport(p) \in ReportsOf(W),
         Identified(o), Identified(p), FoldedKey(o) # FoldedKey(p),
         NEW routes, o.kind = "http" => o.path \in routes, p.kind = "http" => p.path \in routes
  PROVE  TellsApart(o, p, routes, ReportsOf(W)) \/ TellsApart(p, o, routes, ReportsOf(W))
<1>1. o.kind \in {"http", "graphql", "ws", "llm", "net"} /\ p.kind \in {"http", "graphql", "ws", "llm", "net"}
  BY DEF Identified
<1>2. CASE o.kind = p.kind
  <2>1. CASE o.kind = "http"
    BY <1>2, <2>1, HttpApart
  <2>2. CASE o.kind # "http"
    BY <1>1, <1>2, <2>2, OtherFoldedKey, GraphqlApart, WsApart, LlmApart, NetApart
  <2> QED
    BY <2>1, <2>2
<1>3. CASE o.kind # p.kind
  <2>1. RefKind(AsReport(o)) = o.kind
    BY <1>1 DEF AsReport, RefKind, Kinds
  <2>2. OpMatches(p, AsReport(o), routes) = "none"
    BY <1>3, <2>1 DEF OpMatches
  <2> QED
    BY <2>2, ReachedByItself DEF TellsApart
<1> QED
  BY <1>2, <1>3

ToldApart(ops) == \E r \in Reports : Cardinality({OpMatches(o, r, SurfaceRoutes(ops)) : o \in ops}) > 1

\* What a catalog question is answered.
CatalogAnswer ==
  /\ ask \in Questions
  /\ told.is = "catalog" =>
       /\ ask.about = "catalog"
       /\ told = [is |-> "catalog", valid |-> ValidSurface(ask.ops), apart |-> ToldApart(ask.ops)]

LEMMA CatalogAnswered == RulesSpec => []CatalogAnswer
<1>1. RulesInit => CatalogAnswer
  BY DEF RulesInit, CatalogAnswer, NotTold
<1>2. CatalogAnswer /\ [RulesNext]_rvars => CatalogAnswer'
  <2> SUFFICES ASSUME CatalogAnswer, [RulesNext]_rvars PROVE CatalogAnswer'
    OBVIOUS
  <2>1. CASE AnswerCatalog /\ UNCHANGED ask
    BY <2>1, Zenon DEF AnswerCatalog, CatalogAnswer, ToldApart
  <2>2. ASSUME told'.is # "catalog", UNCHANGED ask PROVE CatalogAnswer'
    BY <2>2 DEF CatalogAnswer
  <2>3. CASE UNCHANGED rvars
    BY <2>3 DEF rvars, CatalogAnswer
  <2>4. AnswerPath \/ AnswerPair \/ AnswerTrack \/ AnswerStrip \/ AnswerImage \/ AnswerReport \/ AnswerCoverage
        => told'.is # "catalog"
    BY OwnKind
  <2> QED
    BY <2>1, <2>2, <2>3, <2>4 DEF RulesNext
<1> QED
  BY <1>1, <1>2, PTL DEF RulesSpec

\* For every catalog that make check accepts (surface.ts, invariants.ts), whatever its
\* protocols: of two of its operations whose keys differ by more than the case of a query
\* value, some report reaches the one and not the other as well, so the two are never one
\* row of the coverage track.  Reports has to hold every report there may be.
THEOREM AcceptedIsDistinguishable ==
  ASSUME NEW W, Spoken(W), ReportsOf(W) \subseteq Reports,
         \A q \in Questions : q.about = "catalog" => \A o \in q.ops : AsReport(o) \in ReportsOf(W)
  PROVE  RulesSpec => []Distinguishable
<1>1. CatalogAnswer => Distinguishable
  <2> SUFFICES ASSUME CatalogAnswer, told.is = "catalog", told.valid,
                      NEW o \in ask.ops, NEW p \in ask.ops, FoldedKey(o) # FoldedKey(p)
               PROVE  told.apart
    BY DEF Distinguishable
  <2> DEFINE routes == SurfaceRoutes(ask.ops)
             answers(r) == {OpMatches(q, r, routes) : q \in ask.ops}
  <2>2. Identified(o) /\ Identified(p)
    <3>1. ValidSurface(ask.ops)
      BY DEF CatalogAnswer
    <3> QED
      BY <3>1, Zenon DEF ValidSurface
  <2>3. (o.kind = "http" => o.path \in routes) /\ (p.kind = "http" => p.path \in routes)
    BY <2>2 DEF SurfaceRoutes, Identified
  <2>4. AsReport(o) \in ReportsOf(W) /\ AsReport(p) \in ReportsOf(W)
    BY DEF CatalogAnswer
  <2> HIDE DEF routes
  <2>5. PICK r \in ReportsOf(W) : OpMatches(o, r, routes) # OpMatches(p, r, routes)
    BY <2>2, <2>3, <2>4, OperationsApart DEF TellsApart
  <2>6. answers(r) \subseteq {"none", "loose", "strict"}
    BY MatchIsPass DEF PassNames
  <2>7. IsFiniteSet(answers(r))
    <3>1. IsFiniteSet({"none", "loose", "strict"})
      <4>1. IsFiniteSet({"none"} \cup {"loose"})
        BY FS_Singleton, FS_AddElement
      <4>2. IsFiniteSet(({"none"} \cup {"loose"}) \cup {"strict"})
        BY <4>1, FS_AddElement
      <4>3. {"none", "loose", "strict"} = ({"none"} \cup {"loose"}) \cup {"strict"}
        OBVIOUS
      <4> QED
        BY <4>2, <4>3
    <3> HIDE DEF answers
    <3> QED
      BY <2>6, <3>1, FS_Subset
  <2>8. Cardinality(answers(r)) > 1
    <3>1. OpMatches(o, r, routes) \in answers(r) /\ OpMatches(p, r, routes) \in answers(r)
      OBVIOUS
    <3> HIDE DEF answers
    <3>2. Cardinality(answers(r)) \in Nat /\ answers(r) # {}
      BY <2>7, <3>1, FS_CardinalityType
    <3>3. Cardinality(answers(r)) # 0
      BY <2>7, <3>2, FS_EmptySet
    <3>4. Cardinality(answers(r)) # 1
      <4>1. \A x : answers(r) # {x}
        BY <2>5, <3>1
      <4> QED
        BY <2>7, <4>1, FS_Singleton
    <3> QED
      BY <3>2, <3>3, <3>4
  <2>9. told.apart = ToldApart(ask.ops)
    BY DEF CatalogAnswer
  <2>10. r \in Reports /\ Cardinality({OpMatches(y, r, SurfaceRoutes(ask.ops)) : y \in ask.ops}) > 1
    BY <2>8 DEF routes
  <2> QED
    BY <2>9, <2>10, Zenon DEF ToldApart
<1> QED
  BY <1>1, CatalogAnswered, PTL

-----------------------------------------------------------------------------
(* What is read of a report reads the same again: the values. *)

LEMMA FoldAgain == ASSUME NEW s PROVE Fold(Fold(s)) = Fold(s)
BY DEF Fold, Respelt

Severities  == {"info", "low", "medium", "high", "critical", ""}
Confidences == {"certain", "firm", "tentative", ""}

LEMMA SeverityAgain == ASSUME NEW s PROVE Severity(Fold(Severity(s))) = Severity(s)
<1>1. Severity(s) \in Severities
  BY DEF Severity, Severities
<1>2. ASSUME NEW w \in Severities PROVE Severity(Fold(w)) = w
  BY <1>2 DEF Severities, Severity, Fold, Respelt
<1> QED
  BY <1>1, <1>2

LEMMA ConfidenceAgain == ASSUME NEW s PROVE Confidence(Fold(Confidence(s))) = Confidence(s)
<1>1. Confidence(s) \in Confidences
  BY DEF Confidence, Confidences
<1>2. ASSUME NEW w \in Confidences PROVE Confidence(Fold(w)) = w
  BY <1>2 DEF Confidences, Confidence, Fold, Respelt
<1> QED
  BY <1>1, <1>2

LEMMA CweAgain ==
  ASSUME NEW n \in Int
  PROVE  NormalizeCwe(n) \in Int /\ NormalizeCwe(NormalizeCwe(n)) = NormalizeCwe(n)
BY DEF NormalizeCwe, Garbled, NoCwe

LEMMA CwesAgain ==
  ASSUME NEW C \in SUBSET Int
  PROVE  LET said == {NormalizeCwe(c) : c \in C} \ {NoCwe} IN
         said \in SUBSET Int /\ {NormalizeCwe(c) : c \in said} \ {NoCwe} = said
BY CweAgain

LEMMA FieldAgain ==
  ASSUME NEW k, NEW n, NEW v
  PROVE  CoerceField(k, n, CoerceField(k, n, v)) = CoerceField(k, n, v)
<1>1. Number(Number(v)) = Number(v)
  BY DEF Number
<1>2. ASSUME NEW d \in {"", "tcp"} PROVE Fallback(Fold(Fallback(Fold(v), d)), d) = Fallback(Fold(v), d)
  <2>1. Fold(d) = d
    BY <1>2 DEF Fold, Respelt
  <2>2. CASE Fold(v) = ""
    BY <2>1, <2>2 DEF Fallback
  <2>3. CASE Fold(v) # ""
    BY <2>3, FoldAgain DEF Fallback
  <2> QED
    BY <2>2, <2>3
<1> QED
  BY <1>1, <1>2 DEF CoerceField

\* The place of a finding that was read, written down.
PlaceOf(location) == [k \in DOMAIN NoPlaces |-> IF k \in DOMAIN location THEN Object(location[k]) ELSE Absent]

\* What a place reads as.
Settled(location) ==
  /\ DOMAIN location # {}
  /\ CoerceLocation(PlaceOf(location)) = location
  /\ DOMAIN FindingAnchors(location) # {}

LEMMA LocationSettles == ASSUME NEW p, DOMAIN CoerceLocation(p) # {} PROVE Settled(CoerceLocation(p))
<1> DEFINE flat == \A k \in LocationKinds : p[k].t = "absent" /\ k \notin DOMAIN p["flat"].f
           src  == [k \in LocationKinds |-> IF flat THEN Lifted(k, p["flat"].f) ELSE p[k]]
           K    == {x \in LocationKinds : src[x].t = "object"}
           read == [k \in K |-> [n \in Fields[k] |-> CoerceField(k, n, Says(src[k].f, n))]]
           T    == {x \in K : \E n \in Tells[x] : read[x][n] # ""}
           loc  == CoerceLocation(p)
           q    == PlaceOf(loc)
<1>1. loc = [k \in T |-> read[k]]
  BY DEF CoerceLocation
<1> HIDE DEF loc
<1>2. DOMAIN loc = T /\ T # {} /\ \A k \in T : loc[k] = read[k]
  BY <1>1 DEF loc
<1>3. T \subseteq LocationKinds /\ "flat" \notin LocationKinds /\ "flat" \notin T
  BY DEF LocationKinds
<1>4. ASSUME NEW k \in T
      PROVE  /\ DOMAIN loc[k] = Fields[k]
             /\ \A n \in Fields[k] : CoerceField(k, n, Says(loc[k], n)) = loc[k][n]
             /\ \E n \in Tells[k] : loc[k][n] # ""
             /\ loc[k] = [n \in Fields[k] |-> CoerceField(k, n, Says(loc[k], n))]
  <2>1. loc[k] = [n \in Fields[k] |-> CoerceField(k, n, Says(src[k].f, n))]
    BY <1>2, <1>4
  <2>2. ASSUME NEW n \in Fields[k] PROVE CoerceField(k, n, Says(loc[k], n)) = loc[k][n]
    <3> HIDE DEF src, T
    <3>1. n \in DOMAIN loc[k] /\ loc[k][n] = CoerceField(k, n, Says(src[k].f, n))
      BY <2>1
    <3>2. Says(loc[k], n) = loc[k][n]
      BY <3>1 DEF Says
    <3> QED
      BY <3>1, <3>2, FieldAgain
  <2>3. \E n \in Tells[k] : loc[k][n] # ""
    BY <1>2, <1>4
  <2> HIDE DEF read, src, T
  <2> QED
    BY <2>1, <2>2, <2>3
<1> HIDE DEF T, read, src, flat
<1>5. q = [k \in LocationKinds \cup {"flat"} |-> IF k \in T THEN Object(loc[k]) ELSE Absent]
  BY <1>2 DEF PlaceOf, NoPlaces
<1> HIDE DEF q
<1>6. /\ \A k \in T : q[k].t = "object" /\ q[k].f = loc[k]
      /\ \A k \in LocationKinds \ T : q[k].t = "absent"
  <2>1. ASSUME NEW k \in T PROVE q[k].t = "object" /\ q[k].f = loc[k]
    <3>1. q[k] = [t |-> "object", f |-> loc[k]]
      BY <1>3, <1>5 DEF Object
    <3> QED
      BY <3>1
  <2>2. ASSUME NEW k \in LocationKinds \ T PROVE q[k].t = "absent"
    <3>1. q[k] = [t |-> "absent", f |-> <<>>]
      BY <1>5 DEF Absent
    <3> QED
      BY <3>1
  <2> QED
    BY <2>1, <2>2, Zenon
<1> DEFINE flat2 == \A k \in LocationKinds : q[k].t = "absent" /\ k \notin DOMAIN q["flat"].f
           src2  == [k \in LocationKinds |-> IF flat2 THEN Lifted(k, q["flat"].f) ELSE q[k]]
           K2    == {x \in LocationKinds : src2[x].t = "object"}
           read2 == [k \in K2 |-> [n \in Fields[k] |-> CoerceField(k, n, Says(src2[k].f, n))]]
           T2    == {x \in K2 : \E n \in Tells[x] : read2[x][n] # ""}
<1>7. ~flat2
  <2>1. PICK k \in T : TRUE
    BY <1>2
  <2>2. k \in LocationKinds /\ q[k].t # "absent"
    BY <1>3, <1>6
  <2> QED
    BY <2>2
<1>8. \A k \in LocationKinds : src2[k] = q[k]
  BY <1>7
<1>9. K2 = T
  <2>1. \A k \in LocationKinds : src2[k].t = q[k].t
    BY <1>8
  <2> HIDE DEF src2
  <2> QED
    BY <1>3, <1>6, <2>1
<1>10. ASSUME NEW k \in T PROVE read2[k] = loc[k]
  <2>1. src2[k].f = loc[k]
    <3> HIDE DEF src2
    <3> QED
      BY <1>3, <1>6, <1>8
  <2>2. read2[k] = [n \in Fields[k] |-> CoerceField(k, n, Says(src2[k].f, n))]
    BY <1>9
  <2> QED
    BY <1>4, <2>1, <2>2
<1>11. T2 = T
  <2> HIDE DEF read2, K2, src2, flat2
  <2>1. ASSUME NEW k \in T PROVE \E n \in Tells[k] : read2[k][n] # ""
    <3>1. PICK n \in Tells[k] : loc[k][n] # ""
      BY <1>4
    <3>2. read2[k] = loc[k]
      BY <1>10, Zenon
    <3> QED
      BY <3>1, <3>2, Zenon
  <2> QED
    BY <1>9, <2>1
<1>12. CoerceLocation(q) = [k \in T2 |-> read2[k]]
  <2>1. DOMAIN read2 = K2
    OBVIOUS
  <2> QED
    BY <2>1 DEF CoerceLocation
<1> HIDE DEF T2, read2, q
<1>13. CoerceLocation(q) = loc
  <2>1. loc = [k \in T |-> loc[k]]
    BY <1>1, <1>2
  <2> QED
    BY <1>10, <1>11, <1>12, <2>1
<1>14. DOMAIN FindingAnchors(loc) = T
  BY <1>2, <1>4 DEF FindingAnchors
<1> QED
  BY <1>2, <1>13, <1>14 DEF Settled, q, loc

-----------------------------------------------------------------------------
(* The items, one after the other. *)

\* What an id is made of.
Part == Nat \cup STRING \cup {"f", "zap", "sarif", "nuclei", "burp", "nmap"}

IsItem(raw) == raw.obj \in BOOLEAN /\ raw.id \in Seq(Part) /\ raw.cwe \in Int /\ raw.cwes \in SUBSET Int
AreItems(items) == IsList(items) /\ \A i \in DOMAIN items : IsItem(items[i])

LEMMA OwnIdIsId ==
  ASSUME NEW raw, IsItem(raw), NEW i \in Nat
  PROVE  /\ OwnId(raw, i) \in Seq(Part) /\ OwnId(raw, i) # <<>>
         /\ MadeUp(raw, i) \in Seq(Part) /\ MadeUp(raw, i) # <<>>
         /\ MadeUp(raw, i)[Len(MadeUp(raw, i))] = i /\ Len(MadeUp(raw, i)) = Len(OwnId(raw, i)) + 1
<1>1. i \in Part /\ "f" \in Part
  BY DEF Part
<1>2. OwnId(raw, i) \in Seq(Part) /\ OwnId(raw, i) # <<>>
  <2>1. <<"f", i>> \in Seq(Part) /\ <<"f", i>> # <<>>
    BY <1>1
  <2> QED
    BY <2>1 DEF OwnId, IsItem
<1> DEFINE own == OwnId(raw, i)
<1>3. own \in Seq(Part) /\ own # <<>>
  BY <1>2
<1> HIDE DEF own
<1>4. Append(own, i) \in Seq(Part) /\ Append(own, i) # <<>> /\ Append(own, i)[Len(Append(own, i))] = i
      /\ Len(Append(own, i)) = Len(own) + 1
  BY <1>1, <1>3
<1> QED
  BY <1>2, <1>4 DEF MadeUp, own

\* Two items are not given the same id, and none is given one that another goes by.
LEMMA MadeUpIsNew ==
  ASSUME NEW a, IsItem(a), NEW b, IsItem(b), NEW i \in Nat, NEW j \in Nat, i # j, b.id # MadeUp(a, i)
  PROVE  MadeUp(a, i) # MadeUp(b, j) /\ MadeUp(a, i) # OwnId(b, j)
<1>1. MadeUp(a, i) # MadeUp(b, j)
  BY OwnIdIsId
<1>2. CASE b.id = <<>>
  <2>1. OwnId(b, j) = <<"f", j>> /\ OwnId(b, j)[Len(OwnId(b, j))] = j
    BY <1>2 DEF OwnId
  <2> QED
    BY <1>1, <2>1, OwnIdIsId
<1>3. CASE b.id # <<>>
  BY <1>1, <1>3 DEF OwnId
<1> QED
  BY <1>2, <1>3

\* A finding reads again as itself, and can be compared by something.
FindingSettled(f) ==
  /\ f.id \in Seq(Part) /\ f.id # <<>>
  /\ Settled(f.location)
  /\ FindingOf(ItemOf(f), f.id, f.location) = f
  /\ ItemOf(f).cwe \in Int /\ ItemOf(f).cwes \in SUBSET Int

LEMMA FindingSettles ==
  ASSUME NEW raw, IsItem(raw), NEW id \in Seq(Part), id # <<>>, DOMAIN CoerceLocation(raw.place) # {}
  PROVE  FindingSettled(FindingOf(raw, id, CoerceLocation(raw.place)))
<1> DEFINE loc == CoerceLocation(raw.place)
           cwe == NormalizeCwe(raw.cwe)
           cwes == {NormalizeCwe(c) : c \in raw.cwes} \ {NoCwe}
           f   == FindingOf(raw, id, loc)
<1>1. Settled(loc)
  BY LocationSettles
<1>2. cwe \in Int /\ NormalizeCwe(cwe) = cwe
  BY CweAgain DEF IsItem
<1>3. cwes \in SUBSET Int /\ {NormalizeCwe(c) : c \in cwes} \ {NoCwe} = cwes
  BY CwesAgain DEF IsItem
<1> HIDE DEF cwe, cwes, loc
<1>4. f = [id |-> id, cwe |-> cwe, cwes |-> cwes, severity |-> Severity(Fold(raw.severity)),
           confidence |-> Confidence(Fold(raw.confidence)), location |-> loc, markers |-> raw.markers,
           exploited |-> raw.exploited]
  BY DEF FindingOf, cwe, cwes
<1> HIDE DEF f
<1>5. /\ ItemOf(f).cwe = cwe /\ ItemOf(f).cwes = cwes /\ ItemOf(f).markers = f.markers /\ ItemOf(f).exploited = f.exploited
      /\ ItemOf(f).severity = f.severity /\ ItemOf(f).confidence = f.confidence
  BY <1>4 DEF ItemOf
<1>6. Severity(Fold(f.severity)) = f.severity /\ Confidence(Fold(f.confidence)) = f.confidence
  BY <1>4, SeverityAgain, ConfidenceAgain
<1>7. FindingOf(ItemOf(f), f.id, f.location) =
        [id |-> f.id, cwe |-> cwe, cwes |-> cwes, severity |-> f.severity, confidence |-> f.confidence,
         location |-> f.location, markers |-> f.markers, exploited |-> f.exploited]
  BY <1>2, <1>3, <1>5, <1>6 DEF FindingOf
<1>8. FindingOf(ItemOf(f), f.id, f.location) = f
  BY <1>4, <1>7
<1>9. f.id = id /\ f.location = loc
  BY <1>4
<1>10. FindingSettled(f)
  BY <1>1, <1>2, <1>3, <1>5, <1>8, <1>9 DEF FindingSettled
<1> QED
  BY <1>10 DEF f, loc

\* What is read of the first items.
NothingRead == [findings |-> <<>>, seen |-> {}, errors |-> {}]
ReadTo(read, items, n) ==
  /\ read[0] = NothingRead
  /\ \A i \in 1..n : read[i] = CoerceItem(read[i - 1], items[i], i)

LEMMA ReadingExists ==
  ASSUME NEW items, Len(items) \in Nat
  PROVE  \E read : ReadTo(read, items, Len(items)) /\ CoerceFindings(items) = read[Len(items)]
<1> DEFINE Kept(read, n) ==
             read = [i \in 0..n |-> IF i = 0 THEN NothingRead ELSE CoerceItem(read[i - 1], items[i], i)]
           Never == {n \in Nat : ~\E read : Kept(read, n)}
<1>1. Never = {}
  <2> SUFFICES ASSUME Never # {} PROVE FALSE
    OBVIOUS
  <2>1. PICK m \in Never : \A n \in Never : m <= n
    <3> HIDE DEF Never
    <3>1. Never \subseteq Nat
      BY DEF Never
    <3> QED
      BY <3>1, Least
  <2>2. CASE m = 0
    <3>1. Kept([i \in 0..0 |-> NothingRead], 0)
      OBVIOUS
    <3> QED
      BY <2>2, <3>1
  <2>3. CASE m # 0
    <3>0. m \in Nat
      BY DEF Never
    <3>1. m - 1 \in Nat \ Never
      <4> HIDE DEF Never
      <4> QED
        BY <2>1, <2>3, <3>0
    <3>2. PICK read : Kept(read, m - 1)
      BY <3>1
    <3> DEFINE more == [i \in 0..m |-> IF i = m THEN CoerceItem(read[m - 1], items[m], m) ELSE read[i]]
    <3>3. ASSUME NEW i \in 0..m
          PROVE  more[i] = IF i = 0 THEN NothingRead ELSE CoerceItem(more[i - 1], items[i], i)
      BY <2>1, <2>3, <3>2
    <3>4. Kept(more, m)
      <4> HIDE DEF more
      <4>1. more = [i \in 0..m |-> more[i]]
        BY DEF more
      <4> QED
        BY <3>3, <4>1
    <3> QED
      BY <3>4
  <2> QED
    BY <2>2, <2>3
<1> DEFINE read == CHOOSE read : Kept(read, Len(items))
<1>2. Kept(read, Len(items))
  BY <1>1
<1>3. CoerceFindings(items) = read[Len(items)]
  BY Zenon DEF CoerceFindings, NothingRead
<1>4. ReadTo(read, items, Len(items))
  <2> HIDE DEF read
  <2> QED
    BY <1>2 DEF ReadTo
<1> QED
  BY <1>3, <1>4

LEMMA NoneIsList == IsList(<<>>) /\ Len(<<>>) = 0
<1>1. <<>> \in Seq({}) /\ Len(<<>>) = 0
  OBVIOUS
<1> QED
  BY <1>1 DEF IsList

LEMMA AppendIsList ==
  ASSUME NEW s, IsList(s), NEW e
  PROVE  /\ IsList(Append(s, e)) /\ Len(s) \in Nat /\ Len(Append(s, e)) = Len(s) + 1
         /\ DOMAIN s = 1..Len(s) /\ DOMAIN Append(s, e) = 1..(Len(s) + 1)
         /\ \A i \in DOMAIN s : Append(s, e)[i] = s[i]
         /\ Append(s, e)[Len(s) + 1] = e
<1>1. PICK S : s \in Seq(S)
  BY DEF IsList
<1> DEFINE T == S \cup {e}
<1>2. s \in Seq(T) /\ e \in T
  BY <1>1
<1> HIDE DEF T
<1>3. Append(s, e) \in Seq(T)
  BY <1>2
<1> QED
  BY <1>2, <1>3 DEF IsList

Apart(fs) == \A i, j \in DOMAIN fs : fs[i].id = fs[j].id => i = j

\* What holds of what was read of the first n items.
ReadSoFar(st, items, n) ==
  /\ st = [findings |-> st.findings, seen |-> st.seen, errors |-> st.errors]
  /\ IsList(st.findings) /\ (Forestalled(items) \/ Apart(st.findings))
  /\ \A k \in DOMAIN st.findings : FindingSettled(st.findings[k]) /\ st.findings[k].id \in st.seen
  /\ \A d \in st.seen : \E j \in 1..n : d = OwnId(items[j], j) \/ d = MadeUp(items[j], j)
  /\ Len(st.findings) = n \/ "finding" \in st.errors
  /\ st.errors \in SUBSET {"finding"}

LEMMA ItemReads ==
  ASSUME NEW items, AreItems(items), NEW n \in DOMAIN items,
         NEW st, ReadSoFar(st, items, n - 1)
  PROVE  ReadSoFar(CoerceItem(st, items[n], n), items, n)
<1> DEFINE raw == items[n]
           id  == FreshId(raw.id, n, st.seen)
           loc == CoerceLocation(raw.place)
           now == CoerceItem(st, raw, n)
           f   == FindingOf(raw, id, loc)
<1>1. n \in Nat /\ DOMAIN items = 1..Len(items) /\ Len(items) \in Nat /\ n >= 1
  BY DEF AreItems, IsList
<1>2. IsItem(raw)
  BY DEF AreItems
<1>3. id = IF OwnId(raw, n) \in st.seen THEN MadeUp(raw, n) ELSE OwnId(raw, n)
  BY DEF FreshId, OwnId, MadeUp
<1>4. id \in Seq(Part) /\ id # <<>>
  BY <1>1, <1>2, <1>3, OwnIdIsId
<1>5. Forestalled(items) \/ id \notin st.seen
  <2>1. SUFFICES ASSUME ~Forestalled(items), id \in st.seen PROVE FALSE
    OBVIOUS
  <2>2. id = MadeUp(raw, n)
    BY <1>3, <2>1
  <2>3. PICK j \in 1..(n - 1) : id = OwnId(items[j], j) \/ id = MadeUp(items[j], j)
    BY <2>1 DEF ReadSoFar
  <2>4. j \in DOMAIN items /\ j < n /\ j \in Nat
    BY <1>1
  <2>5. IsItem(items[j]) /\ items[j].id # MadeUp(raw, n)
    BY <2>1, <2>4 DEF AreItems, Forestalled
  <2> QED
    BY <1>1, <1>2, <2>2, <2>3, <2>4, <2>5, MadeUpIsNew
<1>6. \A d \in st.seen : \E j \in 1..n : d = OwnId(items[j], j) \/ d = MadeUp(items[j], j)
  <2>1. 1..(n - 1) \subseteq 1..n
    BY <1>1
  <2> QED
    BY <2>1 DEF ReadSoFar
<1>7. id = OwnId(items[n], n) \/ id = MadeUp(items[n], n)
  BY <1>3
<1> HIDE DEF id
<1>8. now = CoerceFinding(st, raw, id, loc)
  BY DEF CoerceItem, id
<1> HIDE DEF now, loc
<1>9. /\ st = [findings |-> st.findings, seen |-> st.seen, errors |-> st.errors]
      /\ IsList(st.findings) /\ (Forestalled(items) \/ Apart(st.findings))
      /\ \A k \in DOMAIN st.findings : FindingSettled(st.findings[k]) /\ st.findings[k].id \in st.seen
      /\ Len(st.findings) = n - 1 \/ "finding" \in st.errors
      /\ st.errors \in SUBSET {"finding"}
  BY DEF ReadSoFar
<1>10. CASE ~raw.obj
  <2>1. now = [findings |-> st.findings, seen |-> st.seen, errors |-> st.errors \cup {"finding"}]
    BY <1>8, <1>9, <1>10 DEF CoerceFinding
  <2> QED
    BY <1>6, <1>9, <2>1 DEF ReadSoFar, now
<1>11. CASE raw.obj /\ DOMAIN loc = {}
  <2>1. now = [findings |-> st.findings, seen |-> st.seen \cup {id}, errors |-> st.errors \cup {"finding"}]
    BY <1>8, <1>9, <1>11 DEF CoerceFinding
  <2>2. \A d \in now.seen : \E j \in 1..n : d = OwnId(items[j], j) \/ d = MadeUp(items[j], j)
    BY <1>1, <1>6, <1>7, <2>1
  <2> QED
    BY <1>9, <2>1, <2>2 DEF ReadSoFar, now
<1>12. CASE raw.obj /\ DOMAIN loc # {}
  <2>1. now = [findings |-> Append(st.findings, f), seen |-> st.seen \cup {id}, errors |-> st.errors]
    BY <1>8, <1>9, <1>12 DEF CoerceFinding
  <2>2. \A d \in now.seen : \E j \in 1..n : d = OwnId(items[j], j) \/ d = MadeUp(items[j], j)
    BY <1>1, <1>6, <1>7, <2>1
  <2>3. FindingSettled(f)
    BY <1>2, <1>4, <1>12, FindingSettles DEF loc
  <2>4. f.id = id
    BY DEF FindingOf
  <2> DEFINE fs == Append(st.findings, f)
             m  == Len(st.findings)
  <2> HIDE DEF f
  <2>5. /\ IsList(fs) /\ m \in Nat /\ Len(fs) = m + 1
        /\ DOMAIN st.findings = 1..m /\ DOMAIN fs = 1..(m + 1)
        /\ \A i \in 1..m : fs[i] = st.findings[i]
        /\ fs[m + 1] = f
    BY <1>9, AppendIsList
  <2>6. now.findings = fs
    BY <2>1
  <2> HIDE DEF fs, m
  <2>7. ASSUME NEW k \in DOMAIN fs PROVE FindingSettled(fs[k]) /\ fs[k].id \in now.seen
    <3>1. CASE k = m + 1
      BY <2>1, <2>3, <2>4, <2>5, <3>1
    <3>2. CASE k # m + 1
      <4>1. k \in DOMAIN st.findings /\ fs[k] = st.findings[k]
        BY <2>5, <3>2
      <4> QED
        BY <1>9, <2>1, <4>1
    <3> QED
      BY <3>1, <3>2
  <2>8. ASSUME ~Forestalled(items), NEW i \in DOMAIN fs, NEW j \in DOMAIN fs, fs[i].id = fs[j].id PROVE i = j
    <3>1. \A k \in 1..m : fs[k].id \in st.seen /\ fs[k].id # fs[m + 1].id
      BY <1>5, <1>9, <2>4, <2>5, <2>8
    <3>2. CASE i \in 1..m /\ j \in 1..m
      BY <1>9, <2>5, <2>8, <3>2 DEF Apart
    <3> QED
      BY <2>5, <2>8, <3>1, <3>2
  <2>9. Forestalled(items) \/ Apart(fs)
    BY <2>8 DEF Apart
  <2>10. Len(fs) = n \/ "finding" \in now.errors
    BY <1>1, <1>9, <2>1, <2>5 DEF m
  <2>11. now = [findings |-> now.findings, seen |-> now.seen, errors |-> now.errors] /\ now.errors \in SUBSET {"finding"}
    BY <1>9, <2>1
  <2>12. ReadSoFar(now, items, n)
    BY <2>2, <2>5, <2>6, <2>7, <2>9, <2>10, <2>11 DEF ReadSoFar
  <2> QED
    BY <2>12 DEF now
<1> QED
  BY <1>10, <1>11, <1>12

LEMMA ItemsRead ==
  ASSUME NEW items, AreItems(items)
  PROVE  ReadSoFar(CoerceFindings(items), items, Len(items))
<1>1. Len(items) \in Nat /\ DOMAIN items = 1..Len(items)
  BY DEF AreItems, IsList
<1>2. PICK read : ReadTo(read, items, Len(items)) /\ CoerceFindings(items) = read[Len(items)]
  BY <1>1, ReadingExists
<1> DEFINE Wrong == {n \in 0..Len(items) : ~ReadSoFar(read[n], items, n)}
<1>3. Wrong = {}
  <2>1. SUFFICES ASSUME Wrong # {} PROVE FALSE
    OBVIOUS
  <2>2. Wrong \subseteq Nat
    BY <1>1
  <2>3. PICK n \in Wrong : \A k \in Wrong : n <= k
    <3> HIDE DEF Wrong
    <3> QED
      BY <2>1, <2>2, Least
  <2>4. CASE n = 0
    <3>1. read[0] = NothingRead
      BY <1>2 DEF ReadTo
    <3>2. IsList(<<>>) /\ DOMAIN <<>> = {} /\ Len(<<>>) = 0
      <4>1. <<>> \in Seq({})
        OBVIOUS
      <4> QED
        BY <4>1 DEF IsList
    <3>3. ReadSoFar(NothingRead, items, 0)
      BY <3>2 DEF ReadSoFar, NothingRead, Apart
    <3> QED
      BY <2>4, <3>1, <3>3
  <2>5. CASE n # 0
    <3>1. n \in Nat /\ n \in 1..Len(items) /\ n - 1 \in 0..Len(items)
      BY <1>1, <2>2, <2>5
    <3>2. n - 1 \notin Wrong
      <4> HIDE DEF Wrong
      <4> QED
        BY <2>3, <3>1
    <3>3. ReadSoFar(read[n - 1], items, n - 1)
      BY <3>1, <3>2
    <3>4. read[n] = CoerceItem(read[n - 1], items[n], n)
      BY <1>2, <3>1 DEF ReadTo
    <3> QED
      BY <1>1, <3>1, <3>3, <3>4, ItemReads
  <2> QED
    BY <2>4, <2>5
<1> QED
  BY <1>1, <1>2, <1>3

\* Findings that were read, written down and read once more.
LEMMA SubSeqGrows ==
  ASSUME NEW s, IsList(s), NEW n \in 1..Len(s)
  PROVE  Append(SubSeq(s, 1, n - 1), s[n]) = SubSeq(s, 1, n) /\ SubSeq(s, 1, 0) = <<>> /\ SubSeq(s, 1, Len(s)) = s
<1>1. PICK S : s \in Seq(S)
  BY DEF IsList
<1> QED
  BY <1>1

\* What is read after a finding: the finding, by its own id unless that is taken.
ReadNext(f, seen, findings, out) ==
  \E id :
    /\ f.id \notin seen => id = f.id
    /\ [f EXCEPT !.id = id].id = id /\ (id = f.id => [f EXCEPT !.id = id] = f)
    /\ out = [findings |-> Append(findings, [f EXCEPT !.id = id]), seen |-> seen \cup {id}, errors |-> {}]

LEMMA FindingReadsAgain ==
  ASSUME NEW f, FindingSettled(f), NEW n \in Nat, NEW seen, NEW findings
  PROVE  ReadNext(f, seen, findings,
                  CoerceItem([findings |-> findings, seen |-> seen, errors |-> {}], ItemOf(f), n))
<1> DEFINE raw == ItemOf(f)
           st  == [findings |-> findings, seen |-> seen, errors |-> {}]
           id  == FreshId(raw.id, n, st.seen)
<1>1. raw.obj = TRUE /\ raw.id = f.id /\ raw.place = PlaceOf(f.location)
  BY DEF ItemOf, PlaceOf
<1> HIDE DEF raw
<1>2. f.id \notin seen => id = f.id
  BY <1>1 DEF FreshId, FindingSettled
<1>3. CoerceLocation(raw.place) = f.location /\ DOMAIN f.location # {}
  BY <1>1 DEF FindingSettled, Settled
<1>4. FindingOf(raw, f.id, f.location) = f
  BY DEF FindingSettled, raw
<1>5. CoerceItem(st, raw, n) = CoerceFinding(st, raw, id, f.location)
  BY <1>3 DEF CoerceItem
<1> HIDE DEF st, id
<1>6. CoerceFinding(st, raw, id, f.location) =
        [st EXCEPT !.seen = @ \cup {id}, !.findings = Append(@, FindingOf(raw, id, f.location))]
  BY <1>1, <1>3 DEF CoerceFinding
<1>7. FindingOf(raw, id, f.location) = [f EXCEPT !.id = id] /\ [f EXCEPT !.id = id].id = id
      /\ (id = f.id => [f EXCEPT !.id = id] = f)
  <2> DEFINE cwe == NormalizeCwe(raw.cwe)
             cwes == {NormalizeCwe(c) : c \in raw.cwes} \ {NoCwe}
             severity == Severity(Fold(raw.severity))
             confidence == Confidence(Fold(raw.confidence))
             markers == raw.markers
             exploited == raw.exploited
             loc == f.location
             own == f.id
  <2>1. \A d : FindingOf(raw, d, loc) =
          [id |-> d, cwe |-> cwe, cwes |-> cwes, severity |-> severity, confidence |-> confidence,
           location |-> loc, markers |-> markers, exploited |-> exploited]
    BY DEF FindingOf
  <2>2. FindingOf(raw, own, loc) = f
    BY <1>4
  <2> HIDE DEF cwe, cwes, severity, confidence, markers, exploited, loc, own
  <2>3. FindingOf(raw, id, loc) = [f EXCEPT !.id = id] /\ [f EXCEPT !.id = id].id = id
        /\ (id = own => [f EXCEPT !.id = id] = f)
    BY <2>1, <2>2
  <2> QED
    BY <2>3 DEF loc, own
<1>8. CoerceFinding(st, raw, id, f.location) =
        [findings |-> Append(findings, [f EXCEPT !.id = id]), seen |-> seen \cup {id}, errors |-> {}]
  BY <1>6, <1>7 DEF st
<1> QED
  <2>1. CoerceItem([findings |-> findings, seen |-> seen, errors |-> {}], ItemOf(f), n) =
          [findings |-> Append(findings, [f EXCEPT !.id = id]), seen |-> seen \cup {id}, errors |-> {}]
    BY <1>5, <1>8 DEF st, raw
  <2> QED
    BY <1>2, <1>7, <2>1, Zenon DEF ReadNext

\* Whatever becomes of the ids, nothing else of a finding changes.
Renamed(gs, fs) == Len(gs) = Len(fs) /\ \A i \in DOMAIN fs : gs[i] = [fs[i] EXCEPT !.id = gs[i].id]

LEMMA FindingsReadAgain ==
  ASSUME NEW fs, IsList(fs), \A k \in DOMAIN fs : FindingSettled(fs[k])
  PROVE  LET again == CoerceFindings([i \in DOMAIN fs |-> ItemOf(fs[i])]) IN
         /\ again.errors = {} /\ Renamed(again.findings, fs)
         /\ Apart(fs) => again.findings = fs
<1> DEFINE items == [i \in DOMAIN fs |-> ItemOf(fs[i])]
           ids(n) == {fs[j].id : j \in 1..n}
<1>1. Len(fs) \in Nat /\ DOMAIN fs = 1..Len(fs) /\ Len(items) = Len(fs)
  BY DEF IsList
<1>2. \A i \in 1..Len(fs) : items[i] = ItemOf(fs[i])
  BY <1>1
<1> HIDE DEF items
<1>3. PICK read : ReadTo(read, items, Len(items)) /\ CoerceFindings(items) = read[Len(items)]
  BY <1>1, ReadingExists
<1> DEFINE Good(n) == /\ read[n] = [findings |-> read[n].findings, seen |-> read[n].seen, errors |-> {}]
                      /\ IsList(read[n].findings) /\ Len(read[n].findings) = n
                      /\ \A i \in 1..n : read[n].findings[i] = [fs[i] EXCEPT !.id = read[n].findings[i].id]
                      /\ Apart(fs) => read[n].findings = SubSeq(fs, 1, n) /\ read[n].seen = ids(n)
           Wrong == {n \in 0..Len(fs) : ~Good(n)}
<1>4. Wrong = {}
  <2>1. SUFFICES ASSUME Wrong # {} PROVE FALSE
    OBVIOUS
  <2>2. Wrong \subseteq Nat
    BY <1>1
  <2>3. PICK n \in Wrong : \A k \in Wrong : n <= k
    <3> HIDE DEF Wrong
    <3> QED
      BY <2>1, <2>2, Least
  <2>4. CASE n = 0
    <3>1. read[0] = [findings |-> <<>>, seen |-> {}, errors |-> {}]
      BY <1>3 DEF ReadTo, NothingRead
    <3>2. SubSeq(fs, 1, 0) = <<>> /\ IsList(<<>>) /\ Len(<<>>) = 0
      BY NoneIsList
    <3>3. ids(0) = {}
      OBVIOUS
    <3> HIDE DEF ids
    <3>4. Good(0)
      BY <3>1, <3>2, <3>3
    <3> QED
      BY <2>4, <3>4
  <2>5. CASE n # 0
    <3>1. n \in Nat /\ n \in 1..Len(fs) /\ n - 1 \in 0..Len(fs) /\ n \in DOMAIN fs
      BY <1>1, <2>2, <2>5
    <3>2. n - 1 \notin Wrong
      <4> HIDE DEF Wrong
      <4> QED
        BY <2>3, <3>1
    <3>3. Good(n - 1)
      BY <3>1, <3>2
    <3>4. read[n] = CoerceItem(read[n - 1], ItemOf(fs[n]), n)
      BY <1>1, <1>2, <1>3, <3>1 DEF ReadTo
    <3>5. ASSUME Apart(fs) PROVE fs[n].id \notin ids(n - 1)
      <4>1. SUFFICES ASSUME NEW j \in 1..(n - 1), fs[j].id = fs[n].id PROVE FALSE
        OBVIOUS
      <4>2. j \in DOMAIN fs /\ j # n
        BY <1>1, <3>1
      <4> QED
        BY <3>1, <3>5, <4>1, <4>2 DEF Apart
    <3>6. ids(n) = ids(n - 1) \cup {fs[n].id}
      BY <3>1
    <3> HIDE DEF ids
    <3> DEFINE was == read[n - 1].seen
               sofar == read[n - 1].findings
               f == fs[n]
               now == read[n].findings
    <3>7. PICK id :
            /\ f.id \notin was => id = f.id
            /\ [f EXCEPT !.id = id].id = id /\ (id = f.id => [f EXCEPT !.id = id] = f)
            /\ read[n] = [findings |-> Append(sofar, [f EXCEPT !.id = id]), seen |-> was \cup {id}, errors |-> {}]
      <4>1. FindingSettled(f)
        BY <3>1
      <4>2. read[n] = CoerceItem([findings |-> sofar, seen |-> was, errors |-> {}], ItemOf(f), n)
        BY <3>3, <3>4
      <4>3. n \in Nat
        BY <3>1
      <4> HIDE DEF was, sofar, f, Wrong, Good
      <4>4. ReadNext(f, was, sofar, CoerceItem([findings |-> sofar, seen |-> was, errors |-> {}], ItemOf(f), n))
        BY <4>1, <4>3, FindingReadsAgain
      <4>5. ReadNext(f, was, sofar, read[n])
        BY <4>2, <4>4, Zenon
      <4> QED
        BY <4>5, Zenon DEF ReadNext
    <3> DEFINE g == [f EXCEPT !.id = id]
    <3>8. /\ now = Append(sofar, g) /\ read[n].seen = was \cup {id}
          /\ read[n] = [findings |-> now, seen |-> read[n].seen, errors |-> {}]
      BY <3>7
    <3>9. g.id = id
      BY <3>7
    <3>10. IsList(sofar) /\ Len(sofar) = n - 1
      BY <3>3
    <3> HIDE DEF g, now, sofar, Wrong
    <3>11. /\ IsList(now) /\ Len(now) = n /\ now[n] = g
           /\ \A i \in 1..(n - 1) : now[i] = sofar[i]
      BY <3>1, <3>8, <3>10, AppendIsList
    <3>12. ASSUME NEW i \in 1..n PROVE now[i] = [fs[i] EXCEPT !.id = now[i].id]
      <4>1. CASE i = n
        BY <3>9, <3>11, <4>1 DEF g
      <4>2. CASE i # n
        <5>1. i \in 1..(n - 1)
          BY <3>1, <4>2
        <5>2. sofar[i] = [fs[i] EXCEPT !.id = sofar[i].id]
          BY <3>3, <5>1 DEF sofar
        <5> QED
          BY <3>11, <5>1, <5>2
      <4> QED
        BY <4>1, <4>2
    <3>13. ASSUME Apart(fs) PROVE now = SubSeq(fs, 1, n) /\ read[n].seen = ids(n)
      <4>1. sofar = SubSeq(fs, 1, n - 1) /\ was = ids(n - 1)
        BY <3>3, <3>13 DEF sofar
      <4>2. id = f.id /\ g = f
        BY <3>5, <3>7, <3>13, <4>1 DEF g
      <4> QED
        BY <3>1, <3>6, <3>8, <4>1, <4>2, SubSeqGrows
    <3>14. Good(n)
      BY <3>8, <3>11, <3>12, <3>13 DEF now
    <3> QED
      BY <3>14 DEF Wrong
  <2> QED
    BY <2>4, <2>5
<1>5. Good(Len(fs))
  <2>1. Len(fs) \in 0..Len(fs) \ Wrong
    <3> HIDE DEF Wrong
    <3> QED
      BY <1>1, <1>4
  <2> QED
    BY <2>1
<1>6. SubSeq(fs, 1, Len(fs)) = fs
  BY DEF IsList
<1> DEFINE again == CoerceFindings(items)
<1>7. again = read[Len(fs)]
  BY <1>1, <1>3
<1> HIDE DEF again
<1>8. again.errors = {} /\ Renamed(again.findings, fs) /\ (Apart(fs) => again.findings = fs)
  BY <1>1, <1>5, <1>6, <1>7 DEF Renamed
<1> QED
  BY <1>8 DEF items, again

-----------------------------------------------------------------------------
(* The whole text. *)

\* A file that validates reads again as itself, but for an id that two findings share.
Clean(res) ==
  /\ IsList(res.findings)
  /\ \A k \in DOMAIN res.findings : FindingSettled(res.findings[k])
  /\ res.run.variant \in {"vuln", "safe"}

AsItIs == [app |-> "", variant |-> "", format |-> "", markers |-> {}]

LEMMA CleanReadsAgain ==
  ASSUME NEW res, Clean(res), res.run = [app |-> res.run.app, variant |-> res.run.variant]
  PROVE  LET again == NormalizeText(TextOf(res), AsItIs) IN
         /\ Renamed(again.findings, res.findings) /\ (Apart(res.findings) => again.findings = res.findings)
         /\ again.run = res.run /\ again.errors = {}
<1> DEFINE x == TextOf(res)
           items == [i \in DOMAIN res.findings |-> ItemOf(res.findings[i])]
           doc == DocOf(x, TRUE)
           env == ParseEnvelope(doc, AsItIs)
           read == CoerceFindings(items)
           file == ValidateFindings(doc, AsItIs)
<1>1. /\ x.start = "json" /\ x.schema = "v1" /\ x.shape = "object" /\ x.app = res.run.app /\ x.variant = res.run.variant
      /\ x.items = [list |-> TRUE, items |-> items]
  BY DEF TextOf, Listed
<1> HIDE DEF x, items
<1>2. FormatOf(x, AsItIs.format) = "findings/v1" /\ Parses(x)
  BY <1>1 DEF FormatOf, DetectFormat, Parses, AsItIs
<1>3. doc = [t |-> "object", schema |-> "v1", app |-> res.run.app, variant |-> res.run.variant,
             items |-> [list |-> TRUE, items |-> items]]
  BY <1>1 DEF DocOf
<1> HIDE DEF doc
<1>4. env.run = res.run /\ env.items = [list |-> TRUE, items |-> items] /\ env.errors = {}
  <2>1. Fold(doc.variant) = res.run.variant
    BY <1>3 DEF Fold, Respelt, Clean
  <2>2. env = [run |-> [app |-> res.run.app, variant |-> res.run.variant], items |-> doc.items,
               errors |-> {e \in {"schema", "run.variant", "run.app", "items"} :
                             CASE e = "schema"      -> doc.schema = "v2"
                               [] e = "run.variant" -> FALSE
                               [] e = "run.app"     -> FALSE
                               [] e = "items"       -> ~doc.items.list}]
    BY <1>3, <2>1 DEF ParseEnvelope, Fallback, AsItIs, Clean
  <2>3. doc.schema = "v1" /\ doc.items = [list |-> TRUE, items |-> items] /\ doc.items.list = TRUE
    BY <1>3
  <2> HIDE DEF env
  <2>4. env.errors = {}
    BY <2>2, <2>3
  <2> QED
    BY <2>2, <2>3, <2>4
<1> HIDE DEF env
<1>5. /\ Renamed(read.findings, res.findings) /\ (Apart(res.findings) => read.findings = res.findings)
      /\ read.errors = {}
  BY FindingsReadAgain DEF Clean, items
<1> HIDE DEF read
<1>6. file = [value |-> TRUE, run |-> res.run, findings |-> read.findings, errors |-> env.errors \cup read.errors]
  BY <1>4 DEF ValidateFindings, Validated, env, read
<1>7. NormalizeText(x, AsItIs) = ReadAs(x, "findings/v1", AsItIs)
  BY <1>2 DEF NormalizeText
<1>8. ReadAs(x, "findings/v1", AsItIs) = AsRead(file, "findings/v1", {}, {})
  BY <1>2 DEF ReadAs, doc
<1> HIDE DEF file
<1> QED
  BY <1>4, <1>5, <1>6, <1>7, <1>8 DEF AsRead, x

-----------------------------------------------------------------------------
(* Sequences of sequences, end to end. *)

\* The elements of s.
Holds(s, e) == \E i \in DOMAIN s : s[i] = e

LEMMA EndToEnd ==
  ASSUME NEW s, IsList(s), NEW t, IsList(t)
  PROVE  /\ IsList(s \o t) /\ Len(s) \in Nat /\ Len(t) \in Nat /\ Len(s \o t) = Len(s) + Len(t)
         /\ \A e : Holds(s \o t, e) <=> Holds(s, e) \/ Holds(t, e)
<1>1. PICK S : s \in Seq(S)
  BY DEF IsList
<1>2. PICK T : t \in Seq(T)
  BY DEF IsList
<1> DEFINE U == S \cup T
           m == Len(s)
           n == Len(t)
<1>3. s \in Seq(U) /\ t \in Seq(U)
  BY <1>1, <1>2
<1> HIDE DEF U
<1>4. /\ s \o t \in Seq(U) /\ m \in Nat /\ n \in Nat /\ Len(s \o t) = m + n /\ DOMAIN s = 1..m /\ DOMAIN t = 1..n
      /\ DOMAIN (s \o t) = 1..(m + n)
      /\ \A i \in 1..(m + n) : (s \o t)[i] = IF i <= m THEN s[i] ELSE t[i - m]
  BY <1>3
<1> DEFINE st == s \o t
<1> HIDE DEF st, m, n
<1>5. ASSUME NEW e PROVE Holds(st, e) <=> Holds(s, e) \/ Holds(t, e)
  <2>1. ASSUME NEW i \in DOMAIN s PROVE i \in DOMAIN st /\ st[i] = s[i]
    BY <1>4 DEF st
  <2>2. ASSUME NEW j \in DOMAIN t PROVE m + j \in DOMAIN st /\ st[m + j] = t[j]
    BY <1>4 DEF st
  <2>3. ASSUME NEW i \in DOMAIN st PROVE (i \in DOMAIN s /\ st[i] = s[i]) \/ (i - m \in DOMAIN t /\ st[i] = t[i - m])
    BY <1>4 DEF st
  <2> QED
    BY <2>1, <2>2, <2>3 DEF Holds
<1> QED
  BY <1>4, <1>5 DEF IsList, st, m, n

\* What stands end to end after each part.
LaidTo(flat, seqs) ==
  /\ flat[1] = seqs[1]
  /\ \A i \in 2..Len(seqs) : flat[i] = flat[i - 1] \o seqs[i]

LEMMA FlatExists ==
  ASSUME NEW seqs, Len(seqs) \in Nat, Len(seqs) # 0
  PROVE  \E flat : LaidTo(flat, seqs) /\ FlattenSeq(seqs) = flat[Len(seqs)]
<1> DEFINE Kept(flat, n) == flat = [i \in 1..n |-> IF i = 1 THEN seqs[i] ELSE flat[i - 1] \o seqs[i]]
           Never == {n \in Nat : n # 0 /\ ~\E flat : Kept(flat, n)}
<1>1. Never = {}
  <2> SUFFICES ASSUME Never # {} PROVE FALSE
    OBVIOUS
  <2>1. PICK m \in Never : \A n \in Never : m <= n
    <3> HIDE DEF Never
    <3>1. Never \subseteq Nat
      BY DEF Never
    <3> QED
      BY <3>1, Least
  <2>2. CASE m = 1
    <3>1. Kept([i \in 1..1 |-> seqs[i]], 1)
      OBVIOUS
    <3> QED
      BY <2>2, <3>1
  <2>3. CASE m # 1
    <3>0. m \in Nat /\ m # 0
      BY DEF Never
    <3>1. m - 1 \in Nat \ Never /\ m - 1 # 0
      <4> HIDE DEF Never
      <4> QED
        BY <2>1, <2>3, <3>0
    <3>2. PICK flat : Kept(flat, m - 1)
      BY <3>1
    <3> DEFINE more == [i \in 1..m |-> IF i = m THEN flat[m - 1] \o seqs[m] ELSE flat[i]]
    <3>3. ASSUME NEW i \in 1..m PROVE more[i] = IF i = 1 THEN seqs[i] ELSE more[i - 1] \o seqs[i]
      <4>1. CASE i = m
        <5>0. m \in 1..m
          BY <3>0
        <5>1. more[m] = flat[m - 1] \o seqs[m]
          <6> HIDE DEF Never
          <6> QED
            BY <5>0, Zenon
        <5>2. more[m - 1] = flat[m - 1]
          BY <3>1, <3>0
        <5> HIDE DEF more
        <5> QED
          BY <2>3, <4>1, <5>1, <5>2
      <4>2. CASE i # m
        <5>1. i \in 1..(m - 1) /\ more[i] = flat[i]
          BY <3>0, <4>2
        <5>2. flat[i] = IF i = 1 THEN seqs[i] ELSE flat[i - 1] \o seqs[i]
          BY <3>2, <5>1
        <5>3. i # 1 => more[i - 1] = flat[i - 1]
          BY <3>0, <5>1
        <5> HIDE DEF more
        <5> QED
          BY <5>1, <5>2, <5>3
      <4> QED
        BY <4>1, <4>2
    <3>4. Kept(more, m)
      <4> HIDE DEF more
      <4>1. more = [i \in 1..m |-> more[i]]
        BY DEF more
      <4> QED
        BY <3>3, <4>1
    <3> QED
      BY <3>0, <3>4
  <2> QED
    BY <2>2, <2>3
<1> DEFINE flat == CHOOSE flat : Kept(flat, Len(seqs))
<1>2. Kept(flat, Len(seqs))
  BY <1>1
<1>3. FlattenSeq(seqs) = flat[Len(seqs)]
  BY Zenon DEF FlattenSeq
<1>4. LaidTo(flat, seqs)
  <2> HIDE DEF flat
  <2>1. \A i \in 1..Len(seqs) : flat[i] = IF i = 1 THEN seqs[i] ELSE flat[i - 1] \o seqs[i]
    BY <1>2
  <2>2. 1 \in 1..Len(seqs) /\ \A i \in 2..Len(seqs) : i \in 1..Len(seqs) /\ i # 1
    OBVIOUS
  <2> QED
    BY <2>1, <2>2 DEF LaidTo
<1> QED
  BY <1>3, <1>4

\* The parts in their order, and nothing else.
LEMMA FlatHolds ==
  ASSUME NEW seqs, IsList(seqs), \A i \in DOMAIN seqs : IsList(seqs[i])
  PROVE  /\ IsList(FlattenSeq(seqs))
         /\ \A e : Holds(FlattenSeq(seqs), e) <=> \E i \in DOMAIN seqs : Holds(seqs[i], e)
         /\ (\A i \in DOMAIN seqs : seqs[i] # <<>>) => Len(FlattenSeq(seqs)) >= Len(seqs)
<1>1. Len(seqs) \in Nat /\ DOMAIN seqs = 1..Len(seqs)
  BY DEF IsList
<1>2. CASE Len(seqs) = 0
  <2>1. FlattenSeq(seqs) = seqs /\ DOMAIN seqs = {}
    BY <1>1, <1>2 DEF FlattenSeq
  <2> QED
    BY <1>2, <2>1 DEF Holds
<1>3. CASE Len(seqs) # 0
  <2>1. PICK flat : LaidTo(flat, seqs) /\ FlattenSeq(seqs) = flat[Len(seqs)]
    BY <1>1, <1>3, FlatExists
  <2> DEFINE Long(i) == (\A j \in DOMAIN seqs : seqs[j] # <<>>) => Len(flat[i]) >= i
             Good(i) == /\ IsList(flat[i])
                        /\ \A e : Holds(flat[i], e) <=> \E j \in 1..i : Holds(seqs[j], e)
                        /\ Long(i)
             Wrong == {i \in 1..Len(seqs) : ~Good(i)}
  <2>2. Wrong = {}
    <3>1. SUFFICES ASSUME Wrong # {} PROVE FALSE
      OBVIOUS
    <3>2. Wrong \subseteq Nat
      BY <1>1
    <3>3. PICK n \in Wrong : \A k \in Wrong : n <= k
      <4> HIDE DEF Wrong
      <4> QED
        BY <3>1, <3>2, Least
    <3>4. n \in 1..Len(seqs) /\ n \in Nat /\ n \in DOMAIN seqs /\ IsList(seqs[n])
      BY <1>1
    <3>5. seqs[n] # <<>> => Len(seqs[n]) >= 1
      BY <3>4 DEF IsList
    <3>6. CASE n = 1
      <4>1. flat[1] = seqs[1]
        BY <2>1 DEF LaidTo
      <4>2. \A e : Holds(flat[1], e) <=> \E j \in 1..1 : Holds(seqs[j], e)
        BY <4>1
      <4>3. Long(1)
        BY <3>4, <3>5, <3>6, <4>1
      <4>4. Good(1)
        BY <3>4, <3>6, <4>1, <4>2, <4>3
      <4> QED
        BY <3>6, <4>4
    <3>7. CASE n # 1
      <4>1. n - 1 \in 1..Len(seqs) /\ n \in 2..Len(seqs)
        BY <1>1, <3>4, <3>7
      <4>2. n - 1 \notin Wrong
        <5> HIDE DEF Wrong
        <5> QED
          BY <3>3, <3>4
      <4>3. Good(n - 1)
        BY <4>1, <4>2
      <4>4. flat[n] = flat[n - 1] \o seqs[n]
        BY <2>1, <4>1 DEF LaidTo
      <4>5. /\ IsList(flat[n]) /\ Len(flat[n]) = Len(flat[n - 1]) + Len(seqs[n])
            /\ Len(flat[n - 1]) \in Nat /\ Len(seqs[n]) \in Nat
            /\ \A e : Holds(flat[n], e) <=> Holds(flat[n - 1], e) \/ Holds(seqs[n], e)
        <5> DEFINE a == flat[n - 1]
                   b == seqs[n]
        <5>1. IsList(a) /\ IsList(b) /\ flat[n] = a \o b
          BY <3>4, <4>3, <4>4
        <5> HIDE DEF a, b
        <5>2. /\ IsList(a \o b) /\ Len(a \o b) = Len(a) + Len(b) /\ Len(a) \in Nat /\ Len(b) \in Nat
              /\ \A e : Holds(a \o b, e) <=> Holds(a, e) \/ Holds(b, e)
          BY <5>1, EndToEnd
        <5>3. /\ IsList(flat[n]) /\ Len(flat[n]) = Len(a) + Len(b)
              /\ \A e : Holds(flat[n], e) <=> Holds(a, e) \/ Holds(b, e)
          BY <5>1, <5>2
        <5> QED
          BY <5>2, <5>3 DEF a, b
      <4>6. 1..n = 1..(n - 1) \cup {n}
        BY <3>4, <3>7
      <4>7. \A e : Holds(flat[n], e) <=> \E j \in 1..n : Holds(seqs[j], e)
        BY <4>3, <4>5, <4>6
      <4>8. Long(n)
        BY <3>4, <3>5, <4>3, <4>5
      <4>9. Good(n)
        BY <4>5, <4>7, <4>8
      <4> QED
        BY <4>9
    <3> QED
      BY <3>6, <3>7
  <2>3. Good(Len(seqs))
    <3>1. Len(seqs) \in 1..Len(seqs) \ Wrong
      <4> HIDE DEF Wrong
      <4> QED
        BY <1>1, <1>3, <2>2
    <3> QED
      BY <3>1
  <2> QED
    BY <1>1, <2>1, <2>3
<1> QED
  BY <1>2, <1>3

LEMMA AmongHolds ==
  ASSUME NEW results, IsList(results), NEW taken
  PROVE  IsList(Among(results, taken)) /\ \A n \in DOMAIN Among(results, taken) : Holds(results, Among(results, taken)[n])
<1> DEFINE parts == [i \in DOMAIN results |-> IF results[i] \in taken THEN <<results[i]>> ELSE <<>>]
           all == Among(results, taken)
<1>1. DOMAIN results = 1..Len(results) /\ Len(results) \in Nat
  BY DEF IsList
<1>2. ASSUME NEW i \in DOMAIN results
      PROVE  IsList(parts[i]) /\ \A e : Holds(parts[i], e) => e = results[i]
  <2>1. <<results[i]>> \in Seq({results[i]}) /\ <<>> \in Seq({results[i]})
    OBVIOUS
  <2>2. parts[i] \in Seq({results[i]})
    BY <2>1
  <2> HIDE DEF parts
  <2>3. \A j \in DOMAIN parts[i] : parts[i][j] = results[i]
    BY <2>2
  <2> QED
    BY <2>2, <2>3 DEF IsList, Holds
<1>3. DOMAIN parts = DOMAIN results /\ IsList(parts)
  <2>1. parts \in Seq({parts[i] : i \in DOMAIN results})
    BY <1>1
  <2> QED
    BY <2>1 DEF IsList
<1>4. all = FlattenSeq(parts)
  BY DEF Among
<1> HIDE DEF parts, all
<1>5. IsList(all) /\ \A e : Holds(all, e) <=> \E i \in DOMAIN parts : Holds(parts[i], e)
  BY <1>2, <1>3, <1>4, FlatHolds
<1>6. ASSUME NEW n \in DOMAIN all PROVE Holds(results, all[n])
  <2>1. Holds(all, all[n])
    BY DEF Holds
  <2>2. PICK i \in DOMAIN results : Holds(parts[i], all[n])
    BY <1>3, <1>5, <2>1
  <2> QED
    BY <1>2, <2>2 DEF Holds
<1> QED
  BY <1>5, <1>6 DEF all

-----------------------------------------------------------------------------
(* The adapters. *)

NativeFormats == {"zap", "sarif", "nuclei", "burp", "nmap"}

IsWords(words) == words.id \in Int /\ words.rules \in SUBSET DOMAIN Guesses

\* A result of a tool, as far as the adapters have to be able to read it.
IsResult(format, r) ==
  /\ format \in {"zap", "burp"} => r.cwe \in Int
  /\ format # "nmap" => IsWords(r.words)
  /\ format = "zap" => IsList(r.instances)
  /\ format \in {"sarif", "nuclei"} => r.list \in Seq(Int)
  /\ format = "burp" => r.serial \in Nat

AreResults(format, results) == IsList(results) /\ \A i \in DOMAIN results : IsResult(format, results[i])

\* What an adapter makes of one.
IsMoved(m) == m.obj = TRUE /\ m.id \in Seq(Part) /\ Len(m.id) = 2 /\ m.cwe \in Int /\ m.cwes \in SUBSET Int
AreMoved(moved) == IsList(moved) /\ \A n \in DOMAIN moved : IsMoved(moved[n])

LEMMA MovedAreItems ==
  ASSUME NEW moved, AreMoved(moved)
  PROVE  AreItems(moved) /\ ~Forestalled(moved)
<1>1. DOMAIN moved = 1..Len(moved) /\ Len(moved) \in Nat
  BY DEF AreMoved, IsList
<1>2. AreItems(moved)
  BY DEF AreMoved, AreItems, IsMoved, IsItem
<1>3. ASSUME NEW i \in DOMAIN moved, NEW j \in DOMAIN moved PROVE moved[j].id # MadeUp(moved[i], i)
  <2>1. moved[i].id \in Seq(Part) /\ Len(moved[i].id) = 2 /\ Len(moved[j].id) = 2
    BY DEF AreMoved, IsMoved
  <2>2. OwnId(moved[i], i) = moved[i].id
    BY <2>1 DEF OwnId
  <2>3. Len(MadeUp(moved[i], i)) = Len(OwnId(moved[i], i)) + 1
    BY <1>1, <1>2, OwnIdIsId DEF AreItems
  <2> QED
    BY <2>1, <2>2, <2>3
<1> QED
  BY <1>2, <1>3 DEF Forestalled

LEMMA MovedIsMoved ==
  ASSUME NEW tool \in {"zap", "sarif", "nuclei", "burp", "nmap"}, NEW n \in Nat, NEW place, NEW cwe \in Int,
         NEW cwes \in SUBSET Int, NEW severity, NEW confidence, NEW markers, NEW exploited
  PROVE  IsMoved(Moved(<<tool, n>>, place, cwe, cwes, severity, confidence, markers, exploited))
<1>1. tool \in Part /\ n \in Part
  BY DEF Part
<1>2. <<tool, n>> \in Seq(Part) /\ Len(<<tool, n>>) = 2
  BY <1>1
<1> DEFINE id == <<tool, n>>
<1> HIDE DEF id
<1>3. id \in Seq(Part) /\ Len(id) = 2
  BY <1>2 DEF id
<1>4. IsMoved(Moved(id, place, cwe, cwes, severity, confidence, markers, exploited))
  BY <1>3 DEF IsMoved, Moved
<1> QED
  BY <1>4 DEF id

LEMMA GuessIsCwe == ASSUME NEW words, IsWords(words) PROVE GuessCwe(words) \in Int
<1>1. Guesses \in Seq(Int)
  BY DEF Guesses
<1> DEFINE rules == words.rules
<1>2. CASE rules = {}
  BY <1>2 DEF GuessCwe, IsWords, NoCwe
<1>3. CASE rules # {}
  <2>1. rules \in SUBSET DOMAIN Guesses /\ DOMAIN Guesses \subseteq Nat
    BY <1>1 DEF IsWords
  <2> HIDE DEF rules
  <2>2. \E m \in rules : \A n \in rules : m <= n
    BY <1>3, <2>1, Least
  <2>3. Min(rules) \in rules
    BY <2>2 DEF Min
  <2>4. Guesses[Min(rules)] \in Int
    BY <1>1, <2>1, <2>3
  <2> QED
    BY <2>4 DEF GuessCwe, IsWords, NoCwe, rules
<1> QED
  BY <1>2, <1>3

LEMMA CwesFound ==
  ASSUME NEW words, IsWords(words)
  PROVE  /\ \A n \in Int : FirstCwe(n, words) \in Int
         /\ \A s \in Seq(Int) : OfList(s, words) \in Int /\ Rest1(s) \in SUBSET Int
<1>1. ASSUME NEW n \in Int PROVE FirstCwe(n, words) \in Int
  BY GuessIsCwe, CweAgain DEF FirstCwe
<1>2. ASSUME NEW s \in Seq(Int) PROVE OfList(s, words) \in Int /\ Rest1(s) \in SUBSET Int
  <2>1. s # <<>> => Head(s) \in Int /\ Tail(s) \in Seq(Int)
    OBVIOUS
  <2>2. \A t \in Seq(Int) : ToSet(t) \in SUBSET Int
    BY DEF ToSet
  <2> QED
    BY <2>1, <2>2, GuessIsCwe DEF OfList, Rest1
<1> QED
  BY <1>1, <1>2

LEMMA MappedIsList ==
  ASSUME NEW s, IsList(s), NEW f, f = [n \in DOMAIN s |-> f[n]]
  PROVE  IsList(f) /\ Len(f) = Len(s)
<1>1. DOMAIN s = 1..Len(s) /\ Len(s) \in Nat
  BY DEF IsList
<1>2. f \in Seq({f[n] : n \in DOMAIN s})
  BY <1>1
<1>3. IsList(f)
  BY <1>2 DEF IsList
<1>4. DOMAIN f = 1..Len(f) /\ Len(f) \in Nat /\ DOMAIN f = DOMAIN s
  BY <1>2
<1> QED
  BY <1>1, <1>3, <1>4

LEMMA ZapIsMoved ==
  ASSUME NEW alerts, AreResults("zap", alerts), NEW vocabulary
  PROVE  /\ AreMoved(FromZap(alerts, vocabulary)) /\ Len(FromZap(alerts, vocabulary)) >= Len(alerts)
         /\ alerts = <<>> => FromZap(alerts, vocabulary) = <<>>
<1> DEFINE instances(a) == IF a.instances # <<>> THEN a.instances
                           ELSE <<[url |-> a.site, method |-> "", param |-> "", leaks |-> {}]>>
           parts == [i \in DOMAIN alerts |-> [j \in DOMAIN instances(alerts[i]) |-> <<alerts[i], instances(alerts[i])[j]>>]]
           each  == FlattenSeq(parts)
           moved == FromZap(alerts, vocabulary)
<1>1. DOMAIN alerts = 1..Len(alerts) /\ Len(alerts) \in Nat
  BY DEF AreResults, IsList
<1>2. ASSUME NEW i \in DOMAIN alerts
      PROVE  IsList(parts[i]) /\ parts[i] # <<>> /\ \A e : Holds(parts[i], e) => e[1] = alerts[i]
  <2> DEFINE at == instances(alerts[i])
  <2>1. IsList(at) /\ at # <<>>
    <3>1. IsList(alerts[i].instances)
      BY DEF AreResults, IsResult
    <3>2. ASSUME NEW e PROVE <<e>> \in Seq({e}) /\ <<e>> # <<>>
      OBVIOUS
    <3>3. ASSUME NEW e PROVE IsList(<<e>>) /\ <<e>> # <<>>
      BY <3>2 DEF IsList
    <3> QED
      BY <3>1, <3>3
  <2> HIDE DEF at
  <2>2. parts[i] = [j \in DOMAIN at |-> <<alerts[i], at[j]>>]
    BY DEF at
  <2> HIDE DEF parts
  <2>3. parts[i] = [j \in DOMAIN at |-> parts[i][j]] /\ \A j \in DOMAIN parts[i] : parts[i][j][1] = alerts[i]
    BY <2>2
  <2>4. IsList(parts[i]) /\ Len(parts[i]) = Len(at)
    BY <2>1, <2>3, MappedIsList
  <2>5. Len(at) # 0
    BY <2>1 DEF IsList
  <2> QED
    BY <2>3, <2>4, <2>5 DEF Holds
<1>3. IsList(parts) /\ DOMAIN parts = DOMAIN alerts /\ Len(parts) = Len(alerts)
  BY MappedIsList DEF AreResults
<1> HIDE DEF parts, each
<1>4. IsList(each) /\ Len(each) >= Len(alerts) /\ \A e : Holds(each, e) <=> \E i \in DOMAIN parts : Holds(parts[i], e)
  BY <1>2, <1>3, FlatHolds DEF each
<1>5. ASSUME NEW n \in DOMAIN each PROVE Holds(alerts, each[n][1])
  <2>1. Holds(each, each[n])
    BY DEF Holds
  <2>2. PICK i \in DOMAIN alerts : Holds(parts[i], each[n])
    BY <1>3, <1>4, <2>1
  <2> QED
    BY <1>2, <2>2 DEF Holds
<1>6. moved = [n \in DOMAIN each |->
                 Moved(<<"zap", n>>, HttpLoc(each[n][2].url, each[n][2].method, each[n][2].param),
                       FirstCwe(each[n][1].cwe, each[n][1].words), {}, each[n][1].severity, each[n][1].confidence,
                       MarkersIn(vocabulary, each[n][2].leaks), FALSE)]
  BY Zenon DEF FromZap, each, parts
<1> HIDE DEF moved
<1>7. ASSUME NEW n \in DOMAIN moved PROVE IsMoved(moved[n])
  <2>1. n \in DOMAIN each /\ n \in Nat
    BY <1>4, <1>6 DEF IsList
  <2>2. IsWords(each[n][1].words) /\ each[n][1].cwe \in Int
    BY <1>5, <2>1 DEF AreResults, IsResult, Holds
  <2>3. FirstCwe(each[n][1].cwe, each[n][1].words) \in Int
    BY <2>2, CwesFound
  <2> QED
    BY <1>6, <2>1, <2>3, MovedIsMoved
<1>8. IsList(moved) /\ Len(moved) = Len(each)
  <2>1. moved = [n \in DOMAIN each |-> moved[n]]
    BY <1>6
  <2> QED
    BY <1>4, <2>1, MappedIsList
<1>9. ASSUME alerts = <<>> PROVE moved = <<>>
  <2>0. ~\E i \in DOMAIN alerts : TRUE
    BY <1>9
  <2>1. DOMAIN each = {}
    BY <1>5, <2>0 DEF Holds
  <2>2. Len(moved) = 0
    BY <1>4, <1>8, <2>1 DEF IsList
  <2> QED
    BY <1>8, <2>2 DEF IsList
<1> QED
  BY <1>4, <1>7, <1>8, <1>9 DEF AreMoved, moved

LEMMA SarifIsMoved ==
  ASSUME NEW results, AreResults("sarif", results), NEW vocabulary
  PROVE  AreMoved(FromSarif(results, vocabulary)) /\ (results = <<>> => FromSarif(results, vocabulary) = <<>>)
<1> DEFINE placed == Among(results, {r \in ToSet(results) : SarifPlace(r) # NoPlaces})
           moved  == FromSarif(results, vocabulary)
<1>1. IsList(placed) /\ \A n \in DOMAIN placed : Holds(results, placed[n])
  BY AmongHolds DEF AreResults
<1> HIDE DEF placed
<1>2. moved = [n \in DOMAIN placed |->
                 Moved(<<"sarif", n>>, SarifPlace(placed[n]), OfList(placed[n].list, placed[n].words), Rest1(placed[n].list),
                       Fallback(CvssSeverity(placed[n].score), placed[n].severity), placed[n].confidence,
                       MarkersIn(vocabulary, placed[n].leaks), FALSE)]
  BY Zenon DEF FromSarif, placed
<1> HIDE DEF moved
<1>3. ASSUME NEW n \in DOMAIN moved PROVE IsMoved(moved[n])
  <2>1. n \in DOMAIN placed /\ n \in Nat
    BY <1>1, <1>2 DEF IsList
  <2>2. IsWords(placed[n].words) /\ placed[n].list \in Seq(Int)
    BY <1>1, <2>1 DEF AreResults, IsResult, Holds
  <2>3. OfList(placed[n].list, placed[n].words) \in Int /\ Rest1(placed[n].list) \in SUBSET Int
    BY <2>2, CwesFound
  <2> QED
    BY <1>2, <2>1, <2>3, MovedIsMoved
<1>4. IsList(moved) /\ Len(moved) = Len(placed)
  <2>1. moved = [n \in DOMAIN placed |-> moved[n]]
    BY <1>2
  <2> QED
    BY <1>1, <2>1, MappedIsList
<1>5. ASSUME results = <<>> PROVE moved = <<>>
  <2>0. ~\E i \in DOMAIN results : TRUE
    BY <1>5
  <2>1. DOMAIN placed = {}
    BY <1>1, <2>0 DEF Holds
  <2>2. Len(moved) = 0
    BY <1>1, <1>4, <2>1 DEF IsList
  <2> QED
    BY <1>4, <2>2 DEF IsList
<1> QED
  BY <1>3, <1>4, <1>5 DEF AreMoved, moved

LEMMA NucleiIsMoved ==
  ASSUME NEW results, AreResults("nuclei", results), NEW vocabulary
  PROVE  /\ AreMoved(FromNuclei(results, vocabulary))
         /\ Len(FromNuclei(results, vocabulary)) = Len(Among(results, {r \in ToSet(results) : NucleiPlace(r) # NoPlaces}))
<1> DEFINE placed == Among(results, {r \in ToSet(results) : NucleiPlace(r) # NoPlaces})
           moved  == FromNuclei(results, vocabulary)
<1>1. IsList(placed) /\ \A n \in DOMAIN placed : Holds(results, placed[n])
  BY AmongHolds DEF AreResults
<1> HIDE DEF placed
<1>2. moved = [n \in DOMAIN placed |->
                 Moved(<<"nuclei", n>>, NucleiPlace(placed[n]), OfList(placed[n].list, placed[n].words), Rest1(placed[n].list),
                       placed[n].severity, "firm", MarkersIn(vocabulary, placed[n].leaks), placed[n].extracted)]
  BY Zenon DEF FromNuclei, placed
<1> HIDE DEF moved
<1>3. ASSUME NEW n \in DOMAIN moved PROVE IsMoved(moved[n])
  <2>1. n \in DOMAIN placed /\ n \in Nat
    BY <1>1, <1>2 DEF IsList
  <2>2. IsWords(placed[n].words) /\ placed[n].list \in Seq(Int)
    BY <1>1, <2>1 DEF AreResults, IsResult, Holds
  <2>3. OfList(placed[n].list, placed[n].words) \in Int /\ Rest1(placed[n].list) \in SUBSET Int
    BY <2>2, CwesFound
  <2> QED
    BY <1>2, <2>1, <2>3, MovedIsMoved
<1>4. IsList(moved) /\ Len(moved) = Len(placed)
  <2>1. moved = [n \in DOMAIN placed |-> moved[n]]
    BY <1>2
  <2> QED
    BY <1>1, <2>1, MappedIsList
<1> QED
  BY <1>3, <1>4 DEF AreMoved, moved, placed

LEMMA BurpIsMoved ==
  ASSUME NEW issues, AreResults("burp", issues), NEW vocabulary
  PROVE  AreMoved(FromBurp(issues, vocabulary)) /\ Len(FromBurp(issues, vocabulary)) = Len(issues)
<1> DEFINE counted(n) == Cardinality({i \in 1..n : issues[i].serial = 0})
           moved == FromBurp(issues, vocabulary)
<1>1. moved = [n \in DOMAIN issues |->
                 Moved(<<"burp", IF issues[n].serial # 0 THEN issues[n].serial ELSE counted(n)>>,
                       HttpLoc(Fallback(issues[n].url, "/"), issues[n].method, issues[n].param),
                       FirstCwe(issues[n].cwe, issues[n].words), {}, issues[n].severity, issues[n].confidence,
                       MarkersIn(vocabulary, issues[n].leaks), FALSE)]
  BY Zenon DEF FromBurp
<1>2. ASSUME NEW n \in Nat PROVE counted(n) \in Nat
  <2>1. IsFiniteSet(1..n)
    BY FS_Interval
  <2>2. IsFiniteSet({i \in 1..n : issues[i].serial = 0})
    BY <2>1, FS_Subset
  <2> QED
    BY <2>2, FS_CardinalityType
<1> HIDE DEF moved, counted
<1>3. ASSUME NEW n \in DOMAIN moved PROVE IsMoved(moved[n])
  <2>1. n \in DOMAIN issues /\ n \in Nat
    BY <1>1 DEF AreResults, IsList
  <2>2. IsWords(issues[n].words) /\ issues[n].cwe \in Int /\ issues[n].serial \in Nat
    BY <2>1 DEF AreResults, IsResult
  <2>3. FirstCwe(issues[n].cwe, issues[n].words) \in Int
    BY <2>2, CwesFound
  <2> DEFINE at == IF issues[n].serial # 0 THEN issues[n].serial ELSE counted(n)
  <2>4. at \in Nat
    BY <1>2, <2>1, <2>2
  <2>5. moved[n] = Moved(<<"burp", at>>, HttpLoc(Fallback(issues[n].url, "/"), issues[n].method, issues[n].param),
                         FirstCwe(issues[n].cwe, issues[n].words), {}, issues[n].severity, issues[n].confidence,
                         MarkersIn(vocabulary, issues[n].leaks), FALSE)
    BY <1>1, <2>1
  <2> HIDE DEF at
  <2> QED
    BY <2>3, <2>4, <2>5, MovedIsMoved
<1>4. IsList(moved) /\ Len(moved) = Len(issues)
  <2>1. moved = [n \in DOMAIN issues |-> moved[n]]
    BY <1>1
  <2> QED
    BY <2>1, MappedIsList DEF AreResults
<1> QED
  BY <1>3, <1>4 DEF AreMoved, moved

LEMMA NmapIsMoved ==
  ASSUME NEW ports, AreResults("nmap", ports)
  PROVE  AreMoved(FromNmap(ports)) /\ Len(FromNmap(ports)) = Len(Among(ports, {p \in ToSet(ports) : p.port # ""}))
<1> DEFINE read  == Among(ports, {p \in ToSet(ports) : p.port # ""})
           moved == FromNmap(ports)
<1>1. IsList(read)
  BY AmongHolds DEF AreResults
<1> HIDE DEF read
<1>2. moved = [n \in DOMAIN read |->
                 Moved(<<"nmap", n>>, At1("net", [host |-> Fallback(read[n].name, read[n].addr), port |-> read[n].port,
                                                  proto |-> Fallback(read[n].proto, "tcp"),
                                                  state |-> Fallback(read[n].state, "unknown")]),
                       NoCwe, {}, "info", IF read[n].state = "open" THEN "certain" ELSE "tentative", {}, FALSE)]
  BY Zenon DEF FromNmap, read
<1> HIDE DEF moved
<1>3. ASSUME NEW n \in DOMAIN moved PROVE IsMoved(moved[n])
  <2>1. n \in DOMAIN read /\ n \in Nat
    BY <1>1, <1>2 DEF IsList
  <2>2. NoCwe \in Int
    BY DEF NoCwe
  <2> QED
    BY <1>2, <2>1, <2>2, MovedIsMoved
<1>4. IsList(moved) /\ Len(moved) = Len(read)
  <2>1. moved = [n \in DOMAIN read |-> moved[n]]
    BY <1>2
  <2> QED
    BY <1>1, <2>1, MappedIsList
<1> QED
  BY <1>3, <1>4 DEF AreMoved, moved, read

LEMMA AdaptedIsMoved ==
  ASSUME NEW format \in NativeFormats, NEW results, AreResults(format, results), NEW vocabulary
  PROVE  AreMoved(Adapted(results, format, vocabulary))
BY ZapIsMoved, SarifIsMoved, NucleiIsMoved, BurpIsMoved, NmapIsMoved DEF Adapted, NativeFormats

-----------------------------------------------------------------------------
(* What is read of a report keeps. *)

Twins == {"vuln", "safe"}
TextFormats == NativeFormats \cup {"findings/v1", "unknown"}

\* A text as the readers take it: its items and its tool's results can be read.
IsText(x) ==
  /\ x.items.list \in BOOLEAN /\ AreItems(x.items.items)
  /\ x.mark \in NativeFormats \cup {""} /\ AreResults(x.mark, x.results)

\* What is left of an envelope.
IsEnvelope(env) ==
  /\ env.run = [app |-> env.run.app, variant |-> env.run.variant] /\ env.run.variant \in Twins
  /\ env.items.list => AreItems(env.items.items)

LEMMA NoItemsAreItems == AreItems(<<>>) /\ IsList(<<>>)
<1>1. <<>> \in Seq({}) /\ DOMAIN <<>> = {}
  OBVIOUS
<1> QED
  BY <1>1 DEF AreItems, IsList

LEMMA EnvelopeIsEnvelope ==
  ASSUME NEW doc, NEW opts, opts.variant \in Twins,
         doc.items.list => AreItems(doc.items.items)
  PROVE  LET env == ParseEnvelope(doc, opts) IN
         /\ IsEnvelope(env)
         /\ env.items.list => /\ env.items = doc.items
                              /\ Fold(doc.variant) \in Twins =>
                                   /\ env.run.variant = Fold(doc.variant)
                                   /\ opts.variant # Fold(doc.variant) => "run.variant" \in env.errors
<1> DEFINE env == ParseEnvelope(doc, opts)
           said == IF Fold(doc.variant) \in Twins THEN Fold(doc.variant) ELSE ""
           variant == Fallback(said, Fallback(opts.variant, "vuln"))
           app == Fallback(doc.app, opts.app)
<1>1. CASE doc.t = "scalar"
  <2>1. env = [run |-> [app |-> "", variant |-> opts.variant], items |-> NoItems, errors |-> {"$"}]
    BY <1>1 DEF ParseEnvelope, Fallback, Twins
  <2> HIDE DEF env
  <2>2. env.run = [app |-> env.run.app, variant |-> env.run.variant] /\ env.run.variant = opts.variant /\ ~env.items.list
    BY <2>1 DEF NoItems
  <2> QED
    BY <2>2 DEF IsEnvelope, env
<1>2. CASE doc.t # "scalar"
  <2>1. /\ env.run = [app |-> app, variant |-> variant] /\ env.items = doc.items
        /\ opts.variant \notin {"", variant} => "run.variant" \in env.errors
    BY <1>2 DEF ParseEnvelope, Twins
  <2>2. variant \in Twins /\ (said # "" => variant = said)
    BY DEF Fallback, Twins
  <2>3. opts.variant # ""
    BY DEF Twins
  <2> HIDE DEF env, app, variant
  <2>4. env.run.variant = variant /\ env.run = [app |-> env.run.app, variant |-> env.run.variant]
    <3> DEFINE run == env.run
    <3>1. run = [app |-> app, variant |-> variant]
      BY <2>1
    <3> HIDE DEF run
    <3>2. run.variant = variant /\ run.app = app
      BY <3>1
    <3>3. run = [app |-> run.app, variant |-> run.variant]
      BY <3>1, <3>2
    <3> QED
      BY <3>2, <3>3 DEF run
  <2>5. IsEnvelope(env)
    BY <2>1, <2>2, <2>4 DEF IsEnvelope
  <2>6. ASSUME Fold(doc.variant) \in Twins PROVE said = Fold(doc.variant) /\ said # ""
    BY <2>6 DEF Twins
  <2> QED
    BY <2>1, <2>2, <2>3, <2>4, <2>5, <2>6 DEF env
<1> QED
  BY <1>1, <1>2

LEMMA ValidatedIsClean ==
  ASSUME NEW env, IsEnvelope(env)
  PROVE  LET file == Validated(env) IN
         /\ file.value => env.items.list
         /\ env.items.list =>
              /\ Clean(file) /\ file.run = env.run /\ env.errors \subseteq file.errors
              /\ Forestalled(env.items.items) \/ Apart(file.findings)
              /\ Len(file.findings) = Len(env.items.items) \/ "finding" \in file.errors
<1> DEFINE file == Validated(env)
           read == CoerceFindings(env.items.items)
<1>1. CASE ~env.items.list
  <2>1. file.value = FALSE
    BY <1>1 DEF Validated
  <2> HIDE DEF file
  <2> QED
    BY <1>1, <2>1 DEF file
<1>2. CASE env.items.list
  <2>1. ReadSoFar(read, env.items.items, Len(env.items.items))
    BY <1>2, ItemsRead DEF IsEnvelope
  <2> HIDE DEF read
  <2>2. file = [value |-> TRUE, run |-> env.run, findings |-> read.findings, errors |-> env.errors \cup read.errors]
    BY <1>2 DEF Validated, read
  <2> HIDE DEF file
  <2>3. file.run = env.run /\ file.findings = read.findings /\ file.errors = env.errors \cup read.errors
    BY <2>2
  <2>4. Clean(file)
    BY <2>1, <2>3 DEF Clean, ReadSoFar, IsEnvelope, Twins
  <2>5. /\ Len(file.findings) = Len(env.items.items) \/ "finding" \in file.errors
        /\ Forestalled(env.items.items) \/ Apart(file.findings)
    BY <2>1, <2>3 DEF ReadSoFar
  <2> QED
    BY <1>2, <2>3, <2>4, <2>5 DEF file
<1> QED
  BY <1>1, <1>2

\* What was read of a text: it keeps, whatever was left out is told of, and the twin is the
\* one it names.
ReadWell(res, x, asked) ==
  /\ Clean(res) /\ res.run = [app |-> res.run.app, variant |-> res.run.variant]
  /\ Apart(res.findings) \/ (res.format = "findings/v1" /\ Forestalled(x.items.items))
  /\ Len(res.findings) < Len(Given(x, res.format)) => res.errors \cup res.notes # {}
  /\ res.format = "findings/v1" /\ Fold(x.variant) \in Twins =>
       /\ res.run.variant = Fold(x.variant)
       /\ Fold(x.variant) # asked => "run.variant" \in res.errors

LEMMA LengthIsNat == ASSUME NEW s, IsList(s) PROVE Len(s) \in Nat
BY DEF IsList

LEMMA WrittenReadsWell ==
  ASSUME NEW x, IsText(x), NEW opts, opts.variant \in Twins
  PROVE  LET res == ReadAs(x, "findings/v1", opts) IN res.value => ReadWell(res, x, opts.variant)
<1> DEFINE doc  == DocOf(x, Parses(x))
           env  == ParseEnvelope(doc, opts)
           file == Validated(env)
           wrong == IF Parses(x) THEN {} ELSE {"$"}
           res  == ReadAs(x, "findings/v1", opts)
<1> SUFFICES ASSUME res.value PROVE ReadWell(res, x, opts.variant)
  OBVIOUS
<1>1. res = AsRead(file, "findings/v1", {}, wrong)
  BY DEF ReadAs, ValidateFindings
<1>2. /\ Parses(x) => doc.items = x.items /\ doc.variant = x.variant
      /\ ~Parses(x) => doc.items = NoItems
  BY DEF DocOf
<1>3. doc.items.list => AreItems(doc.items.items)
  <2>1. CASE Parses(x)
    BY <1>2, <2>1 DEF IsText
  <2>2. CASE ~Parses(x)
    <3>1. doc.items.list = FALSE
      BY <1>2, <2>2 DEF NoItems
    <3> QED
      BY <3>1
  <2> QED
    BY <2>1, <2>2
<1> HIDE DEF doc, wrong
<1>4. /\ IsEnvelope(env)
      /\ env.items.list => /\ env.items = doc.items
                           /\ Fold(doc.variant) \in Twins =>
                                /\ env.run.variant = Fold(doc.variant)
                                /\ opts.variant # Fold(doc.variant) => "run.variant" \in env.errors
  BY <1>3, EnvelopeIsEnvelope
<1> HIDE DEF env
<1>5. /\ file.value => env.items.list
      /\ env.items.list =>
           /\ Clean(file) /\ file.run = env.run /\ env.errors \subseteq file.errors
           /\ Forestalled(env.items.items) \/ Apart(file.findings)
           /\ Len(file.findings) = Len(env.items.items) \/ "finding" \in file.errors
  BY <1>4, ValidatedIsClean
<1> HIDE DEF file, res
<1>6. /\ res.value = file.value /\ res.run = file.run /\ res.findings = file.findings /\ res.format = "findings/v1"
      /\ res.errors = file.errors \cup wrong /\ res.notes = {}
  BY <1>1 DEF AsRead
<1>7. env.items.list
  BY <1>5, <1>6
<1>8. Parses(x) /\ env.items = x.items /\ doc.variant = x.variant
  BY <1>2, <1>4, <1>7 DEF NoItems
<1>9. Clean(res) /\ res.run = [app |-> res.run.app, variant |-> res.run.variant]
  BY <1>4, <1>5, <1>6, <1>7 DEF Clean, IsEnvelope
<1>10. Len(res.findings) < Len(x.items.items) => res.errors # {}
  <2>1. Len(x.items.items) \in Nat
    BY LengthIsNat DEF IsText, AreItems
  <2> QED
    BY <1>5, <1>6, <1>7, <1>8, <2>1
<1>11. Fold(x.variant) \in Twins =>
         res.run.variant = Fold(x.variant) /\ (Fold(x.variant) # opts.variant => "run.variant" \in res.errors)
  BY <1>4, <1>5, <1>6, <1>7, <1>8
<1>12. Given(x, "findings/v1") = x.items.items
  BY DEF Given
<1>13. Apart(res.findings) \/ Forestalled(x.items.items)
  BY <1>5, <1>6, <1>7, <1>8
<1> QED
  BY <1>6, <1>9, <1>10, <1>11, <1>12, <1>13 DEF ReadWell

LEMMA NativeReadsWell ==
  ASSUME NEW x, IsText(x), NEW opts, opts.variant \in Twins, NEW format \in NativeFormats
  PROVE  ReadWell(ReadAs(x, format, opts), x, opts.variant)
<1> DEFINE results == ResultsOf(x, format)
           moved == Adapted(results, format, opts.markers)
           doc   == Wrapped(moved, opts)
           env   == ParseEnvelope(doc, opts)
           file  == Validated(env)
           wrong == IF Parses(x) \/ format \in {"burp", "nmap"} THEN {} ELSE {"$"}
           notes == Notes(results, format, moved)
           res   == ReadAs(x, format, opts)
<1>0. format \notin {"unknown", "findings/v1"}
  BY DEF NativeFormats
<1>1. res = AsRead(file, format, notes, wrong)
  BY <1>0 DEF ReadAs, ValidateFindings, Converted
<1> DEFINE given == Given(x, format)
<1>2. AreResults(format, results) /\ results \in {x.results, <<>>}
  <2>1. AreResults(format, <<>>)
    BY NoItemsAreItems DEF AreResults
  <2> QED
    BY <2>1 DEF ResultsOf, IsText
<1> HIDE DEF results
<1>3. AreMoved(moved)
  BY <1>2, AdaptedIsMoved
<1>4. format \in {"zap", "sarif"} => (results = <<>> => moved = <<>>) /\ (format = "zap" => Len(moved) >= Len(results))
  BY <1>2, ZapIsMoved, SarifIsMoved DEF Adapted
<1>14. format \in {"nuclei", "burp", "nmap"} => Len(moved) = Len(given)
  <2>1. CASE format = "nuclei"
    BY <1>2, <2>1, NucleiIsMoved DEF Adapted, Given, results
  <2>2. CASE format = "burp"
    BY <1>2, <2>2, BurpIsMoved DEF Adapted, Given, results
  <2>3. CASE format = "nmap"
    BY <1>2, <2>3, NmapIsMoved DEF Adapted, Given, results
  <2> QED
    BY <2>1, <2>2, <2>3
<1>15. format \in {"zap", "sarif"} => given = x.results
  BY DEF Given
<1> HIDE DEF moved, wrong, given
<1>5. doc.items = [list |-> TRUE, items |-> moved] /\ doc.items.list = TRUE /\ doc.items.items = moved /\ doc.t = "object"
  BY DEF Wrapped, Listed
<1> HIDE DEF doc
<1>6. IsEnvelope(env)
  BY <1>3, <1>5, MovedAreItems, EnvelopeIsEnvelope
<1>7. env.items = doc.items
  BY <1>5 DEF ParseEnvelope
<1> HIDE DEF env
<1>8. /\ Clean(file) /\ file.run = env.run /\ Apart(file.findings)
      /\ Len(file.findings) = Len(moved) \/ "finding" \in file.errors
  BY <1>3, <1>5, <1>6, <1>7, MovedAreItems, ValidatedIsClean
<1> HIDE DEF file, res, notes
<1>9. /\ res.run = file.run /\ res.findings = file.findings /\ res.format = format
      /\ res.errors = file.errors \cup wrong /\ res.notes = notes
  BY <1>1 DEF AsRead
<1>10. Clean(res) /\ res.run = [app |-> res.run.app, variant |-> res.run.variant]
  BY <1>6, <1>8, <1>9 DEF Clean, IsEnvelope
<1>11. ASSUME format \in {"zap", "sarif"}, Len(res.findings) < Len(x.results) PROVE res.errors \cup res.notes # {}
  <2>1. Len(moved) \in Nat /\ Len(x.results) \in Nat
    BY <1>3, LengthIsNat DEF AreMoved, IsText, AreResults
  <2>2. CASE moved = <<>>
    <3>1. "nothing" \in notes
      BY <1>11, <2>2 DEF notes, Notes
    <3> QED
      BY <1>9, <3>1
  <2>3. CASE moved # <<>> /\ Len(moved) < Len(results)
    <3>1. format = "sarif"
      BY <1>4, <1>11, <2>1, <2>3, <1>2, LengthIsNat DEF AreResults
    <3>2. "skipped" \in notes
      BY <2>3, <3>1 DEF notes, Notes
    <3> QED
      BY <1>9, <3>2
  <2>4. CASE moved # <<>> /\ ~(Len(moved) < Len(results))
    <3>1. results = x.results
      BY <1>2, <1>4, <1>11, <2>4
    <3>2. Len(res.findings) # Len(moved)
      BY <1>11, <2>1, <2>4, <3>1
    <3> QED
      BY <1>8, <1>9, <3>2
  <2> QED
    BY <2>2, <2>3, <2>4
<1>12. ASSUME format \in {"nuclei", "burp", "nmap"}, Len(res.findings) < Len(given) PROVE res.errors \cup res.notes # {}
  <2>1. Len(given) \in Nat /\ Len(moved) = Len(given)
    BY <1>3, <1>12, <1>14, LengthIsNat DEF AreMoved
  <2>2. Len(res.findings) # Len(moved)
    BY <1>12, <2>1
  <2> QED
    BY <1>8, <1>9, <2>2
<1>16. Len(res.findings) < Len(Given(x, res.format)) => res.errors \cup res.notes # {}
  BY <1>9, <1>11, <1>12, <1>15 DEF NativeFormats, given
<1>17. Apart(res.findings)
  BY <1>8, <1>9
<1>13. ReadWell(res, x, opts.variant)
  BY <1>0, <1>9, <1>10, <1>16, <1>17 DEF ReadWell
<1> QED
  BY <1>13 DEF res

\* What a report question is answered.
FirstRead(q) == ReadFindings(q.text, "app", q.variant, q.format, {"m"})
ReportAnswer ==
  /\ ask \in Questions
  /\ told.is = "report" =>
       /\ ask.about = "report"
       /\ told = [is |-> "report", first |-> FirstRead(ask), run |-> Scored(FirstRead(ask).run, ask.safe),
                  again |-> NormalizeText(TextOf(FirstRead(ask)), AsItIs)]

LEMMA ReportAnswered == RulesSpec => []ReportAnswer
<1>1. RulesInit => ReportAnswer
  BY DEF RulesInit, ReportAnswer, NotTold
<1>2. ReportAnswer /\ [RulesNext]_rvars => ReportAnswer'
  <2> SUFFICES ASSUME ReportAnswer, [RulesNext]_rvars PROVE ReportAnswer'
    OBVIOUS
  <2>1. CASE AnswerReport /\ UNCHANGED ask
    BY <2>1, Zenon DEF AnswerReport, ReportAnswer, FirstRead, AsItIs
  <2>2. ASSUME told'.is # "report", UNCHANGED ask PROVE ReportAnswer'
    BY <2>2 DEF ReportAnswer
  <2>3. CASE UNCHANGED rvars
    BY <2>3 DEF rvars, ReportAnswer
  <2>4. AnswerPath \/ AnswerPair \/ AnswerTrack \/ AnswerStrip \/ AnswerImage \/ AnswerCatalog \/ AnswerCoverage
        => told'.is # "report"
    BY OwnKind
  <2> QED
    BY <2>1, <2>2, <2>3, <2>4 DEF RulesNext
<1> QED
  BY <1>1, <1>2, PTL DEF RulesSpec

LEMMA TextReadsWell ==
  ASSUME NEW x, IsText(x), NEW opts, opts.variant \in Twins, opts.format \in TextFormats \cup {""}
  PROVE  LET res == NormalizeText(x, opts) IN
         res.value => ReadWell(res, x, opts.variant) /\ res.format = FormatOf(x, opts.format)
<1> DEFINE format == FormatOf(x, opts.format)
           res == NormalizeText(x, opts)
<1>1. format \in TextFormats
  BY DEF FormatOf, DetectFormat, IsText, TextFormats, NativeFormats
<1>2. res = ReadAs(x, format, opts)
  BY DEF NormalizeText
<1> HIDE DEF format, res
<1>3. res.value => res.format = format
  <2>1. format = "unknown" => res.value = FALSE
    BY <1>2 DEF ReadAs
  <2>2. format # "unknown" => res.format = format
    BY <1>1, <1>2 DEF ReadAs, AsRead, Converted
  <2> QED
    BY <2>1, <2>2
<1>4. CASE format = "unknown"
  <2>1. res.value = FALSE
    BY <1>2, <1>4 DEF ReadAs
  <2> QED
    BY <2>1 DEF res
<1>5. CASE format = "findings/v1"
  BY <1>2, <1>3, <1>5, WrittenReadsWell DEF res, format
<1>6. CASE format \in NativeFormats
  BY <1>2, <1>3, <1>6, NativeReadsWell DEF res, format
<1> QED
  BY <1>1, <1>4, <1>5, <1>6 DEF TextFormats

\* For every text that can be read, in each of the six formats: what was read of it reads the
\* same once it is written down, each finding can be compared by some anchor, and the twin a
\* findings/v1 names is the one it is scored against (validateFindings in findings.ts,
\* parseEnvelope in envelope.ts, the adapters, normalizeText in index.ts).  No two findings
\* share an id and ids stay what they were, unless a findings/v1 gives an item the id that a
\* later duplicate is renamed to.  Nothing is left out without an error or a note, but by
\* nuclei's and nmap's adapters a result that does not say where, and by those two and
\* Burp's a text in another format.
THEOREM ReadReportKeeps ==
  ASSUME \A q \in Questions : q.about = "report" =>
           /\ IsText(q.text) /\ q.variant \in Twins /\ q.format \in TextFormats \cup {""} /\ q.safe \in BOOLEAN
           /\ Fold(q.text.variant) \in Twins => FormatOf(q.text, q.format) = "findings/v1"
  PROVE  RulesSpec => []ReportKept
<1>1. ReportAnswer => ReportKept
  <2> SUFFICES ASSUME ReportAnswer, told.is = "report", told.first.value PROVE ReportKept
    BY DEF ReportKept
  <2> DEFINE x == ask.text
             opts == [app |-> "app", variant |-> ask.variant, format |-> ask.format, markers |-> {"m"}]
             res == FirstRead(ask)
             fs == res.findings
             given == Given(x, res.format)
             named == Fold(x.variant)
  <2>1. /\ IsText(x) /\ ask.variant \in Twins /\ ask.format \in TextFormats \cup {""}
        /\ named \in Twins => FormatOf(x, ask.format) = "findings/v1"
    BY DEF ReportAnswer
  <2>2. told.first = res /\ told.run = Scored(res.run, ask.safe) /\ told.again = NormalizeText(TextOf(res), AsItIs)
    <3> DEFINE scored == Scored(res.run, ask.safe)
               again  == NormalizeText(TextOf(res), AsItIs)
    <3>1. told = [is |-> "report", first |-> res, run |-> scored, again |-> again]
      BY Zenon DEF ReportAnswer
    <3> HIDE DEF res, scored, again
    <3>2. told.first = res /\ told.run = scored /\ told.again = again
      BY <3>1
    <3> QED
      BY <3>2 DEF scored, again
  <2>3. res = NormalizeText(x, opts)
    BY DEF FirstRead, ReadFindings
  <2> HIDE DEF res, x
  <2>4. res.value
    BY <2>2
  <2>5. ReadWell(res, x, ask.variant) /\ res.format = FormatOf(x, ask.format)
    <3>1. opts.variant = ask.variant /\ opts.format = ask.format
      OBVIOUS
    <3> HIDE DEF opts
    <3> DEFINE read == NormalizeText(x, opts)
    <3>2. IsText(x) /\ opts.variant \in Twins /\ opts.format \in TextFormats \cup {""}
      BY <2>1, <3>1
    <3>3. read.value => ReadWell(read, x, opts.variant) /\ read.format = FormatOf(x, opts.format)
      BY <3>2, TextReadsWell
    <3> QED
      BY <2>3, <2>4, <3>1, <3>3
  <2>6. /\ Renamed(told.again.findings, fs) /\ (Apart(fs) => told.again.findings = fs)
        /\ told.again.run = res.run /\ told.again.errors = {}
    <3> DEFINE again == NormalizeText(TextOf(res), AsItIs)
    <3>1. Clean(res) /\ res.run = [app |-> res.run.app, variant |-> res.run.variant]
      BY <2>5, Zenon DEF ReadWell
    <3>2. /\ Renamed(again.findings, fs) /\ (Apart(fs) => again.findings = fs)
          /\ again.run = res.run /\ again.errors = {}
      BY <3>1, CleanReadsAgain, Zenon
    <3> QED
      BY <2>2, <3>2
  <2>7. Apart(fs) \/ (res.format = "findings/v1" /\ Forestalled(x.items.items))
    BY <2>5 DEF ReadWell
  <2>8. \A i \in DOMAIN fs : DOMAIN FindingAnchors(fs[i].location) # {}
    BY <2>5 DEF ReadWell, Clean, FindingSettled, Settled
  <2>9. Len(fs) < Len(given) => res.errors \cup res.notes # {}
    BY <2>5 DEF ReadWell
  <2>10. ASSUME named \in Twins
         PROVE  /\ told.run.variant = IF ask.safe THEN "safe" ELSE named
                /\ named # ask.variant => "run.variant" \in res.errors
    <3>1. res.run = [app |-> res.run.app, variant |-> named] /\ (named # ask.variant => "run.variant" \in res.errors)
      BY <2>1, <2>5, <2>10 DEF ReadWell
    <3>2. Scored(res.run, ask.safe).variant = IF ask.safe THEN "safe" ELSE named
      <4> DEFINE run == res.run
      <4>1. run = [app |-> run.app, variant |-> named]
        BY <3>1
      <4> DEFINE app == run.app
      <4> HIDE DEF app, run, named
      <4>2. run = [app |-> app, variant |-> named]
        BY <4>1 DEF app
      <4>3. run.variant = named /\ [run EXCEPT !.variant = "safe"].variant = "safe"
        BY <4>2
      <4>4. Scored(run, ask.safe).variant = IF ask.safe THEN "safe" ELSE named
        BY <4>3 DEF Scored
      <4> QED
        BY <4>4 DEF run
    <3> QED
      BY <2>2, <3>1, <3>2, Zenon
  <2> HIDE DEF fs, given, named
  <2> QED
    BY <2>2, <2>6, <2>7, <2>8, <2>9, <2>10 DEF ReportKept, Renamed, Apart, fs, given, named, x, Twins
<1> QED
  BY <1>1, ReportAnswered, PTL

-----------------------------------------------------------------------------
(* Endpoints: references that say the same. *)

\* References the catalog cannot tell apart: of one kind, whichever way that is said.
SameRef(r, s) ==
  /\ RefKind(r) = RefKind(s) /\ r.method = s.method /\ r.path = s.path /\ r.query = s.query /\ r.port = s.port
  /\ r.op = s.op /\ r.gqlKind = s.gqlKind /\ r.field = s.field
  /\ r.event = s.event /\ r.channel = s.channel /\ r.namespace = s.namespace
  /\ r.tool = s.tool /\ r.injection = s.injection /\ r.host = s.host /\ r.proto = s.proto

LEMMA SameRefMatches ==
  ASSUME NEW r, NEW s, SameRef(r, s)
  PROVE  /\ OpKey(r) = OpKey(s)
         /\ \A o, routes : OpMatches(o, r, routes) = OpMatches(o, s, routes)
<1>1. OpKey(r) = OpKey(s)
  <2> DEFINE k == RefKind(r)
  <2>1. RefKind(s) = k
    BY DEF SameRef
  <2> HIDE DEF k
  <2>2. RefKind(r) = k
    BY DEF k
  <2> QED
    BY <2>1, <2>2 DEF OpKey, SameRef
<1>2. ASSUME NEW o, NEW routes PROVE OpMatches(o, r, routes) = OpMatches(o, s, routes)
  <2>1. RefKind(r) = RefKind(s)
    BY DEF SameRef
  <2>2. HttpReaches(o, r, routes) = HttpReaches(o, s, routes)
    BY Zenon DEF HttpReaches, SameRef
  <2>3. GraphqlReaches(o, r) = GraphqlReaches(o, s)
    BY Zenon DEF GraphqlReaches, SameRef
  <2>4. WsReaches(o, r) = WsReaches(o, s)
    BY Zenon DEF WsReaches, SameRef
  <2>5. LlmReaches(o, r) = LlmReaches(o, s)
    BY Zenon DEF LlmReaches, SameRef
  <2>6. NetReaches(o, r) = NetReaches(o, s)
    BY Zenon DEF NetReaches, SameRef
  <2> QED
    BY <2>1, <2>2, <2>3, <2>4, <2>5, <2>6, Zenon DEF OpMatches
<1> QED
  BY <1>1, <1>2

\* Two sets of references that say the same.
SameRefs(S, T) == (\A r \in S : \E s \in T : SameRef(r, s)) /\ (\A s \in T : \E r \in S : SameRef(r, s))

LEMMA SameRefsSaid ==
  ASSUME NEW S, NEW T, SameRefs(S, T), NEW ops, NEW variant, NEW vulns, NEW found
  PROVE  SaidBySet(ops, S, variant, vulns, found) = SaidBySet(ops, T, variant, vulns, found)
<1> DEFINE routes == SurfaceRoutes(ops)
           expected == Expected(ops, variant)
<1>1. ASSUME NEW r, NEW s, SameRef(r, s)
      PROVE  /\ OpKey(r) = OpKey(s) /\ RefKind(r) = RefKind(s)
             /\ \A o : OpMatches(o, r, routes) = OpMatches(o, s, routes)
  BY <1>1, SameRefMatches DEF SameRef
<1> HIDE DEF routes
<1>2. ASSUME NEW o, NEW x PROVE (\E r \in S : OpMatches(o, r, routes) = x) <=> (\E s \in T : OpMatches(o, s, routes) = x)
  <2>1. ASSUME NEW r \in S, OpMatches(o, r, routes) = x PROVE \E s \in T : OpMatches(o, s, routes) = x
    <3>1. PICK s \in T : SameRef(r, s)
      BY DEF SameRefs
    <3> QED
      BY <1>1, <2>1, <3>1
  <2>2. ASSUME NEW s \in T, OpMatches(o, s, routes) = x PROVE \E r \in S : OpMatches(o, r, routes) = x
    <3>1. PICK r \in S : SameRef(r, s)
      BY DEF SameRefs
    <3> QED
      BY <1>1, <2>2, <3>1
  <2> QED
    BY <2>1, <2>2
<1>3. \A o : (\E r \in S : OpMatches(o, r, routes) # "none") <=> (\E s \in T : OpMatches(o, s, routes) # "none")
  <2>1. ASSUME NEW o PROVE (\E r \in S : OpMatches(o, r, routes) # "none") <=> (\E s \in T : OpMatches(o, s, routes) # "none")
    <3>1. \A r, s : SameRef(r, s) => OpMatches(o, r, routes) = OpMatches(o, s, routes)
      BY <1>1
    <3> QED
      BY <3>1 DEF SameRefs
  <2> QED
    BY <2>1
<1>4. \A o : BestPaid(o, S, routes) = BestPaid(o, T, routes)
  BY <1>2 DEF BestPaid, routes
<1>5. BestPasses(ops, S, variant) = BestPasses(ops, T, variant)
  BY <1>4, Zenon DEF BestPasses, routes
<1>6. Reaching(ops, S, variant) = Reaching(ops, T, variant)
  BY <1>3, Zenon DEF Reaching, routes
<1>7. OnReached(ops, S, variant, vulns) = OnReached(ops, T, variant, vulns)
  BY <1>6 DEF OnReached
<1>8. Unmet(ops, S, variant) = Unmet(ops, T, variant)
  <2> DEFINE Unknown(x) == RefKind(x) # "none" /\ \A o \in expected : OpMatches(o, x, routes) = "none"
  <2>1. ASSUME NEW r, NEW s, SameRef(r, s) PROVE (Unknown(r) <=> Unknown(s)) /\ OpKey(r) = OpKey(s)
    BY <1>1, <2>1, Zenon
  <2> HIDE DEF Unknown
  <2>2. {OpKey(r) : r \in {x \in S : Unknown(x)}} = {OpKey(r) : r \in {x \in T : Unknown(x)}}
    <3>1. \A r \in {x \in S : Unknown(x)} : \E s \in {x \in T : Unknown(x)} : OpKey(r) = OpKey(s)
      BY <2>1 DEF SameRefs
    <3>2. \A s \in {x \in T : Unknown(x)} : \E r \in {x \in S : Unknown(x)} : OpKey(r) = OpKey(s)
      BY <2>1 DEF SameRefs
    <3> QED
      BY <3>1, <3>2
  <2> QED
    BY <2>2, Zenon DEF Unmet, Unknown, routes, expected
<1> QED
  BY <1>5, <1>6, <1>7, <1>8, Zenon DEF SaidBySet

-----------------------------------------------------------------------------
(* One list from a set of one element, or of none. *)

AtMostOne(S) == S = {} \/ \E x : S = {x}

LEMMA SetIsList ==
  ASSUME NEW S, AtMostOne(S)
  PROVE  IsList(SetToSeq(S)) /\ \A e : Holds(SetToSeq(S), e) <=> e \in S
<1> DEFINE n == Cardinality(S)
           listed == SetToSeq(S)
<1>1. n \in {0, 1} /\ (n = 0 <=> S = {})
  BY FS_EmptySet, FS_Singleton DEF AtMostOne
<1>2. \E f \in [1..n -> S] : IsInjective(f)
  <2>1. CASE S = {}
    <3>1. 1..n = {}
      BY <1>1, <2>1
    <3>2. [i \in 1..n |-> i] \in [1..n -> S] /\ IsInjective([i \in 1..n |-> i])
      BY <3>1 DEF IsInjective
    <3> QED
      BY <3>2
  <2>2. ASSUME NEW x, S = {x} PROVE \E f \in [1..n -> S] : IsInjective(f)
    <3>1. 1..n = {1}
      BY <1>1, <2>2
    <3>2. [i \in 1..n |-> x] \in [1..n -> S] /\ IsInjective([i \in 1..n |-> x])
      BY <2>2, <3>1 DEF IsInjective
    <3> QED
      BY <3>2
  <2> QED
    BY <2>1, <2>2 DEF AtMostOne
<1>3. listed \in [1..n -> S]
  BY <1>2 DEF SetToSeq
<1> HIDE DEF listed, n
<1>4. IsList(listed) /\ DOMAIN listed = 1..n
  <2>1. listed \in Seq(S) /\ DOMAIN listed = 1..n
    BY <1>1, <1>3
  <2> QED
    BY <2>1 DEF IsList
<1>5. \A e : Holds(listed, e) <=> e \in S
  <2>1. CASE S = {}
    BY <1>1, <1>3, <1>4, <2>1 DEF Holds
  <2>2. ASSUME NEW x, S = {x} PROVE \A e : Holds(listed, e) <=> e \in S
    <3>1. 1..n = {1} /\ listed[1] = x
      BY <1>1, <1>3, <2>2
    <3> QED
      BY <1>4, <2>2, <3>1 DEF Holds
  <2> QED
    BY <2>1, <2>2 DEF AtMostOne
<1> QED
  BY <1>4, <1>5 DEF listed

-----------------------------------------------------------------------------
(* Entries: the accepted shapes of one endpoint. *)

RefNames == {"method", "path", "endpoint", "url", "port", "op", "graphql_kind", "field", "event", "channel", "namespace",
             "tool", "injection_channel", "host", "proto"}
QuerySaid(src) == IF "query" \in DOMAIN src THEN src.query ELSE {}

\* src says what f says, but for the kind.
SaysAll(src, f) == (\A n \in RefNames : Says(src, n) = Says(f, n)) /\ QuerySaid(src) = QuerySaid(f)

\* Nothing, the kind or another name of it.
NamesOf(k) == {"", k} \cup {a \in DOMAIN Aliases : Aliases[a] = k}

\* The fields f are those of an endpoint of the kind k, without naming it.
FieldsOf(k, f) == "kind" \notin DOMAIN f /\ RefKind(RefOf(f)) = k

LEMMA SaysAllIsSame ==
  ASSUME NEW src, NEW f, SaysAll(src, f), NEW k \in Kinds, FieldsOf(k, f), Fold(Says(src, "kind")) \in NamesOf(k)
  PROVE  SameRef(RefOf(src), RefOf(f)) /\ RefKind(RefOf(src)) = k
<1> DEFINE r == RefOf(src)
           s == RefOf(f)
<1>1. UrlSaid(src) = UrlSaid(f)
  BY DEF UrlSaid, SaysAll, RefNames
<1>2. QueryOf(src) = QueryOf(f)
  BY <1>1 DEF QueryOf, SaysAll, QuerySaid
<1>3. \A n \in RefNames : Says(src, n) = Says(f, n)
  BY DEF SaysAll
<1>4. /\ r.method = s.method /\ r.path = s.path /\ r.endpoint = s.endpoint /\ r.query = s.query /\ r.port = s.port
      /\ r.op = s.op /\ r.gqlKind = s.gqlKind /\ r.field = s.field
      /\ r.event = s.event /\ r.channel = s.channel /\ r.namespace = s.namespace
      /\ r.tool = s.tool /\ r.injection = s.injection /\ r.host = s.host /\ r.proto = s.proto
  BY <1>1, <1>2, <1>3 DEF RefOf, RefNames
<1>5. r.kind = Fold(Says(src, "kind")) /\ s.kind = ""
  BY DEF RefOf, FieldsOf, Says, Fold, Respelt
<1> HIDE DEF r, s
<1>6. RefKind(s) = k
  BY DEF FieldsOf, s
<1>7. RefKind(r) = k
  <2>1. CASE r.kind = ""
    BY <1>4, <1>5, <1>6, <2>1 DEF RefKind
  <2>2. CASE r.kind = k
    BY <2>2 DEF RefKind
  <2>3. CASE r.kind \in DOMAIN Aliases /\ Aliases[r.kind] = k
    BY <2>3 DEF RefKind, Aliases, Kinds
  <2> QED
    BY <1>5, <2>1, <2>2, <2>3 DEF NamesOf
<1> QED
  BY <1>4, <1>6, <1>7 DEF SameRef, r, s

\* What is said where one set of fields is laid over another.
LaidOver(h, f, g) ==
  /\ \A n : Says(h, n) = IF n \in DOMAIN f THEN f[n] ELSE Says(g, n)
  /\ QuerySaid(h) = IF "query" \in DOMAIN f THEN f.query ELSE QuerySaid(g)

LEMMA OverSays == ASSUME NEW f, NEW g PROVE LaidOver(Over(f, g), f, g)
<1>1. \A n : Says(Over(f, g), n) = IF n \in DOMAIN f THEN f[n] ELSE Says(g, n)
  BY DEF Over, Says
<1>2. QuerySaid(Over(f, g)) = IF "query" \in DOMAIN f THEN f.query ELSE QuerySaid(g)
  BY DEF Over, QuerySaid
<1> QED
  BY <1>1, <1>2 DEF LaidOver

\* The kind, and the fields, of a line.
LineKind(x) ==
  CASE x.tag \in {"graphql", "gql"} -> "graphql"
    [] x.tag \in {"llm", "tool"}    -> "llm"
    [] x.tag \in {"ws", "wss"}      -> "ws"
    [] x.tag = "net"                -> "net"
    [] OTHER -> IF x.path = "" THEN "none" ELSE "http"
LineFields(x) ==
  CASE LineKind(x) = "graphql" -> [graphql_kind |-> x.sub, op |-> x.name]
    [] LineKind(x) = "llm"     -> [tool |-> x.name]
    [] LineKind(x) = "ws"      -> [endpoint |-> x.path, event |-> x.name]
    [] LineKind(x) = "net"     -> [host |-> x.host, port |-> x.port, proto |-> x.sub]
    [] OTHER                   -> [method |-> x.verb, path |-> x.path]

\* The fields of an object with nothing nested but under k: what is nested lies over what is
\* under location, that over the object's own.
Outer(e) == Over(e.at, e.own)
Inner(e, k) == IF k \in DOMAIN e.nests THEN Over(e.nests[k], Outer(e)) ELSE Outer(e)

\* The entry e writes an endpoint of kind k with the fields f, in one of the shapes.
Writes(e, k, f) ==
  \/ e.t = "text" /\ LineKind(e) = k /\ SaysAll(LineFields(e), f)
  \/ /\ e.t = "object" /\ DOMAIN e.nests \subseteq {k}
     /\ Fold(Says(Outer(e), "kind")) \in NamesOf(k) /\ SaysAll(Inner(e, k), f)

LEMMA LineReads ==
  ASSUME NEW e, NEW k \in Kinds, NEW f, FieldsOf(k, f), LineKind(e) = k, SaysAll(LineFields(e), f)
  PROVE  \E r : FromString(e) = {r} /\ SameRef(r, RefOf(f))
<1> DEFINE of(src) == FromString(e) = {RefOf(src)} /\ SaysAll(src, f) /\ Fold(Says(src, "kind")) \in NamesOf(k)
<1>1. (\E src : of(src)) => \E r : FromString(e) = {r} /\ SameRef(r, RefOf(f))
  BY SaysAllIsSame
<1>2. CASE k = "graphql"
  <2> DEFINE src == [kind |-> "graphql", graphql_kind |-> e.sub, op |-> e.name]
             line == [graphql_kind |-> e.sub, op |-> e.name]
  <2>1. FromString(e) = {RefOf(src)} /\ LineFields(e) = line
    BY <1>2 DEF LineKind, FromString, LineFields
  <2>2. SaysAll(src, line) /\ Says(src, "kind") = "graphql"
    <3>1. /\ DOMAIN line = {"graphql_kind", "op"} /\ DOMAIN src = {"kind"} \cup {"graphql_kind", "op"}
          /\ src["kind"] = "graphql" /\ \A n \in {"graphql_kind", "op"} : src[n] = line[n]
      OBVIOUS
    <3> HIDE DEF src, line
    <3> QED
      BY <3>1 DEF SaysAll, Says, QuerySaid, RefNames
  <2> HIDE DEF src, line
  <2>3. of(src)
    BY <1>2, <2>1, <2>2 DEF SaysAll, NamesOf, Fold, Respelt
  <2> QED
    BY <1>1, <2>3
<1>3. CASE k = "llm"
  <2> DEFINE src == [kind |-> "llm", tool |-> e.name]
             line == [tool |-> e.name]
  <2>1. FromString(e) = {RefOf(src)} /\ LineFields(e) = line
    BY <1>3 DEF LineKind, FromString, LineFields
  <2>2. SaysAll(src, line) /\ Says(src, "kind") = "llm"
    <3>1. /\ DOMAIN line = {"tool"} /\ DOMAIN src = {"kind"} \cup {"tool"}
          /\ src["kind"] = "llm" /\ \A n \in {"tool"} : src[n] = line[n]
      OBVIOUS
    <3> HIDE DEF src, line
    <3> QED
      BY <3>1 DEF SaysAll, Says, QuerySaid, RefNames
  <2> HIDE DEF src, line
  <2>3. of(src)
    BY <1>3, <2>1, <2>2 DEF SaysAll, NamesOf, Fold, Respelt
  <2> QED
    BY <1>1, <2>3
<1>4. CASE k = "ws"
  <2> DEFINE src == [kind |-> "ws", endpoint |-> e.path, event |-> e.name]
             line == [endpoint |-> e.path, event |-> e.name]
  <2>1. FromString(e) = {RefOf(src)} /\ LineFields(e) = line
    BY <1>4 DEF LineKind, FromString, LineFields
  <2>2. SaysAll(src, line) /\ Says(src, "kind") = "ws"
    <3>1. /\ DOMAIN line = {"endpoint", "event"} /\ DOMAIN src = {"kind"} \cup {"endpoint", "event"}
          /\ src["kind"] = "ws" /\ \A n \in {"endpoint", "event"} : src[n] = line[n]
      OBVIOUS
    <3> HIDE DEF src, line
    <3> QED
      BY <3>1 DEF SaysAll, Says, QuerySaid, RefNames
  <2> HIDE DEF src, line
  <2>3. of(src)
    BY <1>4, <2>1, <2>2 DEF SaysAll, NamesOf, Fold, Respelt
  <2> QED
    BY <1>1, <2>3
<1>5. CASE k = "net"
  <2> DEFINE src == [kind |-> "net", host |-> e.host, port |-> e.port, proto |-> e.sub]
             line == [host |-> e.host, port |-> e.port, proto |-> e.sub]
  <2>1. FromString(e) = {RefOf(src)} /\ LineFields(e) = line
    BY <1>5 DEF LineKind, FromString, LineFields
  <2>2. SaysAll(src, line) /\ Says(src, "kind") = "net"
    <3>1. /\ DOMAIN line = {"host", "port", "proto"} /\ DOMAIN src = {"kind"} \cup {"host", "port", "proto"}
          /\ src["kind"] = "net" /\ \A n \in {"host", "port", "proto"} : src[n] = line[n]
      OBVIOUS
    <3> HIDE DEF src, line
    <3> QED
      BY <3>1 DEF SaysAll, Says, QuerySaid, RefNames
  <2> HIDE DEF src, line
  <2>3. of(src)
    BY <1>5, <2>1, <2>2 DEF SaysAll, NamesOf, Fold, Respelt
  <2> QED
    BY <1>1, <2>3
<1>6. CASE k = "http"
  <2> DEFINE src == [method |-> e.verb, path |-> e.path]
  <2>1. FromString(e) = {RefOf(src)} /\ LineFields(e) = src
    BY <1>6 DEF LineKind, FromString, LineFields
  <2>2. Says(src, "kind") = ""
    BY DEF Says
  <2> HIDE DEF src
  <2>3. of(src)
    BY <2>1, <2>2 DEF NamesOf, Fold, Respelt
  <2> QED
    BY <1>1, <2>3
<1> HIDE DEF of
<1> QED
  BY <1>2, <1>3, <1>4, <1>5, <1>6 DEF Kinds

LEMMA ObjectReads ==
  ASSUME NEW e, NEW k \in Kinds, NEW f, FieldsOf(k, f), DOMAIN e.nests \subseteq {k},
         Fold(Says(Outer(e), "kind")) \in NamesOf(k), SaysAll(Inner(e, k), f)
  PROVE  SameRef(RefOf(Flattened(e)), RefOf(f)) /\ RefKind(RefOf(Flattened(e))) = k
<1> DEFINE base == Outer(e)
           src  == Nest(base, e.nests, k)
<1>1. \A x, s : x # k => Nest(s, e.nests, x) = s
  BY DEF Nest
<1>2. Flattened(e) = src
  <2>1. Flattened(e) = Nest(Nest(Nest(Nest(Nest(base, e.nests, "http"), e.nests, "graphql"), e.nests, "ws"), e.nests, "llm"),
                            e.nests, "net")
    BY Zenon DEF Flattened, Outer
  <2> HIDE DEF base
  <2>2. CASE k = "http"
    BY <1>1, <2>1, <2>2
  <2>3. CASE k = "graphql"
    BY <1>1, <2>1, <2>3
  <2>4. CASE k = "ws"
    BY <1>1, <2>1, <2>4
  <2>5. CASE k = "llm"
    BY <1>1, <2>1, <2>5
  <2>6. CASE k = "net"
    BY <1>1, <2>1, <2>6
  <2> QED
    BY <2>2, <2>3, <2>4, <2>5, <2>6 DEF Kinds
<1>3. SaysAll(src, f) /\ Fold(Says(src, "kind")) \in NamesOf(k)
  <2>1. CASE k \notin DOMAIN e.nests
    BY <2>1 DEF Nest, Inner
  <2>2. CASE k \in DOMAIN e.nests
    <3> DEFINE c == IF "kind" \in DOMAIN base THEN base.kind ELSE k
               named == [kind |-> c]
               inner == Inner(e, k)
    <3>1. src = Over(named, inner)
      BY <2>2 DEF Nest, Inner
    <3>2. DOMAIN named = {"kind"} /\ named["kind"] = c
      OBVIOUS
    <3>3. Fold(c) \in NamesOf(k)
      BY DEF Says, NamesOf, Fold, Respelt, Kinds
    <3> HIDE DEF c, named, inner, src
    <3>4. /\ \A n : Says(src, n) = IF n = "kind" THEN c ELSE Says(inner, n)
          /\ QuerySaid(src) = QuerySaid(inner)
      <4>1. "kind" # "query"
        OBVIOUS
      <4>2. /\ \A n : Says(src, n) = IF n \in DOMAIN named THEN named[n] ELSE Says(inner, n)
            /\ QuerySaid(src) = IF "query" \in DOMAIN named THEN named.query ELSE QuerySaid(inner)
        <5>1. LaidOver(Over(named, inner), named, inner)
          BY ONLY OverSays, Zenon
        <5> QED
          BY ONLY <3>1, <5>1, Zenon DEF LaidOver
      <4> QED
        BY <3>2, <4>1, <4>2
    <3> QED
      BY <3>3, <3>4 DEF SaysAll, RefNames, inner
  <2> QED
    BY <2>1, <2>2
<1> HIDE DEF src
<1> QED
  BY <1>2, <1>3, SaysAllIsSame

\* Whichever of the shapes it is written in, an endpoint is read as one reference.
LEMMA WrittenIsRead ==
  ASSUME NEW e, NEW k \in Kinds, NEW f, FieldsOf(k, f), Writes(e, k, f)
  PROVE  \E r : CoerceEndpoint(e) = {r} /\ SameRef(r, RefOf(f))
<1>1. CASE e.t = "text" /\ LineKind(e) = k /\ SaysAll(LineFields(e), f)
  <2>1. CoerceEndpoint(e) = FromString(e)
    BY <1>1 DEF CoerceEndpoint
  <2> QED
    BY <1>1, <2>1, LineReads
<1>2. CASE e.t = "object" /\ DOMAIN e.nests \subseteq {k} /\ Fold(Says(Outer(e), "kind")) \in NamesOf(k) /\ SaysAll(Inner(e, k), f)
  <2> DEFINE r == RefOf(Flattened(e))
  <2>1. CoerceEndpoint(e) = {x \in {r} : RefKind(x) # "none"}
    BY <1>2, Zenon DEF CoerceEndpoint
  <2>2. SameRef(r, RefOf(f)) /\ RefKind(r) = k /\ k # "none"
    BY <1>2, ObjectReads, Zenon DEF Kinds
  <2> HIDE DEF r
  <2> QED
    BY <2>1, <2>2
<1> QED
  BY <1>1, <1>2 DEF Writes

\* The same entry, or two shapes of one endpoint.
SameEndpoint(d, e) ==
  \/ d = e
  \/ \E k \in Kinds : \E f, g : /\ FieldsOf(k, f) /\ Writes(d, k, f) /\ FieldsOf(k, g) /\ Writes(e, k, g)
                               /\ RefOf(f) = RefOf(g)

LEMMA SameRefIsEquality ==
  /\ \A r : SameRef(r, r)
  /\ \A r, s : SameRef(r, s) => SameRef(s, r)
  /\ \A r, s, t : SameRef(r, s) /\ SameRef(s, t) => SameRef(r, t)
BY DEF SameRef

LEMMA SameEndpointReads ==
  ASSUME NEW d, NEW e, SameEndpoint(d, e)
  PROVE  SameRefs(CoerceEndpoint(d), CoerceEndpoint(e))
<1>1. CASE d = e
  BY <1>1, SameRefIsEquality DEF SameRefs
<1>2. ASSUME NEW k \in Kinds, NEW f, NEW g, FieldsOf(k, f), Writes(d, k, f), FieldsOf(k, g), Writes(e, k, g), RefOf(f) = RefOf(g)
      PROVE  SameRefs(CoerceEndpoint(d), CoerceEndpoint(e))
  <2>1. PICK r : CoerceEndpoint(d) = {r} /\ SameRef(r, RefOf(f))
    BY <1>2, WrittenIsRead, Zenon
  <2>2. PICK s : CoerceEndpoint(e) = {s} /\ SameRef(s, RefOf(f))
    BY <1>2, WrittenIsRead, Zenon
  <2>3. SameRef(r, s)
    BY <2>1, <2>2, SameRefIsEquality, Zenon
  <2> QED
    BY <2>1, <2>2, <2>3, SameRefIsEquality DEF SameRefs
<1> QED
  BY <1>1, <1>2 DEF SameEndpoint

LEMMA EntryIsOne == ASSUME NEW e PROVE AtMostOne(CoerceEndpoint(e))
<1>1. AtMostOne(FromString(e))
  BY DEF FromString, AtMostOne
<1>2. ASSUME NEW x PROVE AtMostOne({r \in {x} : RefKind(r) # "none"})
  <2>1. {r \in {x} : RefKind(r) # "none"} = {} \/ {r \in {x} : RefKind(r) # "none"} = {x}
    OBVIOUS
  <2> QED
    BY <2>1 DEF AtMostOne
<1>3. AtMostOne({})
  BY DEF AtMostOne
<1> QED
  BY <1>1, <1>2, <1>3, Zenon DEF CoerceEndpoint

-----------------------------------------------------------------------------
(* Files: the same endpoints, listed another way. *)

SameEndpoints(s, t) ==
  /\ \A i \in DOMAIN s : \E j \in DOMAIN t : SameEndpoint(s[i], t[j])
  /\ \A j \in DOMAIN t : \E i \in DOMAIN s : SameEndpoint(s[i], t[j])

ListsSome(x) ==
  x.start \in {"json", "yaml"} /\ x.shape # "scalar" /\ \E i \in DOMAIN x.entries.items : CoerceEndpoint(x.entries.items[i]) # {}

\* Two texts with one envelope and the same endpoints; where those are none, the same findings.
AlikeTexts(x, y) ==
  /\ x.start = y.start /\ x.shape = y.shape /\ x.schema = y.schema /\ x.app = y.app /\ x.variant = y.variant
  /\ x.entries.list = y.entries.list /\ IsList(x.entries.items) /\ IsList(y.entries.items)
  /\ SameEndpoints(x.entries.items, y.entries.items)
  /\ ListsSome(x) \/ (IsText(x) /\ x.mark = y.mark /\ x.items = y.items /\ x.results = y.results)

LEMMA EmptyHolds == ASSUME NEW s, IsList(s) PROVE (s = <<>> <=> \A e : ~Holds(s, e)) /\ \A e : Holds(s, e) <=> e \in ToSet(s)
<1>1. s = <<>> <=> DOMAIN s = {}
  BY DEF IsList
<1>2. DOMAIN s = {} <=> \A e : ~Holds(s, e)
  BY DEF Holds
<1>3. \A e : Holds(s, e) <=> e \in ToSet(s)
  BY DEF Holds, ToSet
<1> QED
  BY <1>1, <1>2, <1>3

\* The references the entries make.
Listing(entries) == FlattenSeq([i \in DOMAIN entries |-> SetToSeq(CoerceEndpoint(entries[i]))])

LEMMA ListingHolds ==
  ASSUME NEW entries, IsList(entries)
  PROVE  /\ IsList(Listing(entries))
         /\ \A r : r \in ToSet(Listing(entries)) <=> \E i \in DOMAIN entries : r \in CoerceEndpoint(entries[i])
<1> DEFINE each == [i \in DOMAIN entries |-> SetToSeq(CoerceEndpoint(entries[i]))]
<1>1. IsList(each) /\ DOMAIN each = DOMAIN entries
  <2>1. each = [i \in DOMAIN entries |-> each[i]] /\ DOMAIN each = DOMAIN entries
    OBVIOUS
  <2> HIDE DEF each
  <2> QED
    BY <2>1, MappedIsList
<1>2. ASSUME NEW i \in DOMAIN entries
      PROVE  IsList(each[i]) /\ \A r : Holds(each[i], r) <=> r \in CoerceEndpoint(entries[i])
  BY EntryIsOne, SetIsList
<1> HIDE DEF each
<1>3. IsList(FlattenSeq(each)) /\ \A r : Holds(FlattenSeq(each), r) <=> \E i \in DOMAIN each : Holds(each[i], r)
  BY <1>1, <1>2, FlatHolds
<1>4. Listing(entries) = FlattenSeq(each)
  BY Zenon DEF Listing, each
<1> QED
  BY <1>1, <1>2, <1>3, <1>4, EmptyHolds

LEMMA SameListing ==
  ASSUME NEW s, IsList(s), NEW t, IsList(t), SameEndpoints(s, t)
  PROVE  SameRefs(ToSet(Listing(s)), ToSet(Listing(t)))
<1>1. ASSUME NEW r \in ToSet(Listing(s)) PROVE \E x \in ToSet(Listing(t)) : SameRef(r, x)
  <2>1. PICK i \in DOMAIN s : r \in CoerceEndpoint(s[i])
    BY ListingHolds
  <2>2. PICK j \in DOMAIN t : SameEndpoint(s[i], t[j])
    BY DEF SameEndpoints
  <2>3. PICK x \in CoerceEndpoint(t[j]) : SameRef(r, x)
    BY <2>1, <2>2, SameEndpointReads DEF SameRefs
  <2> QED
    BY <2>3, ListingHolds
<1>2. ASSUME NEW x \in ToSet(Listing(t)) PROVE \E r \in ToSet(Listing(s)) : SameRef(r, x)
  <2>1. PICK j \in DOMAIN t : x \in CoerceEndpoint(t[j])
    BY ListingHolds
  <2>2. PICK i \in DOMAIN s : SameEndpoint(s[i], t[j])
    BY DEF SameEndpoints
  <2>3. PICK r \in CoerceEndpoint(s[i]) : SameRef(r, x)
    BY <2>1, <2>2, SameEndpointReads DEF SameRefs
  <2> QED
    BY <2>3, ListingHolds
<1> QED
  BY <1>1, <1>2 DEF SameRefs

LEMMA AlikeFilesParse ==
  ASSUME NEW x, NEW y, AlikeTexts(x, y), NEW opts
  PROVE  LET p == ParseEndpointsFile(x, opts)
             q == ParseEndpointsFile(y, opts) IN
         /\ p.errors = q.errors /\ IsList(p.endpoints) /\ IsList(q.endpoints)
         /\ SameRefs(ToSet(p.endpoints), ToSet(q.endpoints))
         /\ ListsSome(x) => p.endpoints # <<>>
<1> DEFINE p == ParseEndpointsFile(x, opts)
           q == ParseEndpointsFile(y, opts)
<1>1. /\ IsList(<<>>) /\ SameRefs(ToSet(<<>>), ToSet(<<>>))
  BY NoItemsAreItems, SameRefIsEquality DEF SameRefs
<1>2. CASE x.start \notin {"json", "yaml"}
  <2>1. p = [value |-> FALSE, errors |-> {"$"}, endpoints |-> <<>>] /\ q = p
    BY <1>2 DEF ParseEndpointsFile, AlikeTexts
  <2>2. p.errors = q.errors /\ p.endpoints = <<>> /\ q.endpoints = <<>>
    BY <2>1
  <2> HIDE DEF p, q
  <2> QED
    BY <1>1, <1>2, <2>2 DEF p, q, ListsSome
<1>3. CASE x.start \in {"json", "yaml"}
  <2> DEFINE doc(z) == [t |-> z.shape, schema |-> z.schema, app |-> z.app, variant |-> z.variant, items |-> z.entries]
             env(z) == ParseEnvelope(doc(z), opts)
             given(z) == IF z.shape = "scalar" THEN <<>> ELSE z.entries.items
  <2>1. ASSUME NEW z, z.start \in {"json", "yaml"}
        PROVE  ParseEndpointsFile(z, opts).errors = env(z).errors /\ ParseEndpointsFile(z, opts).endpoints = Listing(given(z))
    <3>1. ParseEndpointsFile(z, opts) = [value |-> env(z).items.list, errors |-> env(z).errors, endpoints |-> Listing(env(z).items.items)]
      BY <2>1, Zenon DEF ParseEndpointsFile, ValidateEndpoints, Listing
    <3>2. env(z).items.items = given(z)
      BY DEF ParseEnvelope, NoItems
    <3> HIDE DEF env, given
    <3> QED
      BY <3>1, <3>2
  <2>2. env(x).errors = env(y).errors
    <3>1. doc(x).t = doc(y).t /\ doc(x).schema = doc(y).schema /\ doc(x).app = doc(y).app /\ doc(x).variant = doc(y).variant
          /\ doc(x).items.list = doc(y).items.list
      BY DEF AlikeTexts
    <3> DEFINE d == doc(x)
               e == doc(y)
    <3> HIDE DEF d, e
    <3>2. d.t = e.t /\ d.schema = e.schema /\ d.app = e.app /\ d.variant = e.variant /\ d.items.list = e.items.list
      BY <3>1 DEF d, e
    <3>3. ParseEnvelope(d, opts).errors = ParseEnvelope(e, opts).errors
      BY <3>2 DEF ParseEnvelope
    <3> QED
      BY <3>3 DEF d, e
  <2>3. IsList(given(x)) /\ IsList(given(y)) /\ SameEndpoints(given(x), given(y))
    BY <1>1 DEF AlikeTexts, SameEndpoints
  <2>4. /\ p.errors = q.errors /\ p.endpoints = Listing(given(x)) /\ q.endpoints = Listing(given(y))
    BY <1>3, <2>1, <2>2 DEF AlikeTexts
  <2>5. ListsSome(x) => \E i \in DOMAIN given(x) : CoerceEndpoint(given(x)[i]) # {}
    BY DEF ListsSome
  <2> HIDE DEF given, p, q
  <2>6. ListsSome(x) => Listing(given(x)) # <<>>
    <3>1. ListsSome(x) => \E r : r \in ToSet(Listing(given(x)))
      BY <2>3, <2>5, ListingHolds
    <3> QED
      BY <2>3, <3>1, ListingHolds, EmptyHolds
  <2> QED
    BY <2>3, <2>4, <2>6, ListingHolds, SameListing DEF p, q
<1> QED
  BY <1>2, <1>3

\* What the findings of a file imply is a list.
LEMMA ImpliedIsList == ASSUME NEW location PROVE IsList(Implied(location))
<1>1. IsList(<<>>) /\ \A e : IsList(<<e>>)
  <2>1. \A e : <<e>> \in Seq({e})
    OBVIOUS
  <2> QED
    BY <2>1, NoItemsAreItems DEF IsList
<1>2. \A k, names, src : IsList(IF StandsAt(location, k, names) THEN <<RefOf(Over([kind |-> k], src))>> ELSE <<>>)
  BY <1>1
<1> DEFINE at(k, n) == IF k \in DOMAIN location THEN location[k][n] ELSE ""
           of(k, names, src) == IF StandsAt(location, k, names) THEN <<RefOf(Over([kind |-> k], src))>> ELSE <<>>
           http == of("http", {"path", "url"}, [method |-> at("http", "method"), path |-> at("http", "path"), url |-> at("http", "url")])
           gql  == of("graphql", {"op", "field"}, [op |-> at("graphql", "op"), graphql_kind |-> at("graphql", "kind"), field |-> at("graphql", "field")])
           ws   == of("ws", {"endpoint", "event"}, [endpoint |-> at("ws", "endpoint"), event |-> at("ws", "event"), channel |-> at("ws", "channel")])
           llm  == of("llm", {"tool", "channel"}, [tool |-> at("llm", "tool"), injection_channel |-> at("llm", "channel")])
           net  == of("net", {"port"}, [host |-> at("net", "host"), port |-> at("net", "port"), proto |-> at("net", "proto")])
<1>3. Implied(location) = http \o gql \o ws \o llm \o net
  BY Zenon DEF Implied
<1>4. IsList(http) /\ IsList(gql) /\ IsList(ws) /\ IsList(llm) /\ IsList(net)
  BY <1>2, Zenon
<1> HIDE DEF http, gql, ws, llm, net
<1>5. IsList(http \o gql)
  BY <1>4, EndToEnd
<1>6. IsList(http \o gql \o ws)
  BY <1>4, <1>5, EndToEnd
<1>7. IsList(http \o gql \o ws \o llm)
  BY <1>4, <1>6, EndToEnd
<1> QED
  BY <1>3, <1>4, <1>7, EndToEnd

LEMMA ImpliedAreList == ASSUME NEW findings, IsList(findings) PROVE IsList(EndpointsFromFindings(findings))
<1> DEFINE each == [i \in DOMAIN findings |-> Implied(findings[i].location)]
<1>1. IsList(each)
  <2>1. each = [i \in DOMAIN findings |-> each[i]]
    OBVIOUS
  <2> HIDE DEF each
  <2> QED
    BY <2>1, MappedIsList
<1>2. \A i \in DOMAIN each : IsList(each[i])
  BY ImpliedIsList
<1> HIDE DEF each
<1>3. IsList(FlattenSeq(each))
  BY <1>1, <1>2, FlatHolds
<1> QED
  BY <1>3, Zenon DEF EndpointsFromFindings, each

LEMMA FindingsAreList ==
  ASSUME NEW x, IsText(x), NEW opts, opts.variant \in Twins, opts.format = ""
  PROVE  IsList(NormalizeText(x, opts).findings)
<1> DEFINE format == FormatOf(x, opts.format)
           res == NormalizeText(x, opts)
<1>1. format \in TextFormats
  BY DEF FormatOf, DetectFormat, IsText, TextFormats, NativeFormats
<1>2. CASE res.value
  BY <1>2, TextReadsWell, Zenon DEF ReadWell, Clean
<1>3. CASE ~res.value
  <2> HIDE DEF format
  <2>1. ASSUME NEW env PROVE Validated(env).findings = <<>> \/ Validated(env).value = TRUE
    BY DEF Validated
  <2>2. res = ReadAs(x, format, opts)
    BY DEF NormalizeText, format
  <2>3. CASE format = "unknown"
    <3>1. ReadAs(x, format, opts).findings = <<>>
      BY <2>3 DEF ReadAs
    <3> QED
      BY <2>2, <3>1, NoItemsAreItems
  <2>4. CASE format # "unknown"
    <3>1. \E doc, notes, wrong : res = AsRead(ValidateFindings(doc, opts), format, notes, wrong)
      BY <2>2, <2>4, Zenon DEF ReadAs, Converted
    <3>2. PICK doc, notes, wrong : res = AsRead(ValidateFindings(doc, opts), format, notes, wrong)
      BY <3>1
    <3> DEFINE env == ParseEnvelope(doc, opts)
               file == Validated(env)
    <3>3. res = AsRead(file, format, notes, wrong)
      BY <3>2 DEF ValidateFindings
    <3>4. file.findings = <<>> \/ file.value = TRUE
      BY <2>1
    <3> HIDE DEF file, res
    <3>5. res.value = file.value /\ res.findings = file.findings
      BY <3>3 DEF AsRead
    <3> QED
      BY <1>3, <3>4, <3>5, NoItemsAreItems DEF res
  <2> QED
    BY <2>3, <2>4
<1> QED
  BY <1>2, <1>3

\* Texts with the same findings are read alike.
LEMMA SameText ==
  ASSUME NEW x, NEW y, AlikeTexts(x, y), x.mark = y.mark, x.items = y.items, x.results = y.results, NEW opts
  PROVE  NormalizeText(x, opts) = NormalizeText(y, opts)
<1>1. x.start = y.start /\ x.shape = y.shape /\ x.schema = y.schema /\ x.app = y.app /\ x.variant = y.variant
  BY DEF AlikeTexts
<1>2. FormatOf(x, opts.format) = FormatOf(y, opts.format)
  BY <1>1, Zenon DEF FormatOf, DetectFormat
<1>3. ASSUME NEW format PROVE ReadAs(x, format, opts) = ReadAs(y, format, opts)
  <2>1. ResultsOf(x, format) = ResultsOf(y, format) /\ Parses(x) = Parses(y)
    BY <1>1, Zenon DEF ResultsOf, Parses
  <2>2. DocOf(x, Parses(x)) = DocOf(y, Parses(y))
    BY <1>1, <2>1, Zenon DEF DocOf
  <2> QED
    BY <2>1, <2>2, Zenon DEF ReadAs
<1> QED
  BY <1>2, <1>3, Zenon DEF NormalizeText

\* What readEndpoints makes of texts that are alike.
SameRead(a, b) ==
  /\ a.died = b.died /\ a.source = b.source /\ IsList(a.endpoints) /\ IsList(b.endpoints)
  /\ SameRefs(ToSet(a.endpoints), ToSet(b.endpoints))

LEMMA AlikeRead ==
  ASSUME NEW x, NEW y, AlikeTexts(x, y), NEW app, NEW variant \in Twins
  PROVE  SameRead(ReadEndpoints(x, app, variant), ReadEndpoints(y, app, variant))
<1> DEFINE opts == [app |-> app, variant |-> variant]
           asked == [app |-> app, variant |-> variant, format |-> "", markers |-> {}]
           p == ParseEndpointsFile(x, opts)
           q == ParseEndpointsFile(y, opts)
           f == NormalizeText(x, asked)
           g == NormalizeText(y, asked)
<1>1. ReadEndpoints(x, app, variant) = Chosen(p, f) /\ ReadEndpoints(y, app, variant) = Chosen(q, g)
  BY Zenon DEF ReadEndpoints, ReadFindings
<1>2. asked.variant \in Twins /\ asked.format = ""
  OBVIOUS
<1> HIDE DEF opts, asked
<1>3. /\ p.errors = q.errors /\ IsList(p.endpoints) /\ IsList(q.endpoints)
      /\ SameRefs(ToSet(p.endpoints), ToSet(q.endpoints)) /\ (ListsSome(x) => p.endpoints # <<>>)
  BY AlikeFilesParse
<1>4. p.endpoints = <<>> <=> q.endpoints = <<>>
  BY <1>3, EmptyHolds DEF SameRefs
<1>5. ~ListsSome(x) => IsText(x) /\ f = g
  BY SameText DEF AlikeTexts
<1>6. ~ListsSome(x) => IsList(f.findings)
  BY <1>2, <1>5, FindingsAreList
<1> HIDE DEF p, q, f, g
<1>7. CASE p.endpoints # <<>> \/ p.errors = {}
  <2>1. /\ Chosen(p, f) = [endpoints |-> p.endpoints, source |-> "reported", died |-> FALSE]
        /\ Chosen(q, g) = [endpoints |-> q.endpoints, source |-> "reported", died |-> FALSE]
    BY <1>3, <1>4, <1>7 DEF Chosen
  <2> QED
    BY <1>1, <1>3, <2>1 DEF SameRead
<1>8. CASE p.endpoints = <<>> /\ p.errors # {}
  <2> DEFINE implied == EndpointsFromFindings(f.findings)
  <2>1. /\ Chosen(p, f) = [endpoints |-> implied, source |-> "findings", died |-> Dies(f)]
        /\ Chosen(q, g) = [endpoints |-> implied, source |-> "findings", died |-> Dies(f)]
    BY <1>3, <1>4, <1>5, <1>8 DEF Chosen
  <2>2. IsList(implied)
    BY <1>3, <1>6, <1>8, ImpliedAreList
  <2> HIDE DEF implied
  <2>3. SameRefs(ToSet(implied), ToSet(implied))
    BY SameRefIsEquality DEF SameRefs
  <2> QED
    BY <1>1, <2>1, <2>2, <2>3 DEF SameRead
<1> QED
  BY <1>7, <1>8

-----------------------------------------------------------------------------
(* The command: the same files in another order, other shapes. *)

\* Each file of one list has one like it in the other.
AlikeFiles(files, alike) ==
  /\ IsList(files) /\ IsList(alike)
  /\ \A i \in DOMAIN files : \E j \in DOMAIN alike : AlikeTexts(files[i], alike[j])
  /\ \A j \in DOMAIN alike : \E i \in DOMAIN files : AlikeTexts(files[i], alike[j])

\* The endpoints of all the files.
AllRead(reads) == FlattenSeq([i \in DOMAIN reads |-> reads[i].endpoints])

LEMMA AllReadHolds ==
  ASSUME NEW reads, IsList(reads), \A i \in DOMAIN reads : IsList(reads[i].endpoints)
  PROVE  /\ IsSequence(AllRead(reads))
         /\ \A r : r \in ToSet(AllRead(reads)) <=> \E i \in DOMAIN reads : r \in ToSet(reads[i].endpoints)
<1> DEFINE each == [i \in DOMAIN reads |-> reads[i].endpoints]
<1>1. IsList(each) /\ DOMAIN each = DOMAIN reads
  <2>1. each = [i \in DOMAIN reads |-> each[i]] /\ DOMAIN each = DOMAIN reads
    OBVIOUS
  <2> HIDE DEF each
  <2> QED
    BY <2>1, MappedIsList
<1>2. \A i \in DOMAIN reads : each[i] = reads[i].endpoints
  OBVIOUS
<1>3. AllRead(reads) = FlattenSeq(each)
  BY Zenon DEF AllRead
<1> HIDE DEF each
<1>4. IsList(AllRead(reads)) /\ \A r : Holds(AllRead(reads), r) <=> \E i \in DOMAIN each : Holds(each[i], r)
  BY <1>1, <1>2, <1>3, FlatHolds
<1>5. \A i \in DOMAIN reads : \A r : Holds(each[i], r) <=> r \in ToSet(reads[i].endpoints)
  BY <1>2, EmptyHolds
<1>6. IsSequence(AllRead(reads))
  BY <1>4 DEF IsList, IsSequence
<1>7. \A r : r \in ToSet(AllRead(reads)) <=> \E i \in DOMAIN reads : r \in ToSet(reads[i].endpoints)
  BY <1>1, <1>4, <1>5, EmptyHolds
<1> QED
  BY <1>6, <1>7

\* Two lists of files that read alike.
SameReads(s, t) ==
  /\ IsList(s) /\ IsList(t)
  /\ \A i \in DOMAIN s : \E j \in DOMAIN t : SameRead(s[i], t[j])
  /\ \A j \in DOMAIN t : \E i \in DOMAIN s : SameRead(s[i], t[j])

LEMMA AlikeReads ==
  ASSUME NEW files, NEW alike, AlikeFiles(files, alike), NEW app, NEW variant \in Twins
  PROVE  SameReads([i \in DOMAIN files |-> ReadEndpoints(files[i], app, variant)],
                   [i \in DOMAIN alike |-> ReadEndpoints(alike[i], app, variant)])
<1> DEFINE s == [i \in DOMAIN files |-> ReadEndpoints(files[i], app, variant)]
           t == [i \in DOMAIN alike |-> ReadEndpoints(alike[i], app, variant)]
<1>1. /\ s = [i \in DOMAIN files |-> s[i]] /\ DOMAIN s = DOMAIN files
      /\ t = [i \in DOMAIN alike |-> t[i]] /\ DOMAIN t = DOMAIN alike
  OBVIOUS
<1>2. /\ \A i \in DOMAIN files : s[i] = ReadEndpoints(files[i], app, variant)
      /\ \A j \in DOMAIN alike : t[j] = ReadEndpoints(alike[j], app, variant)
  OBVIOUS
<1> HIDE DEF s, t
<1>3. IsList(s) /\ IsList(t)
  BY <1>1, MappedIsList DEF AlikeFiles
<1>4. \A i \in DOMAIN files, j \in DOMAIN alike : AlikeTexts(files[i], alike[j]) => SameRead(s[i], t[j])
  BY <1>2, AlikeRead
<1>5. SameReads(s, t)
  BY <1>1, <1>3, <1>4 DEF AlikeFiles, SameReads
<1> QED
  BY <1>5 DEF s, t

LEMMA SameCovered ==
  ASSUME NEW s, NEW t, SameReads(s, t), NEW ops, NEW variant
  PROVE  /\ Covered(ops, s, variant, {}, {}).died = Covered(ops, t, variant, {}, {}).died
         /\ Covered(ops, s, variant, {}, {}).source = Covered(ops, t, variant, {}, {}).source
         /\ Unplaced(Covered(ops, s, variant, {}, {}).track) = Unplaced(Covered(ops, t, variant, {}, {}).track)
<1> DEFINE read(reads) == Track(ops, AllRead(reads), variant, {}, {})
           died(reads) == \E i \in DOMAIN reads : reads[i].died
           source(reads) == IF \E i \in DOMAIN reads : reads[i].source = "findings" THEN "findings" ELSE "reported"
<1>1. ASSUME NEW reads
      PROVE  /\ Covered(ops, reads, variant, {}, {}).died = died(reads)
             /\ Covered(ops, reads, variant, {}, {}).source = source(reads)
             /\ Covered(ops, reads, variant, {}, {}).track = read(reads)
  <2> DEFINE track == read(reads)
             d == died(reads)
             c == source(reads)
  <2>1. Covered(ops, reads, variant, {}, {}) = [died |-> d, source |-> c, track |-> track]
    BY Zenon DEF Covered, AllRead
  <2> HIDE DEF track, d, c
  <2>2. /\ Covered(ops, reads, variant, {}, {}).died = d /\ Covered(ops, reads, variant, {}, {}).source = c
        /\ Covered(ops, reads, variant, {}, {}).track = track
    BY <2>1
  <2> QED
    BY <2>2, Zenon DEF d, c, track
<1>2. died(s) = died(t) /\ source(s) = source(t)
  <2>1. died(s) <=> died(t)
    BY DEF SameReads, SameRead
  <2>2. (\E i \in DOMAIN s : s[i].source = "findings") <=> (\E i \in DOMAIN t : t[i].source = "findings")
    BY DEF SameReads, SameRead
  <2> QED
    BY <2>1, <2>2, Zenon
<1>3. SameRefs(ToSet(AllRead(s)), ToSet(AllRead(t))) /\ IsSequence(AllRead(s)) /\ IsSequence(AllRead(t))
  <2>1. (\A i \in DOMAIN s : IsList(s[i].endpoints)) /\ (\A j \in DOMAIN t : IsList(t[j].endpoints))
    BY DEF SameReads, SameRead
  <2>2. /\ IsSequence(AllRead(s)) /\ IsSequence(AllRead(t))
        /\ \A r : r \in ToSet(AllRead(s)) <=> \E i \in DOMAIN s : r \in ToSet(s[i].endpoints)
        /\ \A r : r \in ToSet(AllRead(t)) <=> \E i \in DOMAIN t : r \in ToSet(t[i].endpoints)
    BY <2>1, AllReadHolds DEF SameReads
  <2>3. ASSUME NEW r \in ToSet(AllRead(s)) PROVE \E x \in ToSet(AllRead(t)) : SameRef(r, x)
    <3>1. PICK i \in DOMAIN s : r \in ToSet(s[i].endpoints)
      BY <2>2
    <3>2. PICK j \in DOMAIN t : SameRefs(ToSet(s[i].endpoints), ToSet(t[j].endpoints))
      BY DEF SameReads, SameRead
    <3>3. PICK x \in ToSet(t[j].endpoints) : SameRef(r, x)
      BY <3>1, <3>2 DEF SameRefs
    <3> QED
      BY <2>2, <3>3
  <2>4. ASSUME NEW x \in ToSet(AllRead(t)) PROVE \E r \in ToSet(AllRead(s)) : SameRef(r, x)
    <3>1. PICK j \in DOMAIN t : x \in ToSet(t[j].endpoints)
      BY <2>2
    <3>2. PICK i \in DOMAIN s : SameRefs(ToSet(s[i].endpoints), ToSet(t[j].endpoints))
      BY DEF SameReads, SameRead
    <3>3. PICK r \in ToSet(s[i].endpoints) : SameRef(r, x)
      BY <3>1, <3>2 DEF SameRefs
    <3> QED
      BY <2>2, <3>3
  <2> QED
    BY <2>2, <2>3, <2>4 DEF SameRefs
<1>4. Unplaced(read(s)) = Unplaced(read(t))
  BY <1>3, TrackIsSaidBySet, SameRefsSaid
<1> HIDE DEF read, died, source
<1> QED
  BY <1>1, <1>2, <1>4

CoverageTold(q, files) == CmdCoverage(q.ops, files, "app", q.variant, {}, {})
CoverageAnswer ==
  /\ ask \in Questions
  /\ told.is = "coverage" =>
       /\ ask.about = "coverage"
       /\ told = [is |-> "coverage", covered |-> {CoverageTold(ask, files) : files \in {ask.files, ask.alike}}]

LEMMA CoverageAnswered == RulesSpec => []CoverageAnswer
<1>1. RulesInit => CoverageAnswer
  BY DEF RulesInit, CoverageAnswer, NotTold
<1>2. CoverageAnswer /\ [RulesNext]_rvars => CoverageAnswer'
  <2> SUFFICES ASSUME CoverageAnswer, [RulesNext]_rvars PROVE CoverageAnswer'
    OBVIOUS
  <2>1. CASE AnswerCoverage /\ UNCHANGED ask
    BY <2>1, Zenon DEF AnswerCoverage, CoverageAnswer, CoverageTold
  <2>2. ASSUME told'.is # "coverage", UNCHANGED ask PROVE CoverageAnswer'
    BY <2>2 DEF CoverageAnswer
  <2>3. CASE UNCHANGED rvars
    BY <2>3 DEF rvars, CoverageAnswer
  <2>4. AnswerPath \/ AnswerPair \/ AnswerTrack \/ AnswerStrip \/ AnswerImage \/ AnswerCatalog \/ AnswerReport
        => told'.is # "coverage"
    BY OwnKind
  <2> QED
    BY <2>1, <2>2, <2>3, <2>4 DEF RulesNext
<1> QED
  BY <1>1, <1>2, PTL DEF RulesSpec

\* For every catalog and every set of files a coverage command may be given: neither the
\* order of the files and of the endpoints in each, nor saying one twice, nor which of the
\* accepted shapes an endpoint is written in (a line of text; fields of its own, under
\* location, nested under its kind, or some here and some there) changes what the command
\* says, down to where the number came from and whether it dies (endpoints.ts:10 "all
\* equivalent", cmdCoverage); and neither does the order of a trace's reports.
THEOREM WritingDoesNotTell ==
  ASSUME \A q \in Questions :
           /\ q.about = "track" => \E T : q.reported \in Seq(T)
           /\ q.about = "coverage" => AlikeFiles(q.files, q.alike) /\ q.variant \in Twins
  PROVE  RulesSpec => []OrderFree
<1>1. CoverageAnswer /\ TrackOrderFree => OrderFree
  <2> SUFFICES ASSUME CoverageAnswer, TrackOrderFree, told.is = "coverage",
                      NEW x \in told.covered, NEW y \in told.covered
               PROVE  [x EXCEPT !.track.matched = {}] = [y EXCEPT !.track.matched = {}]
    BY DEF OrderFree
  <2> DEFINE a == CoverageTold(ask, ask.files)
             b == CoverageTold(ask, ask.alike)
             reads(files) == [i \in DOMAIN files |-> ReadEndpoints(files[i], "app", ask.variant)]
             covered(files) == Covered(ask.ops, reads(files), ask.variant, {}, {})
  <2>1. x \in {a, b} /\ y \in {a, b}
    <3> DEFINE answers == {CoverageTold(ask, files) : files \in {ask.files, ask.alike}}
    <3>1. told = [is |-> "coverage", covered |-> answers]
      BY Zenon DEF CoverageAnswer
    <3>2. answers = {a, b}
      BY Zenon
    <3> HIDE DEF answers, a, b
    <3>3. told.covered = answers
      BY <3>1
    <3> QED
      BY <3>2, <3>3
  <2>2. a = covered(ask.files) /\ b = covered(ask.alike)
    BY Zenon DEF CoverageTold, CmdCoverage
  <2>3. \A files : \E died, source, track : covered(files) = [died |-> died, source |-> source, track |-> track]
    BY Zenon DEF Covered
  <2>4. SameReads(reads(ask.files), reads(ask.alike))
    BY AlikeReads DEF CoverageAnswer
  <2>5. a.died = b.died /\ a.source = b.source /\ Unplaced(a.track) = Unplaced(b.track)
    <3> DEFINE s == reads(ask.files)
               t == reads(ask.alike)
    <3>1. SameReads(s, t) /\ a = Covered(ask.ops, s, ask.variant, {}, {}) /\ b = Covered(ask.ops, t, ask.variant, {}, {})
      BY <2>2, <2>4
    <3> HIDE DEF s, t, a, b
    <3> QED
      BY <3>1, SameCovered
  <2>6. \A z \in {a, b} : \E died, source, track : z = [died |-> died, source |-> source, track |-> track]
    BY <2>2, <2>3
  <2> HIDE DEF a, b
  <2>7. ASSUME NEW z \in {a, b}
        PROVE  [z EXCEPT !.track.matched = {}] = [died |-> z.died, source |-> z.source, track |-> Unplaced(z.track)]
    <3>1. PICK died, source, track : z = [died |-> died, source |-> source, track |-> track]
      BY <2>6
    <3>2. z.died = died /\ z.source = source /\ z.track = track
      BY <3>1
    <3> DEFINE placed == Unplaced(z.track)
    <3>3. [z EXCEPT !.track.matched = {}] = [z EXCEPT !.track = placed]
      BY DEF Unplaced
    <3> HIDE DEF placed
    <3>4. [z EXCEPT !.track = placed] = [died |-> died, source |-> source, track |-> placed]
      BY <3>1
    <3> QED
      BY <3>2, <3>3, <3>4 DEF placed
  <2> QED
    BY <2>1, <2>5, <2>7
<1>2. RulesSpec => []TrackOrderFree
  BY TrackForgetsOrder
<1> QED
  BY <1>1, <1>2, CoverageAnswered, PTL

-----------------------------------------------------------------------------
(* The image: what the check of its Dockerfile is worth. *)

BuiltTo(built, d, n) ==
  /\ built[0] = NothingBuilt
  /\ \A i \in 1..n : built[i] = Step(built[i - 1], d[i])

LEMMA BuildExists ==
  ASSUME NEW d, Len(d) \in Nat, NEW builds
  PROVE  \E built : BuiltTo(built, d, Len(d)) /\ Image(d, builds) \subseteq {f[2] : f \in built[Len(d)].files}
<1> DEFINE Kept(built, n) == built = [i \in 0..n |-> IF i = 0 THEN NothingBuilt ELSE Step(built[i - 1], d[i])]
           Never == {n \in Nat : ~\E built : Kept(built, n)}
<1>1. Never = {}
  <2> SUFFICES ASSUME Never # {} PROVE FALSE
    OBVIOUS
  <2>1. PICK m \in Never : \A n \in Never : m <= n
    <3> HIDE DEF Never
    <3>1. Never \subseteq Nat
      BY DEF Never
    <3> QED
      BY <3>1, Least
  <2>2. CASE m = 0
    <3>1. Kept([i \in 0..0 |-> NothingBuilt], 0)
      OBVIOUS
    <3> QED
      BY <2>2, <3>1
  <2>3. CASE m # 0
    <3>0. m \in Nat
      BY DEF Never
    <3>1. m - 1 \in Nat \ Never
      <4> HIDE DEF Never
      <4> QED
        BY <2>1, <2>3, <3>0
    <3>2. PICK built : Kept(built, m - 1)
      BY <3>1
    <3> DEFINE more == [i \in 0..m |-> IF i = m THEN Step(built[m - 1], d[m]) ELSE built[i]]
    <3>3. ASSUME NEW i \in 0..m
          PROVE  more[i] = IF i = 0 THEN NothingBuilt ELSE Step(more[i - 1], d[i])
      BY <2>1, <2>3, <3>2
    <3>4. Kept(more, m)
      <4> HIDE DEF more
      <4>1. more = [i \in 0..m |-> more[i]]
        BY DEF more
      <4> QED
        BY <3>3, <4>1
    <3> QED
      BY <3>4
  <2> QED
    BY <2>2, <2>3
<1> DEFINE built == CHOOSE built : Kept(built, Len(d))
<1>2. Kept(built, Len(d))
  BY <1>1
<1>3. Image(d, builds) = {} \/ Image(d, builds) = {f[2] : f \in built[Len(d)].files}
  BY Zenon DEF Image
<1>4. BuiltTo(built, d, Len(d))
  <2> HIDE DEF built
  <2> QED
    BY <1>2 DEF BuiltTo
<1> QED
  BY <1>3, <1>4

NoneRaw(files) == \A f \in files : f[2] # "raw"

\* What a build has come to: nothing that can be copied from is raw.
Building(st) ==
  /\ \E stages, name, files, tool, fails :
       st = [stages |-> stages, name |-> name, files |-> files, tool |-> tool, fails |-> fails]
  /\ \A n \in DOMAIN st.stages : NoneRaw(st.stages[n])

LEMMA StepsOn ==
  ASSUME NEW st, Building(st), NEW x
  PROVE  /\ x.op = "from" /\ NoneRaw(st.files) => Building(Step(st, x)) /\ Step(st, x).files = {}
         /\ x.op = "copy" => Building(Step(st, x)) /\ Step(st, x).files = st.files \cup Copied(st, x)
         /\ x.op = "strip" => /\ Building(Step(st, x))
                              /\ Step(st, x).files = {IF f[1] = "/src" THEN <<"/src", "stripped">> ELSE f : f \in st.files}
<1>1. PICK stages, name, files, tool, fails :
        st = [stages |-> stages, name |-> name, files |-> files, tool |-> tool, fails |-> fails]
  BY DEF Building
<1>2. st.stages = stages /\ st.name = name /\ st.files = files /\ st.tool = tool /\ st.fails = fails
  BY <1>1
<1>3. ASSUME x.op = "from", NoneRaw(st.files) PROVE Building(Step(st, x)) /\ Step(st, x).files = {}
  <2> DEFINE left == Left(st)
             as == x.as
  <2>1. Step(st, x) = [st EXCEPT !.stages = left, !.name = as, !.files = {}, !.tool = FALSE]
    BY <1>3 DEF Step
  <2>2. \A n \in DOMAIN left : NoneRaw(left[n])
    <3>1. left = [n \in DOMAIN stages \cup {name} |-> IF n = name THEN files ELSE stages[n]]
      BY <1>2 DEF Left
    <3> HIDE DEF left
    <3> QED
      BY <1>2, <1>3, <3>1 DEF Building
  <2> HIDE DEF left, as
  <2>3. Step(st, x) = [stages |-> left, name |-> as, files |-> {}, tool |-> FALSE, fails |-> fails]
    BY <1>1, <2>1
  <2> DEFINE new == Step(st, x)
  <2> HIDE DEF new
  <2>4. new = [stages |-> left, name |-> as, files |-> {}, tool |-> FALSE, fails |-> fails]
    BY <2>3 DEF new
  <2>5. new.stages = left /\ new.files = {}
    BY <2>4
  <2> QED
    BY <2>2, <2>4, <2>5 DEF Building, new
<1>4. ASSUME x.op = "copy" PROVE Building(Step(st, x)) /\ Step(st, x).files = st.files \cup Copied(st, x)
  <2> DEFINE all == files \cup Copied(st, x)
             has == tool \/ x.from = Ctx
             new == Step(st, x)
  <2>1. new = [st EXCEPT !.files = all, !.tool = has]
    BY <1>2, <1>4 DEF Step
  <2> HIDE DEF all, has, new
  <2>2. new = [stages |-> stages, name |-> name, files |-> all, tool |-> has, fails |-> fails]
    BY <1>1, <2>1
  <2>3. new.stages = stages /\ new.files = all
    BY <2>2
  <2> QED
    BY <1>2, <2>2, <2>3 DEF Building, new, all
<1>5. ASSUME x.op = "strip"
      PROVE  /\ Building(Step(st, x))
             /\ Step(st, x).files = {IF f[1] = "/src" THEN <<"/src", "stripped">> ELSE f : f \in st.files}
  <2> DEFINE all == {IF f[1] = "/src" THEN <<"/src", "stripped">> ELSE f : f \in files}
             bad == fails \/ ~tool
             new == Step(st, x)
  <2>1. new = [st EXCEPT !.files = all, !.fails = bad]
    BY <1>2, <1>5 DEF Step
  <2> HIDE DEF all, bad, new
  <2>2. new = [stages |-> stages, name |-> name, files |-> all, tool |-> tool, fails |-> bad]
    BY <1>1, <2>1
  <2>3. new.stages = stages /\ new.files = all
    BY <2>2
  <2> QED
    BY <1>2, <2>2, <2>3 DEF Building, new, all
<1> QED
  BY <1>3, <1>4, <1>5

LEMMA CopiedIs ==
  ASSUME NEW st, Building(st), NEW x
  PROVE  /\ \A f \in Copied(st, x) : f[1] = x.to
         /\ x.from # "" => NoneRaw(Copied(st, x))
<1> DEFINE source == IF x.from = "" THEN {<<x.path, "raw">>} ELSE IF x.from \in DOMAIN st.stages THEN st.stages[x.from] ELSE {}
           to == x.to
           taken == {y \in source : y[1] = x.path}
<1>1. Copied(st, x) = {<<to, f[2]>> : f \in taken}
  BY Zenon DEF Copied
<1>2. ASSUME x.from # "" PROVE NoneRaw(source)
  <2>1. CASE x.from \in DOMAIN st.stages
    BY <1>2, <2>1 DEF Building
  <2>2. CASE x.from \notin DOMAIN st.stages
    BY <1>2, <2>2 DEF NoneRaw
  <2> QED
    BY <2>1, <2>2
<1>3. x.from # "" => NoneRaw(taken)
  <2> HIDE DEF source
  <2> QED
    BY <1>2 DEF NoneRaw
<1> HIDE DEF source, taken, to
<1>4. \A f \in Copied(st, x) : f[1] = to /\ \E g \in taken : f[2] = g[2]
  BY <1>1
<1> QED
  BY <1>3, <1>4 DEF NoneRaw, to

LEMMA StrippedIs ==
  ASSUME NEW files, \A f \in files : f[2] = "raw" => f[1] = "/src"
  PROVE  NoneRaw({IF f[1] = "/src" THEN <<"/src", "stripped">> ELSE f : f \in files})
<1>1. ASSUME NEW f \in files PROVE (IF f[1] = "/src" THEN <<"/src", "stripped">> ELSE f)[2] # "raw"
  <2>1. <<"/src", "stripped">>[2] # "raw"
    OBVIOUS
  <2> QED
    BY <2>1
<1> QED
  BY <1>1 DEF NoneRaw

\* The stage the check looks at, from its FROM to the last of its instructions.
Looked(d, at, next) ==
  /\ at \in 1..Len(d) /\ d[at].op = "from" /\ next \in (at + 1)..(Len(d) + 1)
  /\ next \in 1..Len(d) => d[next].op = "from"
  /\ \A i \in (at + 1)..(next - 1) : d[i].op # "from"
  /\ \E i \in (at + 1)..(next - 1) : d[i].op = "strip"
  /\ \A i \in 1..Len(d) : d[i].op = "copy" /\ d[i].from = "" => i \in (at + 1)..(next - 1)

LEMMA CheckedIsLooked ==
  ASSUME NEW d, IsList(d), DockerfileIssues(d) = {}
  PROVE  \E at, next : Looked(d, at, next)
<1> DEFINE staged == {i \in Froms(d) : d[i].as = Stage}
           at == Min(staged \cup {Len(d) + 1})
           next == NextFrom(d, at)
           later == {i \in Froms(d) : i > at} \cup {Len(d) + 1}
<1>1. Len(d) \in Nat /\ DOMAIN d = 1..Len(d)
  BY DEF IsList
<1>2. Froms(d) # {} /\ at = Min(Froms(d))
  <2>1. ASSUME Froms(d) = {} \/ at # Min(Froms(d)) PROVE DockerfileIssues(d) = {"first stage"}
    BY <2>1, Zenon DEF DockerfileIssues
  <2> QED
    BY <2>1
<1>3. /\ Strips({d[i] : i \in (at + 1)..(next - 1)}) /\ RawCopies(d, at, next) = {}
  <2> DEFINE fetched == Strips({d[i] : i \in (at + 1)..(next - 1)})
             raw     == RawCopies(d, at, next)
  <2>1. DockerfileIssues(d) = {e \in {"strip", "raw"} : CASE e = "strip" -> ~fetched [] e = "raw" -> raw # {}}
    BY <1>2, Zenon DEF DockerfileIssues
  <2> HIDE DEF fetched, raw
  <2>2. fetched /\ raw = {}
    BY <2>1
  <2> QED
    BY <2>2 DEF fetched, raw
<1>4. at \in Froms(d)
  <2>1. Froms(d) \in SUBSET Nat
    BY <1>1 DEF Froms
  <2> HIDE DEF at
  <2> QED
    BY <1>2, <2>1, LeastIs
<1>5. at \in 1..Len(d) /\ d[at].op = "from"
  BY <1>1, <1>4 DEF Froms
<1> HIDE DEF at
<1>6. next \in later /\ \A n \in later : next <= n
  <2>1. later \in SUBSET Nat /\ later # {}
    BY <1>1 DEF Froms
  <2>2. next = Min(later)
    BY DEF NextFrom
  <2> HIDE DEF later, next
  <2> QED
    BY <2>1, <2>2, LeastIs
<1> HIDE DEF next
<1>7. /\ next \in (at + 1)..(Len(d) + 1) /\ (next \in 1..Len(d) => d[next].op = "from")
      /\ \A i \in (at + 1)..(next - 1) : d[i].op # "from"
  BY <1>1, <1>5, <1>6 DEF Froms
<1>8. \E i \in (at + 1)..(next - 1) : d[i].op = "strip"
  BY <1>3 DEF Strips
<1>9. \A i \in 1..Len(d) : d[i].op = "copy" /\ d[i].from = "" => i \in (at + 1)..(next - 1)
  BY <1>1, <1>3 DEF RawCopies
<1> QED
  BY <1>5, <1>7, <1>8, <1>9 DEF Looked

\* After i instructions: outside the stage nothing is raw; in it only what lies in /src, and
\* nothing once the stripper ran.
BuiltClean(st, d, at, next, i) ==
  /\ Building(st)
  /\ i \notin at..(next - 1) => NoneRaw(st.files)
  /\ \A f \in st.files : f[2] = "raw" => f[1] = "/src"
  /\ (\E j \in (at + 1)..i : d[j].op = "strip") => NoneRaw(st.files)

LEMMA BuildsClean ==
  ASSUME NEW d, IsList(d), NEW at, NEW next, Looked(d, at, next), StripsLast(d),
         \A i \in DOMAIN d : d[i].op \in {"from", "copy", "strip"},
         NEW st, NEW i \in 1..Len(d), BuiltClean(st, d, at, next, i - 1)
  PROVE  BuiltClean(Step(st, d[i]), d, at, next, i)
<1> DEFINE x == d[i]
           new == Step(st, x)
<1>0. Len(d) \in Nat /\ DOMAIN d = 1..Len(d)
  BY DEF IsList
<1>1. Len(d) \in Nat /\ DOMAIN d = 1..Len(d) /\ i \in Nat /\ at \in Nat /\ next \in Nat
  <2>1. at \in 1..Len(d) /\ next \in (at + 1)..(Len(d) + 1)
    BY DEF Looked
  <2> QED
    BY <1>0, <2>1
<1>2. Building(st) /\ \A f \in st.files : f[2] = "raw" => f[1] = "/src"
  BY DEF BuiltClean
<1>3. CASE x.op = "from"
  <2>1. NoneRaw(st.files)
    <3>1. CASE i - 1 \notin at..(next - 1)
      BY <3>1 DEF BuiltClean
    <3>2. CASE i - 1 \in at..(next - 1)
      <4>1. i = next
        <5>1. i \notin (at + 1)..(next - 1)
          BY <1>3 DEF Looked
        <5> QED
          BY <1>1, <3>2, <5>1
      <4> QED
        BY <1>1, <4>1 DEF Looked, BuiltClean
    <3> QED
      BY <3>1, <3>2
  <2>2. Building(new) /\ new.files = {}
    BY <1>2, <1>3, <2>1, StepsOn
  <2> HIDE DEF new
  <2>3. BuiltClean(new, d, at, next, i)
    BY <2>2 DEF BuiltClean, NoneRaw
  <2> QED
    BY <2>3 DEF new
<1>4. CASE x.op = "copy"
  <2>1. Building(new) /\ new.files = st.files \cup Copied(st, x)
    BY <1>2, <1>4, StepsOn
  <2>2. (\A f \in Copied(st, x) : f[1] = x.to) /\ (x.from # "" => NoneRaw(Copied(st, x)))
    BY <1>2, CopiedIs
  <2>3. i # at /\ i # next
    BY <1>1, <1>4 DEF Looked
  <2>4. i \notin at..(next - 1) => i - 1 \notin at..(next - 1)
    BY <1>1, <2>3
  <2>5. (\E j \in (at + 1)..i : d[j].op = "strip") => \E j \in (at + 1)..(i - 1) : d[j].op = "strip"
    BY <1>1, <1>4
  <2> HIDE DEF new
  <2>6. CASE x.from # ""
    BY <1>2, <2>1, <2>2, <2>4, <2>5, <2>6 DEF BuiltClean, NoneRaw, new
  <2>7. CASE x.from = ""
    <3>1. i \in (at + 1)..(next - 1) /\ x.to = "/src"
      BY <1>1, <1>4, <2>7 DEF Looked, StripsLast
    <3>2. ~\E j \in (at + 1)..(i - 1) : d[j].op = "strip"
      <4> SUFFICES ASSUME NEW j \in (at + 1)..(i - 1), d[j].op = "strip" PROVE FALSE
        OBVIOUS
      <4>1. j \in 1..(i - 1) /\ j \in Nat
        BY <1>1
      <4>2. PICK k \in j..i : d[k].op = "from"
        BY <1>1, <1>4, <2>7, <4>1 DEF StripsLast
      <4>3. k \in (at + 1)..(next - 1)
        BY <1>1, <3>1, <4>1
      <4> QED
        BY <4>2, <4>3 DEF Looked
    <3>3. i \in at..(next - 1)
      BY <1>1, <3>1
    <3> QED
      BY <1>2, <2>1, <2>2, <2>5, <3>1, <3>2, <3>3 DEF BuiltClean, NoneRaw, new
  <2> QED
    BY <2>6, <2>7
<1>5. CASE x.op = "strip"
  <2>1. /\ Building(new)
        /\ new.files = {IF f[1] = "/src" THEN <<"/src", "stripped">> ELSE f : f \in st.files}
    BY <1>2, <1>5, StepsOn
  <2>2. NoneRaw(new.files)
    BY <1>2, <2>1, StrippedIs
  <2> HIDE DEF new
  <2>3. BuiltClean(new, d, at, next, i)
    BY <2>1, <2>2 DEF BuiltClean, NoneRaw
  <2> QED
    BY <2>3 DEF new
<1> QED
  BY <1>1, <1>3, <1>4, <1>5

LEMMA CheckedImage ==
  ASSUME NEW d, IsList(d), \A i \in DOMAIN d : d[i].op \in {"from", "copy", "strip"},
         DockerfileIssues(d) = {}, StripsLast(d), NEW builds
  PROVE  "raw" \notin Image(d, builds)
<1>1. Len(d) \in Nat
  BY DEF IsList
<1>2. PICK at, next : Looked(d, at, next)
  BY CheckedIsLooked
<1>3. PICK built : BuiltTo(built, d, Len(d)) /\ Image(d, builds) \subseteq {f[2] : f \in built[Len(d)].files}
  BY <1>1, BuildExists
<1> DEFINE Wrong == {n \in 0..Len(d) : ~BuiltClean(built[n], d, at, next, n)}
<1>4. Wrong = {}
  <2>1. SUFFICES ASSUME Wrong # {} PROVE FALSE
    OBVIOUS
  <2>2. Wrong \subseteq Nat
    BY <1>1
  <2>3. PICK n \in Wrong : \A k \in Wrong : n <= k
    <3> HIDE DEF Wrong
    <3> QED
      BY <2>1, <2>2, Least
  <2>4. CASE n = 0
    <3> DEFINE none == [x \in {} |-> {}]
    <3>1. DOMAIN none = {}
      OBVIOUS
    <3> HIDE DEF none
    <3>2. NothingBuilt = [stages |-> none, name |-> "", files |-> {}, tool |-> FALSE, fails |-> FALSE]
      BY DEF NothingBuilt, none
    <3>3. NothingBuilt.stages = none /\ NothingBuilt.files = {}
      BY <3>2
    <3>4. BuiltClean(NothingBuilt, d, at, next, 0)
      BY <3>1, <3>2, <3>3 DEF BuiltClean, Building, NoneRaw
    <3> QED
      BY <1>3, <2>4, <3>4 DEF BuiltTo
  <2>5. CASE n # 0
    <3>1. n \in Nat /\ n \in 1..Len(d) /\ n - 1 \in 0..Len(d)
      BY <1>1, <2>2, <2>5
    <3>2. n - 1 \notin Wrong
      <4> HIDE DEF Wrong
      <4> QED
        BY <2>3, <3>1
    <3>3. BuiltClean(built[n - 1], d, at, next, n - 1) /\ built[n] = Step(built[n - 1], d[n])
      BY <1>3, <3>1, <3>2 DEF BuiltTo
    <3>4. BuiltClean(Step(built[n - 1], d[n]), d, at, next, n)
      BY <1>2, <3>1, <3>3, BuildsClean
    <3> QED
      BY <3>3, <3>4
  <2> QED
    BY <2>4, <2>5
<1>5. BuiltClean(built[Len(d)], d, at, next, Len(d))
  BY <1>1, <1>4
<1>6. NoneRaw(built[Len(d)].files)
  <2>1. CASE Len(d) \notin at..(next - 1)
    BY <1>5, <2>1 DEF BuiltClean
  <2>2. CASE Len(d) \in at..(next - 1)
    <3>1. /\ at \in 1..Len(d) /\ next \in (at + 1)..(Len(d) + 1)
          /\ \E j \in (at + 1)..(next - 1) : d[j].op = "strip"
      BY <1>2 DEF Looked
    <3>2. next - 1 = Len(d)
      BY <1>1, <2>2, <3>1
    <3>3. \E j \in (at + 1)..Len(d) : d[j].op = "strip"
      BY <3>1, <3>2
    <3> QED
      BY <1>5, <3>3 DEF BuiltClean
  <2> QED
    BY <2>1, <2>2
<1> QED
  BY <1>3, <1>6 DEF NoneRaw

ImageAnswer ==
  /\ ask \in Questions
  /\ told.is = "image" =>
       /\ ask.about = "image" /\ told.image = Image(ask.docker, ask.builds)
       /\ told.passes => DockerfileIssues(ask.docker) = {}

LEMMA ImageAnswered == RulesSpec => []ImageAnswer
<1>1. RulesInit => ImageAnswer
  BY DEF RulesInit, ImageAnswer, NotTold
<1>2. ImageAnswer /\ [RulesNext]_rvars => ImageAnswer'
  <2> SUFFICES ASSUME ImageAnswer, [RulesNext]_rvars PROVE ImageAnswer'
    OBVIOUS
  <2>1. CASE AnswerImage /\ UNCHANGED ask
    <3> DEFINE image == Image(ask.docker, ask.builds)
               issues == DockerfileIssues(ask.docker)
               passes == /\ DockerfileIssues(ask.docker) = {} /\ ComposeIssues(ask.builds) = {}
                         /\ AnnotationLeaks(ask.lines, ask.syntax) = {}
    <3>1. ask.about = "image" /\ told' = [is |-> "image", image |-> image, passes |-> passes]
      BY <2>1, Zenon DEF AnswerImage
    <3>2. passes => issues = {}
      OBVIOUS
    <3> HIDE DEF image, passes, issues
    <3>3. told'.image = image /\ told'.passes = passes
      BY <3>1
    <3>4. told'.passes => issues = {}
      BY <3>2, <3>3
    <3> QED
      BY <2>1, <3>1, <3>3, <3>4 DEF ImageAnswer, image, issues
  <2>2. ASSUME told'.is # "image", UNCHANGED ask PROVE ImageAnswer'
    BY <2>2 DEF ImageAnswer
  <2>3. CASE UNCHANGED rvars
    BY <2>3 DEF rvars, ImageAnswer
  <2>4. AnswerPath \/ AnswerPair \/ AnswerTrack \/ AnswerStrip \/ AnswerCatalog \/ AnswerCoverage \/ AnswerReport
        => told'.is # "image"
    BY OwnKind
  <2> QED
    BY <2>1, <2>2, <2>3, <2>4 DEF RulesNext
<1> QED
  BY <1>1, <1>2, PTL DEF RulesSpec

\* For every Dockerfile, of however many stages and instructions, in which the strip comes
\* last in its stage and the context is kept in one place: where dockerfileIssues
\* (annotations.ts) finds nothing, no file reaches the image as it was before the strip,
\* through whatever chain of stages it is copied.
THEOREM CheckedImageIsStripped ==
  ASSUME \A q \in Questions : q.about = "image" =>
           IsList(q.docker) /\ \A i \in DOMAIN q.docker : q.docker[i].op \in {"from", "copy", "strip"}
  PROVE  RulesSpec => []ImageStripped
<1>1. ImageAnswer => ImageStripped
  BY CheckedImage DEF ImageAnswer, ImageStripped
<1> QED
  BY <1>1, ImageAnswered, PTL

-----------------------------------------------------------------------------
(* What is kept of a list. *)

\* No element is in the list twice.
Once(s) == \A i, j \in DOMAIN s : s[i] = s[j] => i = j

LEMMA OnceEndToEnd ==
  ASSUME NEW s, IsList(s), Once(s), NEW t, IsList(t), Once(t), \A e : ~(Holds(s, e) /\ Holds(t, e))
  PROVE  IsList(s \o t) /\ Once(s \o t)
<1>1. PICK S : s \in Seq(S)
  BY DEF IsList
<1>2. PICK T : t \in Seq(T)
  BY DEF IsList
<1> DEFINE U == S \cup T
           m == Len(s)
           n == Len(t)
           st == s \o t
<1>3. s \in Seq(U) /\ t \in Seq(U)
  BY <1>1, <1>2
<1> HIDE DEF U
<1>4. /\ st \in Seq(U) /\ m \in Nat /\ n \in Nat /\ DOMAIN s = 1..m /\ DOMAIN t = 1..n /\ DOMAIN st = 1..(m + n)
      /\ \A i \in 1..(m + n) : st[i] = IF i <= m THEN s[i] ELSE t[i - m]
  BY <1>3
<1> HIDE DEF st, m, n
<1>5. ASSUME NEW i \in DOMAIN st, NEW j \in DOMAIN st, st[i] = st[j], i <= m PROVE i = j
  <2>1. i \in DOMAIN s /\ st[i] = s[i]
    BY <1>4, <1>5
  <2>2. CASE j <= m
    <3>1. j \in DOMAIN s /\ st[j] = s[j]
      BY <1>4, <2>2
    <3> QED
      BY <1>5, <2>1, <3>1 DEF Once
  <2>3. CASE ~(j <= m)
    <3>1. j - m \in DOMAIN t /\ st[j] = t[j - m]
      BY <1>4, <2>3
    <3> QED
      BY <1>5, <2>1, <3>1 DEF Holds
  <2> QED
    BY <2>2, <2>3
<1>6. ASSUME NEW i \in DOMAIN st, NEW j \in DOMAIN st, st[i] = st[j], ~(i <= m), ~(j <= m) PROVE i = j
  <2>1. /\ i - m \in DOMAIN t /\ st[i] = t[i - m] /\ j - m \in DOMAIN t /\ st[j] = t[j - m]
        /\ i \in Int /\ j \in Int
    BY <1>4, <1>6
  <2>2. i - m = j - m
    BY <1>6, <2>1 DEF Once
  <2> QED
    BY <1>4, <2>1, <2>2
<1>7. Once(st)
  BY <1>5, <1>6 DEF Once
<1> QED
  BY <1>4, <1>7 DEF IsList, st

LEMMA OneIsOnce == ASSUME NEW x PROVE IsList(<<x>>) /\ Once(<<x>>) /\ \A e : Holds(<<x>>, e) <=> e = x
<1>1. <<x>> \in Seq({x}) /\ DOMAIN <<x>> = {1} /\ <<x>>[1] = x
  OBVIOUS
<1>2. IsList(<<x>>)
  BY <1>1 DEF IsList
<1> DEFINE s == <<x>>
<1> HIDE DEF s
<1>3. Once(s) /\ \A e : Holds(s, e) <=> e = x
  BY <1>1 DEF Once, Holds, s
<1> QED
  BY <1>2, <1>3 DEF s

LEMMA NoneIsOnce == IsList(<<>>) /\ Once(<<>>) /\ \A e : ~Holds(<<>>, e)
<1>1. <<>> \in Seq({})
  OBVIOUS
<1> QED
  BY <1>1 DEF IsList, Once, Holds

\* What is taken, each as often as it was there.
LEMMA AmongTakes ==
  ASSUME NEW results, IsList(results), NEW taken
  PROVE  /\ IsList(Among(results, taken))
         /\ \A e : Holds(Among(results, taken), e) <=> Holds(results, e) /\ e \in taken
         /\ Once(results) => Once(Among(results, taken))
<1> DEFINE parts == [i \in DOMAIN results |-> IF results[i] \in taken THEN <<results[i]>> ELSE <<>>]
           all == Among(results, taken)
<1>1. DOMAIN results = 1..Len(results) /\ Len(results) \in Nat
  BY DEF IsList
<1>2. ASSUME NEW i \in DOMAIN results
      PROVE  IsList(parts[i]) /\ Once(parts[i]) /\ \A e : Holds(parts[i], e) <=> e = results[i] /\ e \in taken
  <2>1. parts[i] = IF results[i] \in taken THEN <<results[i]>> ELSE <<>>
    OBVIOUS
  <2> HIDE DEF parts
  <2>2. CASE results[i] \in taken
    BY <2>1, <2>2, OneIsOnce
  <2>3. CASE results[i] \notin taken
    BY <2>1, <2>3, NoneIsOnce
  <2> QED
    BY <2>2, <2>3
<1>3. DOMAIN parts = DOMAIN results /\ IsList(parts) /\ Len(parts) = Len(results)
  <2>1. parts = [i \in DOMAIN results |-> parts[i]]
    OBVIOUS
  <2> HIDE DEF parts
  <2> QED
    BY <2>1, MappedIsList
<1>4. all = FlattenSeq(parts)
  BY DEF Among
<1> HIDE DEF parts, all
<1>5. IsList(all) /\ \A e : Holds(all, e) <=> \E i \in DOMAIN parts : Holds(parts[i], e)
  BY <1>2, <1>3, <1>4, FlatHolds
<1>6. \A e : Holds(all, e) <=> Holds(results, e) /\ e \in taken
  BY <1>2, <1>3, <1>5 DEF Holds
<1>7. ASSUME Once(results) PROVE Once(all)
  <2>1. CASE Len(results) = 0
    <3>1. parts = <<>> /\ all = parts
      BY <1>3, <1>4, <2>1 DEF FlattenSeq, IsList
    <3> QED
      BY <3>1, NoneIsOnce
  <2>2. CASE Len(results) # 0
    <3>1. PICK flat : LaidTo(flat, parts) /\ all = flat[Len(parts)]
      BY <1>1, <1>3, <1>4, <2>2, FlatExists
    <3> DEFINE Good(i) == /\ IsList(flat[i]) /\ Once(flat[i])
                          /\ \A e : Holds(flat[i], e) => \E j \in 1..i : e = results[j]
               Wrong == {i \in 1..Len(results) : ~Good(i)}
    <3>2. Wrong = {}
      <4>1. SUFFICES ASSUME Wrong # {} PROVE FALSE
        OBVIOUS
      <4>2. Wrong \subseteq Nat
        BY <1>1
      <4>3. PICK n \in Wrong : \A k \in Wrong : n <= k
        <5> HIDE DEF Wrong
        <5> QED
          BY <4>1, <4>2, Least
      <4>4. n \in 1..Len(results) /\ n \in Nat /\ n \in DOMAIN results
        BY <1>1
      <4>5. CASE n = 1
        <5>1. flat[1] = parts[1]
          BY <3>1 DEF LaidTo
        <5>2. \A e : Holds(flat[1], e) => \E j \in 1..1 : e = results[j]
          <6>1. 1 \in DOMAIN results /\ 1 \in 1..1
            BY <4>4, <4>5
          <6>2. \A e : Holds(flat[1], e) => e = results[1]
            BY <1>2, <5>1, <6>1
          <6> QED
            BY <6>1, <6>2
        <5>3. Good(1)
          BY <1>2, <4>4, <4>5, <5>1, <5>2
        <5> QED
          BY <4>5, <5>3
      <4>6. CASE n # 1
        <5>1. n - 1 \in 1..Len(results) /\ n \in 2..Len(parts)
          BY <1>1, <1>3, <4>4, <4>6
        <5>2. n - 1 \notin Wrong
          <6> HIDE DEF Wrong
          <6> QED
            BY <4>3, <4>4
        <5>3. Good(n - 1)
          BY <5>1, <5>2
        <5>4. flat[n] = flat[n - 1] \o parts[n]
          BY <3>1, <5>1 DEF LaidTo
        <5> DEFINE a == flat[n - 1]
                   b == parts[n]
        <5>5. IsList(a) /\ Once(a) /\ IsList(b) /\ Once(b) /\ flat[n] = a \o b
          BY <1>2, <4>4, <5>3, <5>4
        <5>6. \A e : ~(Holds(a, e) /\ Holds(b, e))
          <6>1. SUFFICES ASSUME NEW e, Holds(a, e), Holds(b, e) PROVE FALSE
            OBVIOUS
          <6>2. e = results[n]
            BY <1>2, <4>4, <6>1
          <6>3. PICK j \in 1..(n - 1) : e = results[j]
            BY <5>3, <6>1
          <6>4. j \in DOMAIN results /\ j # n
            BY <1>1, <4>4, <6>3
          <6> QED
            BY <1>7, <4>4, <6>2, <6>3, <6>4 DEF Once
        <5>7. \A e : Holds(b, e) => e = results[n]
          BY <1>2, <4>4
        <5>8. \A e : Holds(a, e) => \E j \in 1..(n - 1) : e = results[j]
          BY <5>3
        <5> HIDE DEF a, b
        <5>9. IsList(a \o b) /\ Once(a \o b)
          BY <5>5, <5>6, OnceEndToEnd
        <5>10. \A e : Holds(a \o b, e) <=> Holds(a, e) \/ Holds(b, e)
          BY <5>5, EndToEnd
        <5>11. 1..n = 1..(n - 1) \cup {n}
          BY <4>4, <4>6
        <5>12. \A e : Holds(a \o b, e) => \E j \in 1..n : e = results[j]
          BY <5>7, <5>8, <5>10, <5>11
        <5>13. Good(n)
          BY <5>5, <5>9, <5>12
        <5> QED
          BY <5>13
      <4> QED
        BY <4>5, <4>6
    <3>3. Good(Len(results))
      <4>1. Len(results) \in 1..Len(results) \ Wrong
        <5> HIDE DEF Wrong
        <5> QED
          BY <1>1, <2>2, <3>2
      <4> QED
        BY <4>1
    <3> QED
      BY <1>3, <3>1, <3>3
  <2> QED
    BY <2>1, <2>2
<1> QED
  BY <1>5, <1>6, <1>7 DEF all

-----------------------------------------------------------------------------
(* Catalogs: operations of known kinds, no two of one key. *)

OpFields == {"kind", "method", "path", "endpoint", "query", "port", "op", "gqlKind", "field", "event", "channel",
             "namespace", "tool", "injection", "host", "proto", "id", "via", "vulns", "variant", "discovery"}

IsOp(o)   == OpFields \subseteq DOMAIN o /\ o.kind \in Kinds
AreOps(s) == IsList(s) /\ \A e : Holds(s, e) => IsOp(e)
OneOfEach(s) == \A i, j \in DOMAIN s : OpKey(s[i]) = OpKey(s[j]) => i = j

IsCatalog(s) == AreOps(s) /\ OneOfEach(s)

\* What CatalogKeeps asks of an operation, and of a catalog.
Carries(o, p) == OpKey(p) = OpKey(o) /\ o.vulns \subseteq p.vulns /\ o.discovery \in {"", p.discovery}
Keeps(s, t)   == \A o : Holds(s, o) => \E p : Holds(t, p) /\ Carries(o, p)

LEMMA ApartIsOnce ==
  ASSUME NEW s
  PROVE  OneOfEach(s) <=> Once(s) /\ \A e, f : Holds(s, e) /\ Holds(s, f) /\ OpKey(e) = OpKey(f) => e = f
<1>1. ASSUME OneOfEach(s), NEW i \in DOMAIN s, NEW j \in DOMAIN s, s[i] = s[j] PROVE i = j
  BY <1>1 DEF OneOfEach
<1>2. ASSUME OneOfEach(s), NEW e, NEW f, Holds(s, e), Holds(s, f), OpKey(e) = OpKey(f) PROVE e = f
  BY <1>2 DEF OneOfEach, Holds
<1>3. ASSUME Once(s), \A e, f : Holds(s, e) /\ Holds(s, f) /\ OpKey(e) = OpKey(f) => e = f,
             NEW i \in DOMAIN s, NEW j \in DOMAIN s, OpKey(s[i]) = OpKey(s[j])
      PROVE  i = j
  BY <1>3 DEF Once, Holds
<1> QED
  BY <1>1, <1>2, <1>3 DEF OneOfEach, Once

LEMMA KeepsOn ==
  ASSUME NEW s, NEW t, NEW u, Keeps(s, t), Keeps(t, u)
  PROVE  Keeps(s, u)
<1>1. ASSUME NEW o, NEW p, NEW q, Carries(o, p), Carries(p, q) PROVE Carries(o, q)
  BY <1>1 DEF Carries
<1> QED
  BY <1>1 DEF Keeps

\* A key is made of what stands in the other fields.
LEMMA Retouched ==
  ASSUME NEW o, IsOp(o), NEW x
  PROVE  /\ IsOp([o EXCEPT !.vulns = x]) /\ OpKey([o EXCEPT !.vulns = x]) = OpKey(o)
         /\ [o EXCEPT !.vulns = x].vulns = x /\ [o EXCEPT !.vulns = x].discovery = o.discovery
         /\ IsOp([o EXCEPT !.discovery = x]) /\ OpKey([o EXCEPT !.discovery = x]) = OpKey(o)
         /\ [o EXCEPT !.discovery = x].vulns = o.vulns /\ [o EXCEPT !.discovery = x].discovery = x
         /\ IsOp([o EXCEPT !.id = x]) /\ OpKey([o EXCEPT !.id = x]) = OpKey(o)
         /\ [o EXCEPT !.id = x].vulns = o.vulns /\ [o EXCEPT !.id = x].discovery = o.discovery
<1>1. ASSUME NEW r, NEW f \in {"vulns", "discovery", "id"}, DOMAIN r = DOMAIN o,
             \A g \in DOMAIN o \ {f} : r[g] = o[g]
      PROVE  IsOp(r) /\ OpKey(r) = OpKey(o)
  <2>1. /\ r.kind = o.kind /\ r.method = o.method /\ r.path = o.path /\ r.endpoint = o.endpoint /\ r.query = o.query
        /\ r.port = o.port /\ r.op = o.op /\ r.gqlKind = o.gqlKind /\ r.field = o.field /\ r.event = o.event
        /\ r.channel = o.channel /\ r.namespace = o.namespace /\ r.tool = o.tool /\ r.injection = o.injection
        /\ r.host = o.host /\ r.proto = o.proto
    BY <1>1 DEF IsOp, OpFields
  <2>2. RefKind(r) = RefKind(o)
    BY <2>1 DEF RefKind
  <2>3. OpKey(r) = OpKey(o)
    BY <2>1, <2>2, Zenon DEF OpKey
  <2>4. IsOp(r)
    BY <1>1, <2>1 DEF IsOp
  <2> QED
    BY <2>3, <2>4
<1>2. "vulns" \in DOMAIN o /\ "discovery" \in DOMAIN o /\ "id" \in DOMAIN o
  BY DEF IsOp, OpFields
<1> DEFINE v == [o EXCEPT !.vulns = x]
           d == [o EXCEPT !.discovery = x]
           i == [o EXCEPT !.id = x]
<1>3. /\ DOMAIN v = DOMAIN o /\ (\A g \in DOMAIN o \ {"vulns"} : v[g] = o[g]) /\ v.vulns = x /\ v.discovery = o.discovery
  BY <1>2
<1>4. /\ DOMAIN d = DOMAIN o /\ (\A g \in DOMAIN o \ {"discovery"} : d[g] = o[g]) /\ d.vulns = o.vulns /\ d.discovery = x
  BY <1>2
<1>5. /\ DOMAIN i = DOMAIN o /\ (\A g \in DOMAIN o \ {"id"} : i[g] = o[g]) /\ i.vulns = o.vulns /\ i.discovery = o.discovery
  BY <1>2
<1> HIDE DEF v, d, i
<1>6. IsOp(v) /\ OpKey(v) = OpKey(o) /\ IsOp(d) /\ OpKey(d) = OpKey(o) /\ IsOp(i) /\ OpKey(i) = OpKey(o)
  BY <1>1, <1>3, <1>4, <1>5
<1> QED
  BY <1>3, <1>4, <1>5, <1>6 DEF v, d, i

LEMMA MappedIsOp ==
  ASSUME NEW o, IsOp(o), NEW x
  PROVE  LET r == [o EXCEPT !.vulns = x] IN
         IsOp(r) /\ OpKey(r) = OpKey(o) /\ r.vulns = x /\ r.discovery = o.discovery
BY Retouched, Zenon

\* Operation by operation.
LEMMA RewrittenKeeps ==
  ASSUME NEW s, IsCatalog(s), NEW t, t = [i \in DOMAIN s |-> t[i]],
         \A i \in DOMAIN s : IsOp(t[i]) /\ Carries(s[i], t[i])
  PROVE  IsCatalog(t) /\ Keeps(s, t)
<1>1. IsList(t) /\ DOMAIN t = DOMAIN s
  BY MappedIsList DEF IsCatalog, AreOps
<1>2. AreOps(t)
  BY <1>1 DEF AreOps, Holds
<1>3. OneOfEach(t)
  BY <1>1 DEF IsCatalog, OneOfEach, Carries
<1>4. Keeps(s, t)
  BY <1>1 DEF Keeps, Holds
<1> QED
  BY <1>2, <1>3, <1>4 DEF IsCatalog

LEMMA AmongIsCatalog ==
  ASSUME NEW s, AreOps(s), NEW taken
  PROVE  AreOps(Among(s, taken)) /\ (OneOfEach(s) => OneOfEach(Among(s, taken)))
<1> DEFINE a == Among(s, taken)
<1>1. IsList(a) /\ (\A e : Holds(a, e) <=> Holds(s, e) /\ e \in taken) /\ (Once(s) => Once(a))
  BY AmongTakes DEF AreOps
<1> HIDE DEF a
<1>2. AreOps(a)
  BY <1>1 DEF AreOps
<1>3. OneOfEach(s) => OneOfEach(a)
  BY <1>1, ApartIsOnce
<1> QED
  BY <1>2, <1>3 DEF a

LEMMA FirstsAreCatalog ==
  ASSUME NEW s, AreOps(s)
  PROVE  IsCatalog(Firsts(s)) /\ DOMAIN Firsts(s) = 1..Len(Firsts(s))
<1> DEFINE idx == [i \in DOMAIN s |-> i]
           new == {i \in DOMAIN s : \A j \in 1..(i - 1) : OpKey(s[j]) # OpKey(s[i])}
           at == Among(idx, new)
           f == Firsts(s)
<1>0. DOMAIN s = 1..Len(s) /\ Len(s) \in Nat
  BY DEF AreOps, IsList
<1>1. IsList(idx) /\ Once(idx) /\ \A e : Holds(idx, e) <=> e \in DOMAIN s
  <2>1. IsList(idx)
    <3>1. idx = [i \in DOMAIN s |-> idx[i]]
      OBVIOUS
    <3> HIDE DEF idx
    <3> QED
      BY <3>1, MappedIsList DEF AreOps
  <2> QED
    BY <2>1 DEF Once, Holds
<1>2. IsList(at) /\ Once(at) /\ \A e : Holds(at, e) <=> e \in new
  <2>1. IsList(at) /\ Once(at) /\ \A e : Holds(at, e) <=> Holds(idx, e) /\ e \in new
    <3> HIDE DEF idx, new
    <3> QED
      BY <1>1, AmongTakes
  <2> HIDE DEF at, idx
  <2> QED
    BY <1>1, <2>1
<1>3. f = [n \in DOMAIN at |-> s[at[n]]]
  BY DEF Firsts
<1> HIDE DEF at, f, idx, new
<1>4. IsList(f) /\ DOMAIN f = DOMAIN at /\ \A n \in DOMAIN f : f[n] = s[at[n]]
  <2>1. f = [n \in DOMAIN at |-> f[n]]
    BY <1>3
  <2> QED
    BY <1>2, <1>3, <2>1, MappedIsList
<1>5. \A n \in DOMAIN f : at[n] \in new /\ at[n] \in DOMAIN s
  BY <1>2, <1>4 DEF Holds, new
<1>6. AreOps(f)
  BY <1>4, <1>5 DEF AreOps, Holds
<1>7. \A i, j \in new : OpKey(s[i]) = OpKey(s[j]) => i = j
  <2>1. SUFFICES ASSUME NEW i \in new, NEW j \in new, OpKey(s[i]) = OpKey(s[j]), i # j PROVE FALSE
    OBVIOUS
  <2>2. i \in Nat /\ j \in Nat /\ (j \in 1..(i - 1) \/ i \in 1..(j - 1))
    BY <1>0, <2>1 DEF new
  <2> QED
    BY <2>1, <2>2 DEF new
<1>8. OneOfEach(f)
  BY <1>2, <1>4, <1>5, <1>7 DEF OneOfEach, Once
<1> QED
  BY <1>4, <1>6, <1>8 DEF IsCatalog, IsList, f

LEMMA IndexIs ==
  ASSUME NEW s, IsList(s), NEW k
  PROVE  \/ IndexOfKey(s, k) = 0 /\ \A i \in DOMAIN s : OpKey(s[i]) # k
         \/ IndexOfKey(s, k) \in DOMAIN s /\ IndexOfKey(s, k) # 0 /\ OpKey(s[IndexOfKey(s, k)]) = k
<1> DEFINE I == {i \in 1..Len(s) : OpKey(s[i]) = k}
<1>1. IndexOfKey(s, k) = IF I # {} THEN Min(I) ELSE 0
  BY DEF IndexOfKey, SelectInSeq
<1>2. DOMAIN s = 1..Len(s) /\ Len(s) \in Nat /\ I \in SUBSET Nat
  BY DEF IsList
<1>3. I # {} => Min(I) \in I
  BY <1>2, LeastIs
<1> QED
  BY <1>1, <1>2, <1>3

\* An existing entry wins outright, and what is no longer derived stays.
LEMMA MergeKeeps ==
  ASSUME NEW derived, IsCatalog(derived), NEW existing, IsCatalog(existing)
  PROVE  IsCatalog(MergeExisting(derived, existing)) /\ Keeps(existing, MergeExisting(derived, existing))
<1> DEFINE won(i) == LET at == IndexOfKey(existing, OpKey(derived[i])) IN IF at = 0 THEN derived[i] ELSE existing[at]
           a == [i \in DOMAIN derived |-> won(i)]
           others == {o \in ToSet(existing) : IndexOfKey(derived, OpKey(o)) = 0}
           b == Among(existing, others)
<1>1. MergeExisting(derived, existing) = a \o b
  BY DEF MergeExisting
<1>2. ASSUME NEW i \in DOMAIN derived
      PROVE  /\ OpKey(won(i)) = OpKey(derived[i]) /\ IsOp(won(i))
             /\ \A o : Holds(existing, o) /\ OpKey(o) = OpKey(derived[i]) => won(i) = o
  <2> DEFINE at == IndexOfKey(existing, OpKey(derived[i]))
  <2>1. \/ at = 0 /\ \A j \in DOMAIN existing : OpKey(existing[j]) # OpKey(derived[i])
        \/ at \in DOMAIN existing /\ at # 0 /\ OpKey(existing[at]) = OpKey(derived[i])
    BY IndexIs DEF IsCatalog, AreOps
  <2>2. won(i) = IF at = 0 THEN derived[i] ELSE existing[at]
    OBVIOUS
  <2>3. IsOp(derived[i])
    BY <1>2 DEF IsCatalog, AreOps, Holds
  <2> HIDE DEF at, won
  <2>4. CASE at = 0
    BY <2>1, <2>2, <2>3, <2>4 DEF Holds
  <2>5. CASE at # 0
    <3>1. at \in DOMAIN existing /\ OpKey(existing[at]) = OpKey(derived[i]) /\ won(i) = existing[at]
      BY <2>1, <2>2, <2>5
    <3>2. IsOp(existing[at])
      BY <3>1 DEF IsCatalog, AreOps, Holds
    <3> QED
      BY <3>1, <3>2 DEF Holds, IsCatalog, OneOfEach
  <2> QED
    BY <2>4, <2>5
<1>3. \A i \in DOMAIN derived : a[i] = won(i)
  OBVIOUS
<1>4. IsList(a) /\ DOMAIN a = DOMAIN derived
  <2>1. a = [i \in DOMAIN derived |-> a[i]]
    BY <1>3
  <2> HIDE DEF a, won
  <2> QED
    BY <2>1, MappedIsList DEF IsCatalog, AreOps
<1> HIDE DEF a, won
<1>5. AreOps(a) /\ OneOfEach(a)
  BY <1>2, <1>3, <1>4 DEF IsCatalog, AreOps, OneOfEach, Holds
<1>6. IsList(b) /\ (\A e : Holds(b, e) <=> Holds(existing, e) /\ e \in others) /\ AreOps(b) /\ OneOfEach(b)
  <2> HIDE DEF others
  <2> QED
    BY AmongTakes, AmongIsCatalog DEF IsCatalog, AreOps
<1>7. \A e : Holds(existing, e) => (e \in others <=> \A i \in DOMAIN derived : OpKey(derived[i]) # OpKey(e))
  <2>1. SUFFICES ASSUME NEW e, Holds(existing, e)
                 PROVE  e \in others <=> \A i \in DOMAIN derived : OpKey(derived[i]) # OpKey(e)
    OBVIOUS
  <2>2. e \in ToSet(existing)
    BY <2>1 DEF Holds, ToSet
  <2>3. e \in others <=> IndexOfKey(derived, OpKey(e)) = 0
    BY <2>2
  <2>4. \/ IndexOfKey(derived, OpKey(e)) = 0 /\ \A i \in DOMAIN derived : OpKey(derived[i]) # OpKey(e)
        \/ IndexOfKey(derived, OpKey(e)) \in DOMAIN derived /\ IndexOfKey(derived, OpKey(e)) # 0
           /\ OpKey(derived[IndexOfKey(derived, OpKey(e))]) = OpKey(e)
    BY IndexIs DEF IsCatalog, AreOps
  <2> HIDE DEF others
  <2> QED
    BY <2>3, <2>4
<1> HIDE DEF b, others
<1>8. \A e, f : Holds(a, e) /\ Holds(b, f) => OpKey(e) # OpKey(f)
  <2>1. SUFFICES ASSUME NEW e, NEW f, Holds(a, e), Holds(b, f) PROVE OpKey(e) # OpKey(f)
    OBVIOUS
  <2>2. PICK i \in DOMAIN derived : a[i] = e
    BY <1>4, <2>1 DEF Holds
  <2>3. OpKey(e) = OpKey(derived[i])
    BY <1>2, <1>3, <2>2
  <2>4. OpKey(derived[i]) # OpKey(f)
    BY <1>6, <1>7, <2>1
  <2> QED
    BY <2>3, <2>4
<1>9. /\ IsList(a \o b) /\ Once(a \o b) /\ \A e : Holds(a \o b, e) <=> Holds(a, e) \/ Holds(b, e)
  <2>1. Once(a) /\ Once(b)
    BY <1>5, <1>6, ApartIsOnce
  <2> QED
    BY <1>4, <1>6, <1>8, <2>1, OnceEndToEnd, EndToEnd
<1> DEFINE m == a \o b
<1> HIDE DEF m
<1>10. IsList(m) /\ Once(m) /\ \A e : Holds(m, e) <=> Holds(a, e) \/ Holds(b, e)
  BY <1>9 DEF m
<1>11. AreOps(m)
  BY <1>5, <1>6, <1>10 DEF AreOps
<1>12. OneOfEach(m)
  <2>1. (\A e, f : Holds(a, e) /\ Holds(a, f) /\ OpKey(e) = OpKey(f) => e = f)
        /\ \A e, f : Holds(b, e) /\ Holds(b, f) /\ OpKey(e) = OpKey(f) => e = f
    BY <1>5, <1>6, ApartIsOnce
  <2>2. \A e, f : Holds(m, e) /\ Holds(m, f) /\ OpKey(e) = OpKey(f) => e = f
    BY <1>8, <1>10, <2>1
  <2> QED
    BY <1>10, <2>2, ApartIsOnce
<1>13. Keeps(existing, m)
  <2>1. SUFFICES ASSUME NEW o, Holds(existing, o) PROVE Holds(m, o) /\ Carries(o, o)
    BY DEF Keeps
  <2>2. Carries(o, o)
    BY DEF Carries
  <2>3. CASE o \in others
    BY <1>6, <1>10, <2>1, <2>2, <2>3
  <2>4. CASE o \notin others
    <3>1. PICK i \in DOMAIN derived : OpKey(derived[i]) = OpKey(o)
      BY <1>7, <2>1, <2>4
    <3>2. a[i] = o
      BY <1>2, <1>3, <2>1, <3>1
    <3>3. Holds(a, o)
      BY <1>4, <3>1, <3>2 DEF Holds
    <3> QED
      BY <1>10, <2>2, <3>3
  <2> QED
    BY <2>3, <2>4
<1> QED
  BY <1>1, <1>11, <1>12, <1>13 DEF IsCatalog, m

-----------------------------------------------------------------------------
(* What is drafted from the key and the source. *)

LEMMA NewOpFields == DOMAIN NewOp = OpFields
BY DEF NewOp, NoFields, OpFields

LEMMA NewOpsAreOps ==
  ASSUME NEW k, NEW v, NEW hit
  PROVE  IsOp(HttpOp(k, v)) /\ IsOp(NetOp(k, v)) /\ IsOp(GqlOp(k, v)) /\ IsOp(WsOp(k, v)) /\ IsOp(LlmOp(k, v))
         /\ IsOp(Benign(hit)) /\ IsOp(AltOp(k, v))
<1>0. /\ "kind" \in DOMAIN NewOp
      /\ "http" \in Kinds /\ "net" \in Kinds /\ "graphql" \in Kinds /\ "ws" \in Kinds /\ "llm" \in Kinds
  BY NewOpFields DEF OpFields, Kinds
<1>1. ASSUME NEW kk PROVE DOMAIN HttpOp(kk, v) = DOMAIN NewOp /\ HttpOp(kk, v).kind = "http"
  BY <1>0 DEF HttpOp
<1>2. DOMAIN NetOp(k, v) = DOMAIN NewOp /\ NetOp(k, v).kind = "net"
  BY <1>0 DEF NetOp
<1>3. DOMAIN GqlOp(k, v) = DOMAIN NewOp /\ GqlOp(k, v).kind = "graphql"
  BY <1>0 DEF GqlOp
<1>4. DOMAIN WsOp(k, v) = DOMAIN NewOp /\ WsOp(k, v).kind = "ws"
  BY <1>0 DEF WsOp
<1>5. DOMAIN LlmOp(k, v) = DOMAIN NewOp /\ LlmOp(k, v).kind = "llm"
  BY <1>0 DEF LlmOp
<1>6. DOMAIN Benign(hit) = DOMAIN NewOp /\ Benign(hit).kind = "http"
  BY <1>0 DEF Benign
<1> QED
  BY <1>0, <1>1, <1>2, <1>3, <1>4, <1>5, <1>6, NewOpFields DEF IsOp, AltOp

\* The ops of an entry are read off lists.
Routable(v) == IsList(v.route.words) /\ IsList(v.match.alts)

LEMMA StepsAreList == ASSUME NEW r, IsList(r.words) PROVE IsList(RouteSteps(r))
<1> DEFINE steps == [i \in DOMAIN r.words |-> [r.words[i] EXCEPT
                       !.m = IF i > 1 /\ r.words[i - 1].t = "verb" THEN r.words[i - 1].m ELSE NoVerb]]
<1>1. RouteSteps(r) = Among(steps, {w \in ToSet(steps) : w.t = "path"})
  BY DEF RouteSteps
<1>2. IsList(steps)
  <2>1. steps = [i \in DOMAIN r.words |-> steps[i]]
    OBVIOUS
  <2> HIDE DEF steps
  <2> QED
    BY <2>1, MappedIsList
<1> HIDE DEF steps
<1> QED
  BY <1>1, <1>2, AmongTakes

LEMMA LaterStepsAreList == ASSUME NEW v, IsList(v.route.words), NEW k PROVE IsList(LaterSteps(v, k))
<1> DEFINE steps == RouteSteps(v.route)
           n == Max({0, Len(steps) - 1})
<1>1. LaterSteps(v, k) = [i \in 1..n |-> [method |-> NoVerb, path |-> HttpKeyFromUrl(steps[i + 1].u, NoVerb).path]]
  BY DEF LaterSteps
<1>2. n \in Nat
  <2>1. Len(steps) \in Nat
    BY StepsAreList, LengthIsNat
  <2> HIDE DEF steps
  <2>2. \E m \in {0, Len(steps) - 1} : \A x \in {0, Len(steps) - 1} : x <= m
    BY <2>1
  <2>3. n \in {0, Len(steps) - 1} /\ \A x \in {0, Len(steps) - 1} : x <= n
    BY <2>2 DEF Max
  <2> QED
    BY <2>1, <2>3
<1> DEFINE l == LaterSteps(v, k)
<1> HIDE DEF n, steps
<1>3. l = [i \in 1..n |-> l[i]] /\ l \in Seq({l[i] : i \in 1..n})
  BY <1>1, <1>2
<1> QED
  BY <1>3 DEF IsList

LEMMA ManyAreOps ==
  ASSUME NEW s, IsList(s), NEW f, f = [i \in DOMAIN s |-> f[i]], \A i \in DOMAIN s : IsOp(f[i])
  PROVE  AreOps(f)
BY MappedIsList DEF AreOps, Holds

LEMMA JoinedAreOps ==
  ASSUME NEW s, AreOps(s), NEW t, AreOps(t)
  PROVE  AreOps(s \o t)
BY EndToEnd, Zenon DEF AreOps

LEMMA SingleOpIsOps ==
  ASSUME NEW o, IsOp(o)
  PROVE  AreOps(<<o>>) /\ AreOps(<<>>)
BY OneIsOnce, NoneIsOnce, Zenon DEF AreOps

LEMMA HttpOpsAreOps == ASSUME NEW v, Routable(v), NEW k PROVE AreOps(HttpOps(v, k))
<1> DEFINE steps == LaterSteps(v, k)
           alts == IF v.match = NoAnchors THEN Among(steps, {s \in ToSet(steps) : s.path # k.path}) ELSE v.match.alts
           ops == [i \in DOMAIN alts |-> AltOp(alts[i], v)]
<1>1. HttpOps(v, k) = IF IsHarnessPath(k.path) THEN <<>> ELSE <<HttpOp(k, v)>> \o ops
  BY DEF HttpOps
<1>2. IsList(alts)
  <2>1. IsList(steps)
    BY LaterStepsAreList DEF Routable
  <2> HIDE DEF steps
  <2>2. IsList(Among(steps, {s \in ToSet(steps) : s.path # k.path}))
    BY <2>1, AmongTakes
  <2> QED
    BY <2>2 DEF Routable
<1> HIDE DEF alts
<1>3. AreOps(ops)
  <2>1. ops = [i \in DOMAIN alts |-> ops[i]] /\ \A i \in DOMAIN alts : IsOp(ops[i])
    BY NewOpsAreOps
  <2> HIDE DEF ops
  <2> QED
    BY <1>2, <2>1, ManyAreOps
<1> HIDE DEF ops
<1>4. AreOps(<<HttpOp(k, v)>>) /\ AreOps(<<>>)
  BY NewOpsAreOps, SingleOpIsOps
<1> QED
  BY <1>1, <1>3, <1>4, JoinedAreOps

LEMMA EntryOpsAreOps == ASSUME NEW v, Routable(v) PROVE AreOps(OpsOf(v))
<1> DEFINE Plain(s) == s = <<>> \/ (\E o : IsOp(o) /\ s = <<o>>) \/ \E k : s = HttpOps(v, k)
<1>1. Plain(OpsOf(v))
  <2>1. ASSUME NEW s, NEW f, NEW e PROVE IsOp(NetOp(s, v)) /\ IsOp(GqlOp(s, v)) /\ IsOp(WsOp(s, v)) /\ IsOp(LlmOp(s, v))
    BY NewOpsAreOps
  <2> HIDE DEF Routable
  <2> QED
    BY <2>1, Zenon DEF OpsOf
<1>2. ASSUME NEW s, Plain(s) PROVE AreOps(s)
  <2>1. AreOps(<<>>)
    BY NoneIsOnce DEF AreOps
  <2> QED
    BY <1>2, <2>1, SingleOpIsOps, HttpOpsAreOps
<1> QED
  BY <1>1, <1>2

LEMMA FlatAreOps ==
  ASSUME NEW s, IsList(s), \A i \in DOMAIN s : AreOps(s[i])
  PROVE  AreOps(FlattenSeq(s))
BY FlatHolds, Zenon DEF AreOps

LEMMA SeedsAreCatalog ==
  ASSUME NEW bugs, IsList(bugs), \A i \in DOMAIN bugs : Routable(bugs[i])
  PROVE  IsCatalog(SeedsFromGroundTruth(bugs))
<1> DEFINE parts == [i \in DOMAIN bugs |-> OpsOf(bugs[i])]
           all == FlattenSeq(parts)
           first == Firsts(all)
           on(o) == {x \in ToSet(all) : OpKey(x) = OpKey(o)}
           s == [n \in DOMAIN first |-> [first[n] EXCEPT !.vulns = UNION {x.vulns : x \in on(first[n])}]]
<1>1. SeedsFromGroundTruth(bugs) = s
  BY DEF SeedsFromGroundTruth
<1>2. IsList(parts) /\ \A i \in DOMAIN parts : AreOps(parts[i])
  <2>1. parts = [i \in DOMAIN bugs |-> parts[i]] /\ \A i \in DOMAIN bugs : AreOps(parts[i])
    BY EntryOpsAreOps
  <2> HIDE DEF parts
  <2> QED
    BY <2>1, MappedIsList
<1> HIDE DEF parts
<1>3. AreOps(all)
  BY <1>2, FlatAreOps
<1> HIDE DEF all
<1>4. IsCatalog(first)
  BY <1>3, FirstsAreCatalog
<1> HIDE DEF first
<1>5. ASSUME NEW n \in DOMAIN first PROVE IsOp(s[n]) /\ OpKey(s[n]) = OpKey(first[n])
  <2>1. IsOp(first[n])
    BY <1>4 DEF IsCatalog, AreOps, Holds
  <2> DEFINE both == UNION {x.vulns : x \in on(first[n])}
  <2>2. s[n] = [first[n] EXCEPT !.vulns = both]
    OBVIOUS
  <2>3. \A x : IsOp([first[n] EXCEPT !.vulns = x]) /\ OpKey([first[n] EXCEPT !.vulns = x]) = OpKey(first[n])
    BY <2>1, Retouched
  <2> HIDE DEF s, both
  <2> QED
    BY <2>2, <2>3
<1>6. s = [n \in DOMAIN first |-> s[n]]
  OBVIOUS
<1> HIDE DEF s
<1>7. AreOps(s) /\ DOMAIN s = DOMAIN first
  BY <1>4, <1>5, <1>6, ManyAreOps DEF IsCatalog, AreOps
<1>8. OneOfEach(s)
  BY <1>4, <1>5, <1>7 DEF IsCatalog, OneOfEach
<1> QED
  BY <1>1, <1>7, <1>8 DEF IsCatalog

\* A source tree that can be read: its files and what each declares are lists.
Readable(app) ==
  /\ IsList(app.files) /\ \A i \in DOMAIN app.files : IsList(app.files[i].routes) /\ IsList(app.files[i].verbs)
  /\ AreOps(app.extra)

LEMMA RoutesAreList ==
  ASSUME NEW app, NEW f, IsList(f.routes), IsList(f.verbs)
  PROVE  IsList(FileRoutes(app, f))
<1>1. ASSUME NEW n \in Nat, NEW g, g = [i \in 1..n |-> g[i]] PROVE IsList(g)
  <2>1. g \in Seq({g[i] : i \in 1..n})
    BY <1>1
  <2> QED
    BY <2>1 DEF IsList
<1>2. ASSUME NEW x PROVE IsList(<<x>>) /\ IsList(<<>>)
  BY OneIsOnce, NoneIsOnce
<1>3. IsList(NextRoutes(f))
  <2> DEFINE n == Max({1, Len(f.verbs)})
             base == SubSeq(f.path, 3, Len(f.path) - 1)
             path == IF base = <<>> THEN <<Empty>> ELSE base
             g == [i \in 1..n |-> Hit(IF f.verbs = <<>> THEN "GET" ELSE f.verbs[i], path)]
  <2>1. n \in Nat
    <3>1. Len(f.verbs) \in Nat
      BY LengthIsNat
    <3>2. \E m \in {1, Len(f.verbs)} : \A x \in {1, Len(f.verbs)} : x <= m
      BY <3>1
    <3>3. n \in {1, Len(f.verbs)}
      BY <3>2 DEF Max
    <3> QED
      BY <3>1, <3>3
  <2>2. IsList(g)
    <3>1. g = [i \in 1..n |-> g[i]]
      OBVIOUS
    <3> HIDE DEF g, n
    <3> QED
      BY <1>1, <2>1, <3>1
  <2>3. NextRoutes(f) = g \/ NextRoutes(f) = <<Hit("GET", path)>> \/ NextRoutes(f) = <<>>
    BY DEF NextRoutes
  <2> HIDE DEF g, path
  <2> QED
    BY <1>2, <2>2, <2>3
<1>4. IsList(SpringRoutes(f))
  <2> DEFINE s == SpringRoutes(f)
  <2>1. s = [i \in DOMAIN f.routes |-> s[i]]
    BY DEF SpringRoutes
  <2> HIDE DEF s
  <2>2. IsList(s)
    BY <2>1, MappedIsList
  <2> QED
    BY <2>2 DEF s
<1>5. IsList(PatternRoutes(f))
  <2> DEFINE s == PatternRoutes(f)
  <2>1. s = [i \in DOMAIN f.routes |-> s[i]]
    BY DEF PatternRoutes
  <2> HIDE DEF s
  <2>2. IsList(s)
    BY <2>1, MappedIsList
  <2> QED
    BY <2>2 DEF s
<1>6. \/ FileRoutes(app, f) \in {NextRoutes(f), SpringRoutes(f), PatternRoutes(f), <<>>}
      \/ FileRoutes(app, f) = <<Hit("GET", f.path)>>
  BY Zenon DEF FileRoutes
<1> QED
  BY <1>2, <1>3, <1>4, <1>5, <1>6

LEMMA DraftedIsCatalog ==
  ASSUME NEW bugs, IsList(bugs), \A i \in DOMAIN bugs : Routable(bugs[i]), NEW app, Readable(app)
  PROVE  IsCatalog(Drafted(bugs, app))
<1> DEFINE seeds == SeedsFromGroundTruth(bugs)
           hits == ScanSource(app)
           served == Among(hits, {h \in ToSet(hits) : ~IsExcluded(h.path)})
           benign == [i \in DOMAIN served |-> Benign(served[i])]
           all == WithSource(seeds, app)
<1>1. IsList(hits)
  <2> DEFINE parts == [i \in DOMAIN app.files |-> FileRoutes(app, app.files[i])]
  <2>1. parts = [i \in DOMAIN app.files |-> parts[i]] /\ \A i \in DOMAIN app.files : IsList(parts[i])
    BY RoutesAreList DEF Readable
  <2>2. hits = FlattenSeq(parts)
    BY DEF ScanSource
  <2> HIDE DEF parts, hits
  <2>3. IsList(parts) /\ DOMAIN parts = DOMAIN app.files
    BY <2>1, MappedIsList DEF Readable
  <2> QED
    BY <2>1, <2>2, <2>3, FlatHolds
<1>2. AreOps(benign)
  <2>1. benign = [i \in DOMAIN served |-> benign[i]] /\ \A i \in DOMAIN served : IsOp(benign[i])
    BY NewOpsAreOps
  <2>2. IsList(served)
    <3> HIDE DEF hits
    <3> QED
      BY <1>1, AmongTakes
  <2> HIDE DEF benign, served
  <2> QED
    BY <2>1, <2>2, ManyAreOps
<1>3. all = Firsts(seeds \o app.extra \o benign)
  BY DEF WithSource
<1>4. AreOps(seeds)
  BY SeedsAreCatalog DEF IsCatalog
<1> HIDE DEF seeds, benign, all
<1>5. IsCatalog(all)
  <2>1. AreOps(seeds \o app.extra)
    BY <1>4, JoinedAreOps DEF Readable
  <2>2. AreOps(seeds \o app.extra \o benign)
    BY <1>2, <2>1, JoinedAreOps
  <2> QED
    BY <1>3, <2>2, FirstsAreCatalog
<1> DEFINE concretes == ToSet(all)
           loose(o) == SelectSeq(all, LAMBDA l : LooseOp(l) /\ l.path = o.path)
           tier(o) == FoldLeft(LAMBDA t, l : Or(t, l.discovery), o.discovery, loose(o))
           bugsOf(o) == o.vulns \cup UNION {l.vulns : l \in ToSet(loose(o))}
           fold(o) == [o EXCEPT !.vulns = @ \cup UNION {l.vulns : l \in ToSet(loose(o))}, !.discovery = tier(o)]
           folded == [i \in DOMAIN all |-> IF Concrete(all[i]) /\ all[i].query = {} THEN fold(all[i]) ELSE all[i]]
           rest == {o \in ToSet(folded) : ~(LooseOp(o) /\ \E c \in concretes : Concrete(c) /\ c.path = o.path)}
<1>6. CollapseMethodless(all) = Among(folded, rest)
  BY DEF CollapseMethodless
<1>7. ASSUME NEW o, IsOp(o) PROVE IsOp(fold(o)) /\ OpKey(fold(o)) = OpKey(o)
  <2>1. fold(o) = [[o EXCEPT !.vulns = bugsOf(o)] EXCEPT !.discovery = tier(o)]
    BY Zenon
  <2> HIDE DEF fold, bugsOf, tier
  <2> DEFINE once == [o EXCEPT !.vulns = bugsOf(o)]
  <2>2. \A x : IsOp([o EXCEPT !.vulns = x]) /\ OpKey([o EXCEPT !.vulns = x]) = OpKey(o)
    BY <1>7, Retouched
  <2>3. IsOp(once) /\ OpKey(once) = OpKey(o)
    BY <2>2
  <2> HIDE DEF once
  <2>4. \A x : IsOp([once EXCEPT !.discovery = x]) /\ OpKey([once EXCEPT !.discovery = x]) = OpKey(once)
    BY <2>3, Retouched
  <2> QED
    BY <2>1, <2>3, <2>4 DEF once
<1> HIDE DEF fold
<1>8. folded = [i \in DOMAIN all |-> folded[i]]
      /\ \A i \in DOMAIN all : IsOp(folded[i]) /\ OpKey(folded[i]) = OpKey(all[i])
  <2>1. ASSUME NEW i \in DOMAIN all PROVE IsOp(all[i])
    BY <1>5 DEF IsCatalog, AreOps, Holds
  <2> QED
    BY <1>7, <2>1
<1> HIDE DEF folded, rest
<1>9. AreOps(folded) /\ DOMAIN folded = DOMAIN all
  BY <1>5, <1>8, ManyAreOps DEF IsCatalog, AreOps
<1>10. OneOfEach(folded)
  BY <1>5, <1>8, <1>9 DEF IsCatalog, OneOfEach
<1>11. Drafted(bugs, app) = CollapseMethodless(all)
  BY DEF Drafted, all, seeds
<1> QED
  BY <1>6, <1>9, <1>10, <1>11, AmongIsCatalog DEF IsCatalog

-----------------------------------------------------------------------------
(* What --write leaves of the catalog that was there. *)

LEMMA ReviewKeeps ==
  ASSUME NEW s, IsCatalog(s), NEW review
  PROVE  IsCatalog(ApplyReview(s, review)) /\ Keeps(s, ApplyReview(s, review))
<1> DEFINE t == ApplyReview(s, review)
           hits(o) == SelectSeq(review, LAMBDA r : TemplatePath(r.path) = TemplatePath(o.path) /\ r.method \in {"any", o.method})
<1>1. t = [i \in DOMAIN s |-> IF s[i].discovery # "" \/ s[i].kind # "http" \/ hits(s[i]) = <<>> THEN s[i]
                              ELSE [s[i] EXCEPT !.discovery = hits(s[i])[1].tier]]
  BY DEF ApplyReview
<1> HIDE DEF t, hits
<1>2. ASSUME NEW i \in DOMAIN s PROVE IsOp(t[i]) /\ Carries(s[i], t[i])
  <2>1. IsOp(s[i])
    BY DEF IsCatalog, AreOps, Holds
  <2>2. t[i] = s[i] \/ (s[i].discovery = "" /\ \E x : t[i] = [s[i] EXCEPT !.discovery = x])
    BY <1>1
  <2>3. CASE t[i] = s[i]
    BY <2>1, <2>3 DEF Carries
  <2>4. ASSUME s[i].discovery = "", NEW x, t[i] = [s[i] EXCEPT !.discovery = x] PROVE IsOp(t[i]) /\ Carries(s[i], t[i])
    <3>1. IsOp([s[i] EXCEPT !.discovery = x]) /\ OpKey([s[i] EXCEPT !.discovery = x]) = OpKey(s[i])
          /\ [s[i] EXCEPT !.discovery = x].vulns = s[i].vulns
      BY <2>1, Retouched
    <3> QED
      BY <2>4, <3>1 DEF Carries
  <2> QED
    BY <2>2, <2>3, <2>4
<1>3. t = [i \in DOMAIN s |-> t[i]]
  BY <1>1
<1>4. IsCatalog(t) /\ Keeps(s, t)
  BY <1>2, <1>3, RewrittenKeeps
<1> QED
  BY <1>4 DEF t

LEMMA TieringKeeps ==
  ASSUME NEW s, IsCatalog(s)
  PROVE  IsCatalog(TierBenign(s)) /\ Keeps(s, TierBenign(s))
<1> DEFINE t == TierBenign(s)
           tiered == {o \in ToSet(s) : o.discovery # ""}
<1>1. t = [i \in DOMAIN s |-> [s[i] EXCEPT !.discovery = Tier(s[i], tiered)]]
  BY DEF TierBenign
<1> HIDE DEF t, tiered
<1>2. ASSUME NEW i \in DOMAIN s PROVE IsOp(t[i]) /\ Carries(s[i], t[i])
  <2>1. IsOp(s[i])
    BY DEF IsCatalog, AreOps, Holds
  <2> DEFINE x == Tier(s[i], tiered)
  <2>2. t[i] = [s[i] EXCEPT !.discovery = x]
    BY <1>1
  <2>3. s[i].discovery # "" => x = s[i].discovery
    BY DEF Tier
  <2> HIDE DEF x
  <2>4. /\ IsOp([s[i] EXCEPT !.discovery = x]) /\ OpKey([s[i] EXCEPT !.discovery = x]) = OpKey(s[i])
        /\ [s[i] EXCEPT !.discovery = x].vulns = s[i].vulns /\ [s[i] EXCEPT !.discovery = x].discovery = x
    BY <2>1, Retouched
  <2> QED
    BY <2>2, <2>3, <2>4 DEF Carries
<1>3. t = [i \in DOMAIN s |-> t[i]]
  BY <1>1
<1>4. IsCatalog(t) /\ Keeps(s, t)
  BY <1>2, <1>3, RewrittenKeeps
<1> QED
  BY <1>4 DEF t

LEMMA RemappingKeeps ==
  ASSUME NEW s, IsCatalog(s), NEW remap
  PROVE  IsCatalog(RemapVulns(s, remap)) /\ Keeps(s, RemapVulns(s, remap))
<1> DEFINE t == RemapVulns(s, remap)
           on(r) == SelectInSeq(s, LAMBDA o : o.kind = "http" /\ o.path = r.path)
           put(i) == {r.id : r \in {x \in ToSet(remap) : on(x) = i}}
<1>1. t = [i \in DOMAIN s |-> [s[i] EXCEPT !.vulns = @ \cup put(i)]]
  BY DEF RemapVulns
<1> HIDE DEF t, put
<1>2. ASSUME NEW i \in DOMAIN s PROVE IsOp(t[i]) /\ Carries(s[i], t[i])
  <2>1. IsOp(s[i])
    BY DEF IsCatalog, AreOps, Holds
  <2> DEFINE x == s[i].vulns \cup put(i)
  <2>2. t[i] = [s[i] EXCEPT !.vulns = x]
    BY <1>1
  <2>3. s[i].vulns \subseteq x
    OBVIOUS
  <2> HIDE DEF x
  <2>4. /\ IsOp([s[i] EXCEPT !.vulns = x]) /\ OpKey([s[i] EXCEPT !.vulns = x]) = OpKey(s[i])
        /\ [s[i] EXCEPT !.vulns = x].vulns = x /\ [s[i] EXCEPT !.vulns = x].discovery = s[i].discovery
    BY <2>1, Retouched
  <2> QED
    BY <2>2, <2>3, <2>4 DEF Carries
<1>3. t = [i \in DOMAIN s |-> t[i]]
  BY <1>1
<1>4. IsCatalog(t) /\ Keeps(s, t)
  BY <1>2, <1>3, RewrittenKeeps
<1> QED
  BY <1>4 DEF t

LEMMA NamingKeeps ==
  ASSUME NEW s, IsCatalog(s)
  PROVE  IsCatalog(StableIds(s)) /\ Keeps(s, StableIds(s))
<1> DEFINE t == StableIds(s)
           nth(i) == Cardinality({j \in 1..i : s[j].id = s[i].id})
<1>1. t = [i \in DOMAIN s |-> IF nth(i) = 1 THEN s[i] ELSE [s[i] EXCEPT !.id = Append(s[i].id, nth(i))]]
  BY DEF StableIds
<1> HIDE DEF t, nth
<1>2. ASSUME NEW i \in DOMAIN s PROVE IsOp(t[i]) /\ Carries(s[i], t[i])
  <2>1. IsOp(s[i])
    BY DEF IsCatalog, AreOps, Holds
  <2>2. t[i] = s[i] \/ \E x : t[i] = [s[i] EXCEPT !.id = x]
    BY <1>1
  <2>3. CASE t[i] = s[i]
    BY <2>1, <2>3 DEF Carries
  <2>4. ASSUME NEW x, t[i] = [s[i] EXCEPT !.id = x] PROVE IsOp(t[i]) /\ Carries(s[i], t[i])
    <3>1. /\ IsOp([s[i] EXCEPT !.id = x]) /\ OpKey([s[i] EXCEPT !.id = x]) = OpKey(s[i])
          /\ [s[i] EXCEPT !.id = x].vulns = s[i].vulns /\ [s[i] EXCEPT !.id = x].discovery = s[i].discovery
      BY <2>1, Retouched
    <3> QED
      BY <2>4, <3>1 DEF Carries
  <2> QED
    BY <2>2, <2>3, <2>4
<1>3. t = [i \in DOMAIN s |-> t[i]]
  BY <1>1
<1>4. IsCatalog(t) /\ Keeps(s, t)
  BY <1>2, <1>3, RewrittenKeeps
<1> QED
  BY <1>4 DEF t

LEMMA ParsingKeeps ==
  ASSUME NEW s, IsCatalog(s)
  PROVE  IsCatalog(ParsedOps(s)) /\ Keeps(s, ParsedOps(s))
<1> DEFINE known == {o \in ToSet(s) : o.kind \in Kinds}
           p == Among(s, known)
<1>1. ParsedOps(s) = p
  BY DEF ParsedOps
<1>2. \A e : Holds(s, e) => e \in known
  BY DEF IsCatalog, AreOps, IsOp, Holds, ToSet
<1> HIDE DEF known
<1>3. IsCatalog(p) /\ \A e : Holds(p, e) <=> Holds(s, e) /\ e \in known
  BY AmongIsCatalog, AmongTakes DEF IsCatalog, AreOps
<1> HIDE DEF p
<1>4. Keeps(s, p)
  BY <1>2, <1>3 DEF Keeps, Carries
<1> QED
  BY <1>1, <1>3, <1>4

LEMMA WritingKeeps ==
  ASSUME NEW bugs, IsList(bugs), \A i \in DOMAIN bugs : Routable(bugs[i]), NEW app, Readable(app),
         NEW s, IsCatalog(s)
  PROVE  IsCatalog(DeriveSurface(bugs, app, s)) /\ Keeps(s, DeriveSurface(bugs, app, s))
<1> DEFINE a == ParsedOps(s)
           b == MergeExisting(Drafted(bugs, app), a)
           c == ApplyReview(b, app.review)
           d == TierBenign(c)
           e == RemapVulns(d, app.remap)
           f == StableIds(e)
<1>1. IsCatalog(a) /\ Keeps(s, a)
  BY ParsingKeeps
<1>2. IsCatalog(b) /\ Keeps(a, b)
  BY <1>1, DraftedIsCatalog, MergeKeeps
<1> HIDE DEF a, b
<1>3. IsCatalog(c) /\ Keeps(b, c)
  BY <1>2, ReviewKeeps
<1> HIDE DEF c
<1>4. IsCatalog(d) /\ Keeps(c, d)
  BY <1>3, TieringKeeps
<1> HIDE DEF d
<1>5. IsCatalog(e) /\ Keeps(d, e)
  BY <1>4, RemappingKeeps
<1> HIDE DEF e
<1>6. IsCatalog(f) /\ Keeps(e, f)
  BY <1>5, NamingKeeps
<1>7. DeriveSurface(bugs, app, s) = f
  BY DEF DeriveSurface, Finished, a, b, c, d, e
<1> HIDE DEF f
<1>8. Keeps(s, f)
  BY <1>1, <1>2, <1>3, <1>4, <1>5, <1>6, KeepsOn
<1> QED
  BY <1>6, <1>7, <1>8

-----------------------------------------------------------------------------
(* The answer key and the catalog from step to step. *)

IsEntry(e)    == {"match", "route", "family"} \subseteq DOMAIN e /\ Routable(e)
AreEntries(s) == IsList(s) /\ \A e : Holds(s, e) => IsEntry(e)

LEMMA DerivedIsEntry == ASSUME NEW e, IsEntry(e), NEW r PROVE IsEntry(DeriveOne(e, r))
<1> DEFINE parsed == ParseRoute(e.route)
           block == Block(e, parsed, r)
           d == DeriveOne(e, r)
<1>1. IsList(block.alts)
  <2>1. "alts" \in DOMAIN NoAnchors
    BY DEF NoAnchors
  <2>2. block.alts = IF parsed.http = {} THEN <<>> ELSE Alternates(e.route, CHOOSE k \in parsed.http : TRUE)
    BY <2>1 DEF Block, NoAnchors
  <2>3. ASSUME NEW primary PROVE IsList(Alternates(e.route, primary))
    <3> DEFINE steps == RouteSteps(e.route)
               alt(s) == [method |-> IF s.m # NoVerb /\ s.m # primary.method THEN s.m ELSE NoVerb,
                          path |-> HttpKeyFromUrl(s.u, NoVerb).path]
               dup(i) == alt(steps[i]) \in {alt(steps[j]) : j \in 1..(i - 1)} \cup {[method |-> NoVerb, path |-> primary.path]}
               idx == [i \in DOMAIN steps |-> i]
               fresh == {i \in DOMAIN steps : ~dup(i)}
               new == Among(idx, fresh)
               alts == [n \in DOMAIN new |-> alt(steps[new[n]])]
    <3>1. Alternates(e.route, primary) = alts
      BY DEF Alternates
    <3>2. IsList(steps)
      BY StepsAreList DEF IsEntry, Routable
    <3>3. IsList(idx)
      <4>1. idx = [i \in DOMAIN steps |-> idx[i]]
        OBVIOUS
      <4> HIDE DEF idx, steps
      <4> QED
        BY <3>2, <4>1, MappedIsList
    <3>4. IsList(new)
      <4> HIDE DEF idx, fresh
      <4> QED
        BY <3>3, AmongTakes
    <3>5. alts = [n \in DOMAIN new |-> alts[n]]
      OBVIOUS
    <3> HIDE DEF alts, new
    <3> QED
      BY <3>1, <3>4, <3>5, MappedIsList
  <2> QED
    BY <2>2, <2>3, NoneIsOnce
<1>2. DOMAIN d = DOMAIN e /\ d.match = block /\ d.route = e.route
  BY DEF IsEntry, DeriveOne
<1> HIDE DEF block, d
<1>3. IsEntry(d)
  BY <1>1, <1>2 DEF IsEntry, Routable
<1> QED
  BY <1>3 DEF d

LEMMA DerivedKeyIsKey ==
  ASSUME NEW t, NEW k, AreEntries(k.bugs)
  PROVE  "bugs" \in DOMAIN DeriveMatch(t, k) /\ AreEntries(DeriveMatch(t, k).bugs)
<1> DEFINE bounds == AnchorBoundaries(t, ToSet(k.bugs), ToSet(k.nms))
           bugs == DeriveBugs(t, k, bounds)
           out == bugs.out
<1>1. "bugs" \in DOMAIN DeriveMatch(t, k) /\ DeriveMatch(t, k).bugs = out
  BY DEF DeriveMatch, WithBounds, WithNearMisses, KeyOf
<1>2. out = [i \in DOMAIN k.bugs |-> out[i]] /\ \A i \in DOMAIN k.bugs : \E r : out[i] = DeriveOne(k.bugs[i], r)
  BY DEF DeriveBugs
<1> HIDE DEF out
<1>3. IsList(out) /\ DOMAIN out = DOMAIN k.bugs
  BY <1>2, MappedIsList DEF AreEntries
<1>4. \A i \in DOMAIN k.bugs : IsEntry(k.bugs[i])
  BY DEF AreEntries, Holds
<1>5. \A i \in DOMAIN out : IsEntry(out[i])
  BY <1>2, <1>3, <1>4, DerivedIsEntry
<1> QED
  BY <1>1, <1>3, <1>5 DEF AreEntries, Holds

LEMMA RemovedAreEntries ==
  ASSUME NEW s, AreEntries(s), NEW i \in DOMAIN s
  PROVE  AreEntries(RemoveAt(s, i))
<1>1. PICK S : s \in Seq(S)
  BY DEF AreEntries, IsList
<1> DEFINE a == SubSeq(s, 1, i - 1)
           b == SubSeq(s, i + 1, Len(s))
<1>2. /\ a \in Seq(S) /\ b \in Seq(S) /\ (\A n \in DOMAIN a : n \in DOMAIN s /\ a[n] = s[n])
      /\ (\A n \in DOMAIN b : i + n \in DOMAIN s /\ b[n] = s[i + n])
  BY <1>1
<1>3. RemoveAt(s, i) = a \o b
  BY DEF RemoveAt
<1> HIDE DEF a, b
<1>4. IsList(a) /\ IsList(b) /\ \A e : Holds(a, e) \/ Holds(b, e) => Holds(s, e)
  BY <1>2 DEF IsList, Holds
<1>5. IsList(a \o b) /\ \A e : Holds(a \o b, e) <=> Holds(a, e) \/ Holds(b, e)
  BY <1>4, EndToEnd
<1> QED
  BY <1>3, <1>4, <1>5 DEF AreEntries

LEMMA PlantedAreEntries ==
  ASSUME NEW s, AreEntries(s), NEW full, AreEntries(full), NEW taken
  PROVE  AreEntries(Among(full, taken) \o s)
<1> DEFINE a == Among(full, taken)
<1>1. IsList(a) /\ \A e : Holds(a, e) <=> Holds(full, e) /\ e \in taken
  BY AmongTakes DEF AreEntries
<1> HIDE DEF a
<1>2. IsList(a \o s) /\ \A e : Holds(a \o s, e) <=> Holds(a, e) \/ Holds(s, e)
  BY <1>1, EndToEnd DEF AreEntries
<1>3. AreEntries(a \o s)
  BY <1>1, <1>2 DEF AreEntries
<1> QED
  BY <1>3 DEF a

\* An operation added by hand.
LEMMA AddingKeeps ==
  ASSUME NEW s, IsCatalog(s), NEW o, IsOp(o), IndexOfKey(s, OpKey(o)) = 0
  PROVE  IsCatalog(Append(s, o)) /\ Keeps(s, Append(s, o))
<1>1. IsList(s) /\ \A i \in DOMAIN s : IsOp(s[i])
  BY DEF IsCatalog, AreOps, Holds
<1>2. \A i \in DOMAIN s : OpKey(s[i]) # OpKey(o)
  BY <1>1, IndexIs
<1>3. PICK S : s \in Seq(S)
  BY <1>1 DEF IsList
<1> DEFINE t == Append(s, o)
           n == Len(s)
<1>4. /\ t \in Seq(S \cup {o}) /\ n \in Nat /\ DOMAIN s = 1..n /\ DOMAIN t = 1..(n + 1) /\ t[n + 1] = o
      /\ \A i \in 1..n : t[i] = s[i]
  BY <1>3
<1> HIDE DEF t, n
<1>5. \A i \in DOMAIN t : i = n + 1 \/ (i \in DOMAIN s /\ t[i] = s[i])
  BY <1>4
<1>6. AreOps(t)
  BY <1>1, <1>4, <1>5 DEF AreOps, IsList, Holds
<1>7. OneOfEach(t)
  <2>1. \A i, j \in DOMAIN s : OpKey(s[i]) = OpKey(s[j]) => i = j
    BY DEF IsCatalog, OneOfEach
  <2> QED
    BY <1>2, <1>4, <1>5, <2>1 DEF OneOfEach
<1>8. Keeps(s, t)
  <2>1. ASSUME NEW p, Holds(s, p) PROVE Holds(t, p) /\ Carries(p, p)
    BY <1>4, <2>1 DEF Holds, Carries
  <2> QED
    BY <2>1 DEF Keeps
<1> QED
  BY <1>6, <1>7, <1>8 DEF IsCatalog, t

\* One operation edited by hand.
LEMMA EditKeeps ==
  ASSUME NEW s, IsCatalog(s), NEW i \in DOMAIN s, NEW o, IsOp(o), Carries(s[i], o)
  PROVE  IsCatalog([s EXCEPT ![i] = o]) /\ Keeps(s, [s EXCEPT ![i] = o])
<1> DEFINE t == [s EXCEPT ![i] = o]
<1>1. t = [j \in DOMAIN s |-> t[j]] /\ \A j \in DOMAIN s : t[j] = IF j = i THEN o ELSE s[j]
  OBVIOUS
<1> HIDE DEF t
<1>2. \A j \in DOMAIN s : IsOp(s[j]) /\ Carries(s[j], s[j])
  BY DEF IsCatalog, AreOps, Holds, Carries
<1>3. IsCatalog(t) /\ Keeps(s, t)
  BY <1>1, <1>2, RewrittenKeeps
<1> QED
  BY <1>3 DEF t

CatalogIsCatalog == "bugs" \in DOMAIN key /\ AreEntries(key.bugs) /\ IsCatalog(cat)

\* Whatever people and tools do to source, key and catalog, for every app: an operation of
\* the catalog stays, with its bugs and its tier (derive-surface.ts).  The catalog people
\* start from and what they add has operations of known kinds and no endpoint twice, and
\* entries and source are lists where the code loops over them.
THEOREM NothingLeavesTheCatalog ==
  ASSUME "bugs" \in DOMAIN FirstKey, AreEntries(FirstKey.bugs), AreEntries(Bugs), IsCatalog(FirstCatalog),
         \A o \in HandOps : IsOp(o), Readable(App)
  PROVE  ASpec => CatalogKeeps
<1> DEFINE Kept == \A o \in ToSet(cat) : \E p \in ToSet(cat') :
                     OpKey(p) = OpKey(o) /\ o.vulns \subseteq p.vulns /\ o.discovery \in {"", p.discovery}
<1>1. AInit => CatalogIsCatalog
  BY Zenon DEF AInit, CatalogIsCatalog
<1>2. CatalogIsCatalog /\ [ANext]_avars => CatalogIsCatalog' /\ Keeps(cat, cat')
  <2> SUFFICES ASSUME CatalogIsCatalog, [ANext]_avars PROVE CatalogIsCatalog' /\ Keeps(cat, cat')
    OBVIOUS
  <2>1. Keeps(cat, cat)
    BY DEF Keeps, Carries
  <2>2. ASSUME UNCHANGED <<key, cat>> PROVE CatalogIsCatalog' /\ Keeps(cat, cat')
    BY <2>1, <2>2, Zenon DEF CatalogIsCatalog
  <2>3. CASE EditSource
    BY <2>2, <2>3, Zenon DEF EditSource
  <2>4. CASE Plant
    <3>1. PICK b \in ToSet(Bugs) : key' = [key EXCEPT !.bugs = Among(Bugs, {x \in ToSet(Bugs) : x.id = b.id}) \o @]
      BY <2>4, Zenon DEF Plant
    <3>2. cat' = cat
      BY <2>4 DEF Plant
    <3>3. DOMAIN key' = DOMAIN key /\ key'.bugs = Among(Bugs, {x \in ToSet(Bugs) : x.id = b.id}) \o key.bugs
      BY <3>1 DEF CatalogIsCatalog
    <3>4. AreEntries(key'.bugs)
      BY <3>3, PlantedAreEntries DEF CatalogIsCatalog
    <3> QED
      BY <2>1, <3>2, <3>3, <3>4 DEF CatalogIsCatalog
  <2>5. CASE Unplant
    <3>1. PICK i \in DOMAIN key.bugs : key' = [key EXCEPT !.bugs = RemoveAt(@, i)]
      BY <2>5, Zenon DEF Unplant
    <3>2. cat' = cat
      BY <2>5 DEF Unplant
    <3>3. DOMAIN key' = DOMAIN key /\ key'.bugs = RemoveAt(key.bugs, i)
      BY <3>1 DEF CatalogIsCatalog
    <3>4. AreEntries(key'.bugs)
      BY <3>3, RemovedAreEntries DEF CatalogIsCatalog
    <3> QED
      BY <2>1, <3>2, <3>3, <3>4 DEF CatalogIsCatalog
  <2>6. CASE AddOperation
    <3>1. PICK o \in HandOps : IndexOfKey(cat, OpKey(o)) = 0 /\ cat' = Append(cat, o)
      BY <2>6, Zenon DEF AddOperation
    <3>2. key' = key
      BY <2>6 DEF AddOperation
    <3> QED
      BY <3>1, <3>2, AddingKeeps DEF CatalogIsCatalog
  <2>7. CASE MapBug
    <3>1. PICK i \in DOMAIN cat, v \in Ids(key.bugs) : cat' = [cat EXCEPT ![i].vulns = @ \cup {v}]
      BY <2>7, Zenon DEF MapBug
    <3>2. key' = key
      BY <2>7 DEF MapBug
    <3> DEFINE x == cat[i].vulns \cup {v}
               o == [cat[i] EXCEPT !.vulns = x]
    <3>3. cat' = [cat EXCEPT ![i] = o]
      BY <3>1
    <3>4. IsOp(cat[i])
      BY DEF CatalogIsCatalog, IsCatalog, AreOps, Holds
    <3>5. cat[i].vulns \subseteq x
      OBVIOUS
    <3> HIDE DEF x
    <3>6. IsOp(o) /\ OpKey(o) = OpKey(cat[i]) /\ o.vulns = x /\ o.discovery = cat[i].discovery
      BY <3>4, MappedIsOp, Zenon
    <3> HIDE DEF o
    <3>7. Carries(cat[i], o)
      BY <3>5, <3>6 DEF Carries
    <3> QED
      BY <3>2, <3>3, <3>6, <3>7, EditKeeps DEF CatalogIsCatalog
  <2>8. CASE SetTier
    <3>1. PICK i \in DOMAIN cat, d \in {"static-html", "flow"} :
            cat[i].discovery = "" /\ cat' = [cat EXCEPT ![i].discovery = d]
      BY <2>8, Zenon DEF SetTier
    <3>2. key' = key
      BY <2>8 DEF SetTier
    <3> DEFINE o == [cat[i] EXCEPT !.discovery = d]
    <3>3. cat' = [cat EXCEPT ![i] = o]
      BY <3>1
    <3>4. IsOp(cat[i])
      BY DEF CatalogIsCatalog, IsCatalog, AreOps, Holds
    <3>5. IsOp(o) /\ OpKey(o) = OpKey(cat[i]) /\ o.vulns = cat[i].vulns
      BY <3>4, Retouched
    <3> HIDE DEF o
    <3>6. Carries(cat[i], o)
      BY <3>1, <3>5 DEF Carries
    <3> QED
      BY <3>2, <3>3, <3>5, <3>6, EditKeeps DEF CatalogIsCatalog
  <2>9. CASE WriteMatch
    <3>1. key' = DeriveMatch(tree, key) /\ cat' = cat
      BY <2>9 DEF WriteMatch
    <3>2. "bugs" \in DOMAIN key' /\ AreEntries(key'.bugs)
      BY <3>1, DerivedKeyIsKey DEF CatalogIsCatalog
    <3> QED
      BY <2>1, <3>1, <3>2 DEF CatalogIsCatalog
  <2>10. CASE WriteSurface
    <3>1. cat' = DeriveSurface(key.bugs, App, cat) /\ key' = key
      BY <2>10 DEF WriteSurface
    <3>2. IsList(key.bugs) /\ \A i \in DOMAIN key.bugs : Routable(key.bugs[i])
      BY DEF CatalogIsCatalog, AreEntries, IsEntry, Holds
    <3>3. IsCatalog(cat') /\ Keeps(cat, cat')
      BY <3>1, <3>2, WritingKeeps DEF CatalogIsCatalog
    <3> QED
      BY <3>1, <3>3 DEF CatalogIsCatalog
  <2>11. CASE Check
    BY <2>2, <2>11, Zenon DEF Check
  <2>12. CASE UNCHANGED avars
    BY <2>2, <2>12, Zenon DEF avars
  <2> QED
    BY <2>3, <2>4, <2>5, <2>6, <2>7, <2>8, <2>9, <2>10, <2>11, <2>12, Zenon DEF ANext
<1>3. Keeps(cat, cat') => Kept
  <2> SUFFICES ASSUME Keeps(cat, cat'), NEW o \in ToSet(cat)
               PROVE  \E p \in ToSet(cat') : Carries(o, p)
    BY Zenon DEF Carries
  <2>1. Holds(cat, o)
    BY DEF Holds, ToSet
  <2>2. PICK p : Holds(cat', p) /\ Carries(o, p)
    BY <2>1, Zenon DEF Keeps
  <2>3. p \in ToSet(cat')
    BY <2>2 DEF Holds, ToSet
  <2> QED
    BY <2>2, <2>3
<1>4. CatalogIsCatalog /\ [ANext]_avars => [Kept]_cat
  BY <1>2, <1>3
<1> QED
  BY <1>1, <1>2, <1>4, PTL DEF ASpec, CatalogKeeps

-----------------------------------------------------------------------------
(* Stripping keeps the code: what StripProofs says of one file, of every answer. *)

LEMMA StripToldIs ==
  ASSUME NEW lines, NEW t, t = [is |-> "strip", lines |-> lines]
  PROVE  t.lines = lines
OBVIOUS

LEMMA CodeText == ASSUME NEW lines, NEW sx, sx.kind = "code" PROVE StripText(lines, sx) = StripCode(lines, sx)
BY DEF StripText

StripAnswer ==
  /\ ask \in Questions
  /\ told.is = "strip" => ask.about = "strip" /\ told.lines = StripText(ask.lines, ask.syntax)

LEMMA StripAnswered == RulesSpec => []StripAnswer
<1>1. RulesInit => StripAnswer
  BY DEF RulesInit, StripAnswer, NotTold
<1>2. StripAnswer /\ [RulesNext]_rvars => StripAnswer'
  <2> SUFFICES ASSUME StripAnswer, [RulesNext]_rvars PROVE StripAnswer'
    OBVIOUS
  <2>1. CASE AnswerStrip /\ UNCHANGED ask
    <3> DEFINE text == StripText(ask.lines, ask.syntax)
    <3>1. ask.about = "strip" /\ told' = [is |-> "strip", lines |-> text]
      BY <2>1, Zenon DEF AnswerStrip
    <3> HIDE DEF text
    <3>2. told'.lines = text
      BY <3>1, StripToldIs
    <3> QED
      BY <2>1, <3>1, <3>2 DEF StripAnswer, text
  <2>2. ASSUME told'.is # "strip", UNCHANGED ask PROVE StripAnswer'
    BY <2>2 DEF StripAnswer
  <2>3. CASE UNCHANGED rvars
    BY <2>3 DEF rvars, StripAnswer
  <2>4. AnswerPath \/ AnswerPair \/ AnswerTrack \/ AnswerImage \/ AnswerCatalog \/ AnswerCoverage \/ AnswerReport
        => told'.is # "strip"
    BY OwnKind
  <2> QED
    BY <2>1, <2>2, <2>3, <2>4 DEF RulesNext
<1> QED
  BY <1>1, <1>2, PTL DEF RulesSpec

\* A file to strip by its syntax, and an image built from a Dockerfile.
IsCodeFile(q)   == IsSyntax(q.syntax) /\ IsList(q.lines) /\ \A r \in DOMAIN q.lines : IsLine(q.lines[r])
IsDockerfile(d) == IsList(d) /\ \A i \in DOMAIN d : d[i].op \in {"from", "copy", "strip"}

\* For every syntax whose marks can be told apart and every file, of however many rows and
\* symbols, in which the text tells the comments from the code: stripping (strip.mjs) leaves
\* the code of each row as a compiler reads it; and where the file ends in code, is no longer
\* than the stripper looks and has no tool's line, no label is left in a comment.  And no
\* image whose check passes holds a file as it was before the strip.
THEOREM StrippingKeepsTheCode ==
  ASSUME \A q \in Questions : q.about = "strip" /\ q.syntax.kind = "code" => IsCodeFile(q),
         \A q \in Questions : q.about = "image" => IsDockerfile(q.docker)
  PROVE  RulesSpec => []LabelsOnly
<1>1. StripAnswer =>
        (told.is = "strip" /\ ask.syntax.kind = "code" =>
           \A was \in {Reading(ask.lines, ask.syntax)}, now \in {Reading(told.lines, ask.syntax)} :
             ~was.odd =>
               /\ now.rows = was.rows
               /\ was.in = "" /\ Len(ask.lines) <= Min({MaxRows, MaxRowsUp + 1})
                  /\ (\A r \in DOMAIN ask.lines : ~Directive(ask.lines[r])) => now.labels = {})
  <2> SUFFICES ASSUME StripAnswer, told.is = "strip", ask.syntax.kind = "code",
                      NEW was \in {Reading(ask.lines, ask.syntax)}, NEW now \in {Reading(told.lines, ask.syntax)}, ~was.odd
               PROVE  /\ now.rows = was.rows
                      /\ was.in = "" /\ Len(ask.lines) <= Min({MaxRows, MaxRowsUp + 1})
                         /\ (\A r \in DOMAIN ask.lines : ~Directive(ask.lines[r])) => now.labels = {}
    OBVIOUS
  <2>1. PICK lines, sx : lines = ask.lines /\ sx = ask.syntax
    OBVIOUS
  <2>2. IsSyntax(sx) /\ IsList(lines) /\ (\A r \in DOMAIN lines : IsLine(lines[r])) /\ told.lines = StripText(lines, sx) /\ sx.kind = "code"
    BY <2>1 DEF StripAnswer, IsCodeFile
  <2>3. was = Reading(lines, sx) /\ now = Reading(StripCode(lines, sx), sx)
    BY <2>1, <2>2, CodeText
  <2>4. /\ now.rows = was.rows
        /\ was.in = InCode /\ Len(lines) <= MaxRows /\ Len(lines) <= MaxRowsUp + 1
           /\ (\A r \in DOMAIN lines : ~Directive(lines[r])) => now.labels = {}
    BY <2>2, <2>3, CodeStripped
  <2>5. Len(lines) <= Min({MaxRows, MaxRowsUp + 1}) => Len(lines) <= MaxRows /\ Len(lines) <= MaxRowsUp + 1
    <3>1. PICK S, m : S = {MaxRows, MaxRowsUp + 1} /\ m = Min(S)
      OBVIOUS
    <3>2. S \in SUBSET Nat /\ S # {} /\ MaxRows \in S /\ MaxRowsUp + 1 \in S
      BY <3>1, StripAssumption
    <3>3. m \in S /\ \A x \in S : m <= x
      BY <3>1, <3>2, LeastIs
    <3>4. Len(lines) \in Nat
      BY <2>2 DEF IsList
    <3>5. m \in Nat /\ m <= MaxRows /\ m <= MaxRowsUp + 1
      BY <3>2, <3>3
    <3>6. Len(lines) <= m => Len(lines) <= MaxRows /\ Len(lines) <= MaxRowsUp + 1
      BY <3>4, <3>5, StripAssumption
    <3> QED
      BY <3>1, <3>6
  <2> QED
    BY <2>1, <2>4, <2>5 DEF InCode
<1>2. RulesSpec => []ImageStripped
  BY CheckedImageIsStripped DEF IsDockerfile
<1>3. StripAnswer /\ ImageStripped => LabelsOnly
  BY <1>1 DEF LabelsOnly
<1> QED
  BY <1>2, <1>3, StripAnswered, PTL

-----------------------------------------------------------------------------
(* The lines a bug or a near-miss claims. *)

\* The claims, entry by entry, where the i-th asks for R[i].
ClaimedTo(f, n, s, R, first) ==
  f = [i \in 0..n |-> IF i = 0 THEN first
                      ELSE IF s[i].file = <<>> THEN f[i - 1] ELSE Claim(f[i - 1], s[i], R[i])]
ClaimedBy(f, n, s, R, first) ==
  /\ f[0] = first
  /\ \A i \in 1..n : f[i] = IF s[i].file = <<>> THEN f[i - 1] ELSE Claim(f[i - 1], s[i], R[i])

LEMMA ClaimsExist ==
  ASSUME NEW n \in Nat, NEW s, NEW R, NEW first
  PROVE  \E f : ClaimedTo(f, n, s, R, first)
<1> DEFINE There == {k \in 0..n : \E f : ClaimedTo(f, k, s, R, first)}
<1>1. 0 \in There
  <2> DEFINE f == [i \in 0..0 |-> first]
  <2>1. ClaimedTo(f, 0, s, R, first)
    BY DEF ClaimedTo
  <2> QED
    BY <2>1
<1>2. ASSUME NEW k \in 0..(n - 1), k \in There PROVE k + 1 \in There
  <2>1. PICK f : ClaimedTo(f, k, s, R, first)
    BY <1>2
  <2> DEFINE next(c, i) == IF s[i].file = <<>> THEN c ELSE Claim(c, s[i], R[i])
             g == [i \in 0..(k + 1) |-> IF i = k + 1 THEN next(f[k], k + 1) ELSE f[i]]
  <2>2. f = [i \in 0..k |-> IF i = 0 THEN first ELSE next(f[i - 1], i)]
    BY <2>1 DEF ClaimedTo
  <2>3. ASSUME NEW i \in 0..(k + 1) PROVE g[i] = IF i = 0 THEN first ELSE next(g[i - 1], i)
    <3> HIDE DEF next
    <3>1. CASE i = k + 1
      <4>1. g[i] = next(f[k], k + 1) /\ i # 0 /\ i - 1 = k /\ g[k] = f[k]
        BY <3>1
      <4> HIDE DEF g
      <4> QED
        BY <3>1, <4>1
    <3>2. CASE i = 0
      <4>1. g[i] = f[0] /\ f[0] = first
        BY <2>2, <3>2
      <4> QED
        BY <3>2, <4>1
    <3>3. CASE i \in 1..k
      <4>1. g[i] = f[i] /\ g[i - 1] = f[i - 1] /\ i # 0
        BY <3>3
      <4>2. f[i] = next(f[i - 1], i)
        BY <2>2, <3>3
      <4> HIDE DEF g
      <4> QED
        BY <4>1, <4>2
    <3> QED
      BY <3>1, <3>2, <3>3
  <2>4. g = [i \in 0..(k + 1) |-> g[i]]
    OBVIOUS
  <2>5. ClaimedTo(g, k + 1, s, R, first)
    <3> HIDE DEF g
    <3> QED
      BY <2>3, <2>4 DEF ClaimedTo
  <2> QED
    BY <2>5
<1> HIDE DEF There
<1>3. n \in There
  <2>1. \A i \in 0..n : i \in There
    BY <1>1, <1>2, Upwards
  <2> QED
    BY <2>1
<1> QED
  BY <1>3 DEF There

LEMMA ClaimedToBy ==
  ASSUME NEW n \in Nat, NEW s, NEW R, NEW first, NEW f, ClaimedTo(f, n, s, R, first)
  PROVE  ClaimedBy(f, n, s, R, first)
BY DEF ClaimedTo, ClaimedBy

\* What an entry is left with; a range of integers.
IsRange(r) == r.s \in Int /\ r.e \in Int
MayClaim(f, s, R, i) == s[i].file # <<>> /\ Claimable(f[i - 1], VulnSide(s[i].file), R[i], s[i].id)
ClaimOf(e, r) == [file |-> VulnSide(e.file), s |-> r.s, e |-> r.e, owner |-> e.id]

LEMMA ClaimsGrow ==
  ASSUME NEW n \in Nat, NEW s, NEW R, NEW first, NEW f, ClaimedBy(f, n, s, R, first), NEW i \in 0..n, NEW j \in i..n
  PROVE  f[i] \subseteq f[j]
<1> DEFINE S == {k \in i..n : f[i] \subseteq f[k]}
<1>1. i \in S /\ i \in 0..n
  OBVIOUS
<1>2. ASSUME NEW k \in i..(n - 1), k \in S PROVE k + 1 \in S
  <2>1. k + 1 \in 1..n /\ (k + 1) - 1 = k
    OBVIOUS
  <2>2. f[k + 1] = IF s[k + 1].file = <<>> THEN f[k] ELSE Claim(f[k], s[k + 1], R[k + 1])
    BY <2>1 DEF ClaimedBy
  <2>3. f[k] \subseteq f[k + 1]
    BY <2>2, Zenon DEF Claim
  <2>4. f[i] \subseteq f[k]
    BY <1>2
  <2> QED
    BY <2>3, <2>4
<1> HIDE DEF S
<1>3. \A k \in i..n : k \in S
  BY <1>1, <1>2, UpFrom
<1> QED
  BY <1>3 DEF S

LEMMA ClaimStands ==
  ASSUME NEW n \in Nat, NEW s, NEW R, NEW first, NEW f, ClaimedBy(f, n, s, R, first), NEW i \in 1..n, MayClaim(f, s, R, i),
         NEW j \in i..n
  PROVE  ClaimOf(s[i], R[i]) \in f[j]
<1>1. f[i] = Claim(f[i - 1], s[i], R[i])
  BY DEF ClaimedBy, MayClaim
<1>2. ClaimOf(s[i], R[i]) \in f[i]
  BY <1>1, Zenon DEF Claim, MayClaim, ClaimOf
<1>3. i \in 0..n
  OBVIOUS
<1>4. f[i] \subseteq f[j]
  BY <1>3, ClaimsGrow
<1> QED
  BY <1>2, <1>4

\* A range that may be claimed beside a claim of another entry in the file has no line of it.
LEMMA RangesApart ==
  ASSUME NEW claimed, NEW e, NEW r, IsRange(r), ClaimOf(e, r) \in claimed,
         NEW d, NEW q, IsRange(q), Claimable(claimed, VulnSide(d.file), q, d.id),
         e.id # d.id, VulnSide(e.file) = VulnSide(d.file)
  PROVE  (r.s..r.e) \cap (q.s..q.e) = {}
<1>1. PICK c : c = ClaimOf(e, r)
  OBVIOUS
<1>2. c.file = VulnSide(e.file) /\ c.s = r.s /\ c.e = r.e /\ c.owner = e.id /\ c \in claimed
  BY <1>1 DEF ClaimOf
<1>3. ~Overlaps(c, VulnSide(d.file), q)
  BY <1>2 DEF Claimable
<1>4. ~(q.s <= r.e /\ q.e >= r.s)
  BY <1>2, <1>3 DEF Overlaps
<1> QED
  BY <1>4 DEF IsRange

-----------------------------------------------------------------------------
(* What an entry asks for are lines. *)

\* A tree is a list of files, a file a list of lines.
IsTree(t) == IsList(t) /\ \A i \in DOMAIN t : IsList(t[i].lines)

LEMMA ListIs == ASSUME NEW s, IsList(s) PROVE Len(s) \in Nat /\ DOMAIN s = 1..Len(s)
BY DEF IsList

LEMMA LeastOf == ASSUME NEW n \in Nat, NEW S \in SUBSET 1..n PROVE (IF S # {} THEN Min(S) ELSE 0) \in 0..n /\ (S # {} => Min(S) \in S)
<1>1. CASE S = {}
  BY <1>1
<1>2. CASE S # {}
  <2>1. S \in SUBSET Nat
    OBVIOUS
  <2>2. PICK m : m = Min(S)
    OBVIOUS
  <2>3. m \in S
    BY <1>2, <2>1, <2>2, LeastIs
  <2>4. m \in 0..n
    BY <2>3
  <2> QED
    BY <1>2, <2>2, <2>3, <2>4
<1> QED
  BY <1>1, <1>2

LEMMA LinesAre == ASSUME NEW t, IsTree(t), NEW p PROVE IsList(LinesOf(t, p))
<1> DEFINE I == {i \in 1..Len(t) : t[i].path = VulnSide(p)}
           at == IF I # {} THEN Min(I) ELSE 0
<1>1. LinesOf(t, p) = IF at = 0 THEN <<>> ELSE t[at].lines
  BY DEF LinesOf, SelectInSeq
<1>2. Len(t) \in Nat /\ DOMAIN t = 1..Len(t)
  BY ListIs DEF IsTree
<1>3. at \in 0..Len(t)
  <2>1. I \in SUBSET 1..Len(t)
    OBVIOUS
  <2> HIDE DEF I
  <2> QED
    BY <1>2, <2>1, LeastOf
<1> HIDE DEF at
<1>4. CASE at = 0
  <2>1. IsList(<<>>)
    <3>1. <<>> \in Seq({})
      OBVIOUS
    <3> QED
      BY <3>1 DEF IsList
  <2> QED
    BY <1>1, <1>4, <2>1
<1>5. CASE at # 0
  BY <1>1, <1>2, <1>3, <1>5 DEF IsTree
<1> QED
  BY <1>4, <1>5

LEMMA TagIsLine == ASSUME NEW t, IsTree(t), NEW id PROVE TagOf(t, id).line \in Nat
<1> DEFINE tagged(f) == {i \in DOMAIN f.lines : id \in f.lines[i].tags}
           I == {i \in 1..Len(t) : tagged(t[i]) # {}}
           at == IF I # {} THEN Min(I) ELSE 0
<1>1. TagOf(t, id) = IF at = 0 THEN NoTag ELSE [path |-> t[at].path, line |-> Min(tagged(t[at]))]
  BY DEF TagOf, SelectInSeq
<1>2. Len(t) \in Nat /\ DOMAIN t = 1..Len(t)
  BY ListIs DEF IsTree
<1>3. at # 0 => at \in DOMAIN t /\ tagged(t[at]) # {}
  <2>1. I \in SUBSET 1..Len(t) /\ \A i \in I : i \in DOMAIN t /\ tagged(t[i]) # {}
    BY <1>2
  <2> HIDE DEF I
  <2>2. I # {} => Min(I) \in I
    BY <1>2, <2>1, LeastOf
  <2> QED
    BY <2>1, <2>2
<1> HIDE DEF at
<1>4. CASE at = 0
  BY <1>1, <1>4 DEF NoTag
<1>5. CASE at # 0
  <2>1. PICK l, S : l = t[at].lines /\ S = tagged(t[at])
    OBVIOUS
  <2>2. IsList(l) /\ S \subseteq DOMAIN l /\ S # {}
    BY <1>3, <1>5, <2>1 DEF IsTree
  <2>3. S \in SUBSET Nat
    BY <2>2, ListIs
  <2>4. Min(S) \in Nat
    BY <2>2, <2>3, LeastIs
  <2>5. TagOf(t, id).line = Min(S)
    BY <1>1, <1>5, <2>1
  <2> QED
    BY <2>4, <2>5
<1> QED
  BY <1>4, <1>5

LEMMA SymbolIsLine == ASSUME NEW lines, IsList(lines), NEW token PROVE SymbolLine(lines, token) \in Nat
<1> DEFINE hits == {i \in DOMAIN lines : token # "" /\ token \in lines[i].toks}
           defs == {i \in hits : lines[i].def}
           diff == {i \in hits : InHunk(Hunks(lines), i)}
           best == IF Cardinality(hits) = 1 THEN hits ELSE IF defs # {} THEN defs ELSE IF diff # {} THEN diff ELSE hits
<1>1. SymbolLine(lines, token) = IF hits = {} THEN 0 ELSE Min(best)
  BY DEF SymbolLine
<1>2. hits \in SUBSET Nat
  <2>1. DOMAIN lines \subseteq Nat
    BY ListIs
  <2>2. hits \subseteq DOMAIN lines
    OBVIOUS
  <2> HIDE DEF hits
  <2> QED
    BY <2>1, <2>2
<1>3. best \subseteq hits /\ (hits # {} => best # {})
  OBVIOUS
<1> HIDE DEF best, hits
<1>4. ASSUME hits # {} PROVE Min(best) \in Nat
  <2>1. PICK m, S : m = Min(S) /\ S = best
    OBVIOUS
  <2>2. S \in SUBSET Nat /\ S # {}
    BY <1>2, <1>3, <1>4, <2>1
  <2>3. m \in S
    BY ONLY <2>1, <2>2, LeastIs
  <2>4. m \in Nat
    BY ONLY <2>2, <2>3
  <2> QED
    BY <2>1, <2>4
<1> QED
  BY <1>1, <1>4

LEMMA AnchorIsLine == ASSUME NEW t, IsTree(t), NEW e, NEW p PROVE AnchorLine(t, e, p) \in Nat
<1>1. IsList(LinesOf(t, p))
  BY LinesAre
<1>2. SymbolLine(LinesOf(t, p), Token(e.symbol, GenericSymbols)) \in Nat
  BY <1>1, SymbolIsLine
<1>3. TagOf(t, e.id).line \in Nat
  BY TagIsLine
<1> QED
  BY <1>2, <1>3, Zenon DEF AnchorLine

LEMMA LesserIs ==
  ASSUME NEW a \in Int, NEW b \in Int, NEW m, m = Min({a, b})
  PROVE  m \in {a, b}
<1> DEFINE S == {a, b}
<1>1. \E x \in S : \A y \in S : x <= y
  <2>1. CASE a <= b
    BY <2>1
  <2>2. CASE b <= a
    BY <2>2
  <2> QED
    BY <2>1, <2>2
<1>2. Min(S) \in S
  <2> HIDE DEF S
  <2> QED
    BY <1>1 DEF Min
<1> QED
  BY <1>2

LEMMA GreatestIs ==
  ASSUME NEW n \in Nat, NEW S \in SUBSET 0..n, S # {}
  PROVE  Max(S) \in S
<1> DEFINE T == {n - x : x \in S}
<1>1. T \in SUBSET Nat /\ T # {}
  <2>1. \A x \in S : n - x \in Nat
    OBVIOUS
  <2> QED
    BY <2>1
<1>2. PICK m \in T : \A x \in T : m <= x
  <2> HIDE DEF T
  <2> QED
    BY <1>1, Least
<1>3. PICK y \in S : m = n - y
  BY <1>2
<1>4. \A x \in S : y >= x
  <2> SUFFICES ASSUME NEW x \in S PROVE y >= x
    OBVIOUS
  <2>1. n - x \in T
    OBVIOUS
  <2> QED
    BY <1>2, <1>3, <2>1
<1> QED
  BY <1>4 DEF Max

LEMMA BodyEnds ==
  ASSUME NEW t, IsTree(t), NEW p, NEW start \in Nat, NEW bounds, \A b \in bounds : b[2] \in Nat
  PROVE  BodyEnd(t, p, start, bounds) \in Int
<1> DEFINE eof == Max({1, Len(LinesOf(t, p))})
           cap == Min({start + MaxBodySpan, eof})
           next == {b[2] : b \in {c \in bounds : c[1] = VulnSide(p) /\ c[2] > start}}
           before == Min({Min(next) - 1, cap})
<1>1. BodyEnd(t, p, start, bounds) = IF next = {} THEN cap ELSE Max({start, before})
  BY DEF BodyEnd
<1>2. eof \in Int
  <2>1. PICK a, m : a = Len(LinesOf(t, p)) /\ m = Max({1, a})
    OBVIOUS
  <2>2. Len(LinesOf(t, p)) \in Nat
    BY LinesAre, ListIs
  <2>3. 1 \in Int /\ a \in Int /\ m = Max({1, a})
    BY ONLY <2>1, <2>2
  <2>4. m \in Int
    BY ONLY <2>3, GreaterIs
  <2> QED
    BY <2>1, <2>4
<1>3. cap \in Int
  <2> HIDE DEF eof
  <2>1. start + MaxBodySpan \in Int
    BY MaxBodySpanAssumption
  <2> QED
    BY <1>2, <2>1, LesserIs
<1>4. ASSUME next # {} PROVE Max({start, before}) \in Int
  <2> HIDE DEF cap
  <2>1. next \in SUBSET Nat
    OBVIOUS
  <2>2. Min(next) \in Nat
    <3> HIDE DEF next
    <3> QED
      BY <1>4, <2>1, LeastIs
  <2> HIDE DEF next
  <2>3. Min(next) - 1 \in Int
    BY <2>2
  <2>4. before \in Int
    BY <1>3, <2>3, LesserIs
  <2> HIDE DEF before
  <2>5. PICK b, m : b = before /\ m = Max({start, b})
    OBVIOUS
  <2>6. start \in Int /\ b \in Int /\ m = Max({start, b})
    BY <2>4, <2>5
  <2>7. m \in {start, b}
    BY ONLY <2>6, GreaterIs, Zenon
  <2>8. m \in Int
    BY ONLY <2>6, <2>7
  <2> QED
    BY <2>5, <2>8
<1> HIDE DEF cap, next, before
<1> QED
  BY <1>1, <1>3, <1>4

LEMMA BoundsAreLines ==
  ASSUME NEW t, IsTree(t), NEW bugs, NEW nms
  PROVE  \A b \in AnchorBoundaries(t, bugs, nms) : b[2] \in Nat
<1> SUFFICES ASSUME NEW b \in AnchorBoundaries(t, bugs, nms) PROVE b[2] \in Nat
  OBVIOUS
<1>1. PICK e : b = <<VulnSide(e.file), AnchorLine(t, e, e.file)>>
  BY DEF AnchorBoundaries
<1>2. b[2] = AnchorLine(t, e, e.file)
  BY <1>1
<1> QED
  BY <1>2, AnchorIsLine

LEMMA BodyIsRange ==
  ASSUME NEW t, IsTree(t), NEW e, NEW bounds, \A b \in bounds : b[2] \in Nat
  PROVE  IsRange(Body(t, e, bounds))
<1> DEFINE at == AnchorLine(t, e, e.file)
           end == BodyEnd(t, e.file, at, bounds)
<1>1. Body(t, e, bounds) = IF at = 0 THEN NoRange ELSE [s |-> at, e |-> end]
  BY DEF Body
<1>2. at \in Nat
  BY AnchorIsLine
<1>3. end \in Int
  <2> HIDE DEF at
  <2> QED
    BY <1>2, BodyEnds
<1> HIDE DEF at, end
<1> QED
  BY <1>1, <1>2, <1>3 DEF IsRange, NoRange

LEMMA HunksAreRanges ==
  ASSUME NEW lines, IsList(lines)
  PROVE  \A h \in Hunks(lines) : h.s \in 0..(Len(lines) + 1) /\ h.e \in 0..(Len(lines) + 1)
<1>1. Len(lines) \in Nat /\ DOMAIN lines = 1..Len(lines)
  BY ListIs
<1> SUFFICES ASSUME NEW h \in Hunks(lines) PROVE h.s \in 0..(Len(lines) + 1) /\ h.e \in 0..(Len(lines) + 1)
  OBVIOUS
<1>2. CASE h \in ChangedRuns(lines)
  <2>1. PICK r \in (DOMAIN lines) \X (DOMAIN lines) : h = [s |-> r[1], e |-> r[2]]
    BY <1>2 DEF ChangedRuns
  <2> QED
    BY <1>1, <2>1
<1>3. CASE h \in Insertions(lines)
  <2>1. PICK i \in DOMAIN lines : h = [s |-> i, e |-> i + 1] \/ h = [s |-> i, e |-> i]
    BY <1>3, Zenon DEF Insertions
  <2> QED
    BY <1>1, <2>1
<1> QED
  BY <1>2, <1>3 DEF Hunks

LEMMA DiffIsRange ==
  ASSUME NEW lines, IsList(lines), NEW alone, NEW words
  PROVE  IsRange(ByDiff(lines, Hunks(lines), alone, words))
<1> DEFINE hunks == Hunks(lines)
           named == {h \in hunks : \E i \in Telling(words, GenericRouteTokens), l \in h.s..h.e :
                                     l \in DOMAIN lines /\ words[i].w \in lines[l].toks}
           S == {h.s : h \in hunks}
           E == {h.e : h \in hunks}
           one == CHOOSE h \in named : TRUE
<1>1. ByDiff(lines, hunks, alone, words) =
        IF hunks = {} THEN NoRange
        ELSE IF alone THEN [s |-> Min(S), e |-> Max(E)]
        ELSE IF Cardinality(named) = 1 THEN one ELSE NoRange
  BY DEF ByDiff
<1>2. Len(lines) \in Nat
  BY ListIs
<1>3. \A h \in hunks : h.s \in 0..(Len(lines) + 1) /\ h.e \in 0..(Len(lines) + 1)
  BY HunksAreRanges
<1>4. IsRange(NoRange)
  BY DEF IsRange, NoRange
<1> HIDE DEF hunks
<1>5. ASSUME hunks # {} PROVE Min(S) \in Int /\ Max(E) \in Int
  <2>1. S \in SUBSET Nat /\ S # {}
    BY <1>2, <1>3, <1>5
  <2>2. E \in SUBSET 0..(Len(lines) + 1) /\ E # {} /\ Len(lines) + 1 \in Nat
    BY <1>2, <1>3, <1>5
  <2> HIDE DEF S, E
  <2>3. PICK a, b : a = Min(S) /\ b = Max(E)
    OBVIOUS
  <2>4. a \in S /\ b \in E
    BY <2>1, <2>2, <2>3, LeastIs, GreatestIs
  <2>5. a \in Int
    BY ONLY <2>1, <2>4
  <2>6. b \in Int
    BY ONLY <2>2, <2>4
  <2> QED
    BY <2>3, <2>5, <2>6
<1>6. ASSUME Cardinality(named) = 1 PROVE IsRange(one)
  <2>1. named # {}
    <3>1. Cardinality({}) = 0
      BY FS_EmptySet
    <3> QED
      BY <1>6, <3>1
  <2>2. one \in hunks
    BY <2>1
  <2> QED
    BY <1>2, <1>3, <2>2 DEF IsRange
<1> HIDE DEF S, E, one, named
<1> SUFFICES IsRange(ByDiff(lines, hunks, alone, words))
  BY DEF hunks
<1>7. IsRange([s |-> Min(S), e |-> Max(E)]) \/ hunks = {}
  BY <1>5 DEF IsRange
<1> QED
  BY <1>1, <1>4, <1>6, <1>7

LEMMA BugAsksForRange ==
  ASSUME NEW t, IsTree(t), NEW e, NEW alone, NEW bounds, \A b \in bounds : b[2] \in Nat
  PROVE  IsRange(BugRange(t, e, alone, bounds))
<1>1. IsRange(Body(t, e, bounds))
  BY BodyIsRange
<1>2. IsList(LinesOf(t, e.file))
  BY LinesAre
<1>3. IsRange(ByDiff(LinesOf(t, e.file), Hunks(LinesOf(t, e.file)), alone, e.routeWords))
  BY <1>2, DiffIsRange
<1> QED
  BY <1>1, <1>3, Zenon DEF BugRange

\* What derive-match makes of the bugs: each is left with the range it asks for where the
\* claims so far let it.
LeftWith(f, s, R, i) == Mine(f[i - 1], s[i], R[i])
Asking(s, n, R) == \A i \in 1..n : IsRange(R[i])

BugsClaimed(t, k, bounds, n) ==
  \E f, R : /\ ClaimedBy(f, n, k.bugs, R, {}) /\ Asking(k.bugs, n, R)
            /\ DeriveBugs(t, k, bounds).claimed = f[n]
            /\ \A i \in 1..n : DeriveBugs(t, k, bounds).out[i] = DeriveOne(k.bugs[i], LeftWith(f, k.bugs, R, i))

LEMMA BugsClaim ==
  ASSUME NEW t, IsTree(t), NEW k, IsList(k.bugs), NEW bounds, \A b \in bounds : b[2] \in Nat,
         NEW n, n = Len(k.bugs)
  PROVE  BugsClaimed(t, k, bounds, n)
<1>1. n \in Nat /\ DOMAIN k.bugs = 1..n
  BY ListIs
<1>2. PICK s : s = k.bugs
  OBVIOUS
<1> DEFINE asks(e) == BugRange(t, e, Alone(k, e), bounds)
           R == [i \in 1..n |-> asks(s[i])]
           body(a) == [i \in 0..Len(k.bugs) |-> IF i = 0 THEN {}
                                      ELSE IF k.bugs[i].file = <<>> THEN a[i - 1] ELSE Claim(a[i - 1], k.bugs[i], asks(k.bugs[i]))]
           c == CHOOSE a : a = body(a)
<1>3. \A e : IsRange(asks(e))
  BY BugAsksForRange
<1>4. DeriveBugs(t, k, bounds) =
        [claimed |-> c[Len(k.bugs)], out |-> [i \in DOMAIN k.bugs |-> DeriveOne(k.bugs[i], Mine(c[i - 1], k.bugs[i], asks(k.bugs[i])))]]
  BY Zenon DEF DeriveBugs, Claims
<1> HIDE DEF asks
<1>5. \A i \in 1..n : R[i] = asks(s[i])
  OBVIOUS
<1> HIDE DEF R
<1>6. c = body(c)
  <2>1. PICK f : ClaimedTo(f, n, s, R, {})
    BY <1>1, ClaimsExist
  <2>2. f = body(f)
    <3>1. \A i \in 0..n : i # 0 => R[i] = asks(s[i])
      BY <1>1, <1>5
    <3>2. f = [i \in 0..n |-> IF i = 0 THEN {}
                              ELSE IF s[i].file = <<>> THEN f[i - 1] ELSE Claim(f[i - 1], s[i], R[i])]
      BY <2>1 DEF ClaimedTo
    <3>3. \A i \in 0..n : f[i] = body(f)[i]
      BY <1>2, <3>1, <3>2
    <3>4. f = [i \in 0..n |-> f[i]] /\ body(f) = [i \in 0..n |-> body(f)[i]]
      BY <3>2
    <3> HIDE DEF body
    <3> QED
      BY <3>3, <3>4
  <2> HIDE DEF body
  <2> QED
    BY <2>2
<1> HIDE DEF c
<1>7. ClaimedBy(c, n, s, R, {})
  <2>1. c[0] = {}
    BY <1>1, <1>6
  <2>2. ASSUME NEW i \in 1..n
        PROVE  c[i] = IF s[i].file = <<>> THEN c[i - 1] ELSE Claim(c[i - 1], s[i], R[i])
    <3>1. i \in 0..n /\ i # 0
      BY <1>1
    <3> QED
      BY <1>2, <1>5, <1>6, <3>1
  <2> QED
    BY <2>1, <2>2 DEF ClaimedBy
<1>8. Asking(s, n, R)
  BY <1>3, <1>5 DEF Asking
<1>9. DeriveBugs(t, k, bounds).claimed = c[n]
  BY <1>4
<1>10. ASSUME NEW i \in 1..n PROVE DeriveBugs(t, k, bounds).out[i] = DeriveOne(s[i], LeftWith(c, s, R, i))
  <2>1. DeriveBugs(t, k, bounds).out = [j \in DOMAIN s |-> DeriveOne(s[j], Mine(c[j - 1], s[j], asks(s[j])))]
    BY <1>2, <1>4
  <2>2. DeriveBugs(t, k, bounds).out[i] = DeriveOne(s[i], Mine(c[i - 1], s[i], asks(s[i])))
    BY <1>1, <1>2, <2>1
  <2> QED
    BY <1>5, <2>2 DEF LeftWith
<1> QED
  BY <1>2, <1>7, <1>8, <1>9, <1>10 DEF BugsClaimed

\* ... and of the near-misses, which ask after them.
NearMissesClaimed(t, k, bounds, n, first) ==
  \E f, R : /\ ClaimedBy(f, n, k.nms, R, first) /\ Asking(k.nms, n, R)
            /\ \A i \in 1..n : k.nms[i].file # <<>> =>
                 DeriveNearMisses(t, k, bounds, first)[i] =
                   DeriveNearMiss(k.nms[i], ToSet(k.bugs), LeftWith(f, k.nms, R, i))

LEMMA NearMissesClaim ==
  ASSUME NEW t, IsTree(t), NEW k, IsList(k.nms), NEW bounds, \A b \in bounds : b[2] \in Nat,
         NEW n, n = Len(k.nms), NEW first
  PROVE  NearMissesClaimed(t, k, bounds, n, first)
<1>1. n \in Nat /\ DOMAIN k.nms = 1..n
  BY ListIs
<1>2. PICK s : s = k.nms
  OBVIOUS
<1> DEFINE asks(e) == Body(t, e, bounds)
           R == [i \in 1..n |-> asks(s[i])]
           body(a) == [i \in 0..Len(k.nms) |-> IF i = 0 THEN first
                                      ELSE IF k.nms[i].file = <<>> THEN a[i - 1] ELSE Claim(a[i - 1], k.nms[i], asks(k.nms[i]))]
           c == CHOOSE a : a = body(a)
<1>3. \A e : IsRange(asks(e))
  BY BodyIsRange
<1>4. DeriveNearMisses(t, k, bounds, first) =
        [i \in DOMAIN k.nms |-> IF k.nms[i].file = <<>> THEN [k.nms[i] EXCEPT !.match = NoAnchors]
                            ELSE DeriveNearMiss(k.nms[i], ToSet(k.bugs), Mine(c[i - 1], k.nms[i], asks(k.nms[i])))]
  BY Zenon DEF DeriveNearMisses, Claims
<1> HIDE DEF asks
<1>5. \A i \in 1..n : R[i] = asks(s[i])
  OBVIOUS
<1> HIDE DEF R
<1>6. c = body(c)
  <2>1. PICK f : ClaimedTo(f, n, s, R, first)
    BY <1>1, ClaimsExist
  <2>2. f = body(f)
    <3>1. \A i \in 0..n : i # 0 => R[i] = asks(s[i])
      BY <1>1, <1>5
    <3>2. f = [i \in 0..n |-> IF i = 0 THEN first
                              ELSE IF s[i].file = <<>> THEN f[i - 1] ELSE Claim(f[i - 1], s[i], R[i])]
      BY <2>1 DEF ClaimedTo
    <3>3. \A i \in 0..n : f[i] = body(f)[i]
      BY <1>2, <3>1, <3>2
    <3>4. f = [i \in 0..n |-> f[i]] /\ body(f) = [i \in 0..n |-> body(f)[i]]
      BY <3>2
    <3> HIDE DEF body
    <3> QED
      BY <3>3, <3>4
  <2> HIDE DEF body
  <2> QED
    BY <2>2
<1> HIDE DEF c
<1>7. ClaimedBy(c, n, s, R, first)
  <2>1. c[0] = first
    BY <1>1, <1>6
  <2>2. ASSUME NEW i \in 1..n
        PROVE  c[i] = IF s[i].file = <<>> THEN c[i - 1] ELSE Claim(c[i - 1], s[i], R[i])
    <3>1. i \in 0..n /\ i # 0
      BY <1>1
    <3> QED
      BY <1>2, <1>5, <1>6, <3>1
  <2> QED
    BY <2>1, <2>2 DEF ClaimedBy
<1>8. Asking(s, n, R)
  BY <1>3, <1>5 DEF Asking
<1>9. ASSUME NEW i \in 1..n, s[i].file # <<>>
      PROVE  DeriveNearMisses(t, k, bounds, first)[i] = DeriveNearMiss(s[i], ToSet(k.bugs), LeftWith(c, s, R, i))
  <2>1. DeriveNearMisses(t, k, bounds, first)[i] = DeriveNearMiss(s[i], ToSet(k.bugs), Mine(c[i - 1], s[i], asks(s[i])))
    BY <1>1, <1>2, <1>4, <1>9
  <2> QED
    BY <1>5, <2>1 DEF LeftWith
<1> QED
  BY <1>2, <1>7, <1>8, <1>9 DEF NearMissesClaimed

LinesIn(r) == r.s..r.e

LEMMA LeftApart ==
  ASSUME NEW earlier, NEW e, NEW r, IsRange(r), NEW claimed,
         Claimable(earlier, VulnSide(e.file), r, e.id) => ClaimOf(e, r) \in claimed,
         NEW d, NEW q, IsRange(q), e.id # d.id, VulnSide(e.file) = VulnSide(d.file)
  PROVE  LinesIn(Mine(earlier, e, r)) \cap LinesIn(Mine(claimed, d, q)) = {}
<1>1. LinesIn(NoRange) = {}
  BY DEF LinesIn, NoRange
<1>2. CASE Claimable(earlier, VulnSide(e.file), r, e.id) /\ Claimable(claimed, VulnSide(d.file), q, d.id)
  <2>1. (r.s..r.e) \cap (q.s..q.e) = {}
    BY <1>2, RangesApart
  <2>2. Mine(earlier, e, r) = r /\ Mine(claimed, d, q) = q
    BY <1>2, Zenon DEF Mine
  <2> QED
    BY <2>1, <2>2 DEF LinesIn
<1>3. CASE ~Claimable(earlier, VulnSide(e.file), r, e.id)
  <2>1. Mine(earlier, e, r) = NoRange
    BY <1>3, Zenon DEF Mine
  <2> QED
    BY <1>1, <2>1
<1>4. CASE ~Claimable(claimed, VulnSide(d.file), q, d.id)
  <2>1. Mine(claimed, d, q) = NoRange
    BY <1>4, Zenon DEF Mine
  <2> QED
    BY <1>1, <2>1
<1> QED
  BY <1>2, <1>3, <1>4

\* Two entries of one list.
LEMMA ListApart ==
  ASSUME NEW n \in Nat, NEW s, NEW R, NEW first, NEW f, ClaimedBy(f, n, s, R, first), Asking(s, n, R),
         NEW i \in 1..n, NEW j \in 1..n, i < j, s[i].file # <<>>, s[i].id # s[j].id,
         VulnSide(s[i].file) = VulnSide(s[j].file)
  PROVE  LinesIn(LeftWith(f, s, R, i)) \cap LinesIn(LeftWith(f, s, R, j)) = {}
<1>1. IsRange(R[i]) /\ IsRange(R[j])
  BY DEF Asking
<1>2. j - 1 \in i..n
  OBVIOUS
<1>3. Claimable(f[i - 1], VulnSide(s[i].file), R[i], s[i].id) => ClaimOf(s[i], R[i]) \in f[j - 1]
  BY <1>2, ClaimStands DEF MayClaim
<1>4. LinesIn(Mine(f[i - 1], s[i], R[i])) \cap LinesIn(Mine(f[j - 1], s[j], R[j])) = {}
  BY <1>1, <1>3, LeftApart
<1> QED
  BY <1>4 DEF LeftWith

\* ... and of two lists, the claims of the second after those of the first.
LEMMA ListsApart ==
  ASSUME NEW n \in Nat, NEW s, NEW R, NEW f, ClaimedBy(f, n, s, R, {}), Asking(s, n, R), NEW i \in 1..n,
         NEW m \in Nat, NEW u, NEW Q, NEW g, ClaimedBy(g, m, u, Q, f[n]), Asking(u, m, Q), NEW j \in 1..m,
         s[i].file # <<>>, s[i].id # u[j].id, VulnSide(s[i].file) = VulnSide(u[j].file)
  PROVE  LinesIn(LeftWith(f, s, R, i)) \cap LinesIn(LeftWith(g, u, Q, j)) = {}
<1>1. IsRange(R[i]) /\ IsRange(Q[j])
  BY DEF Asking
<1>2. f[n] \subseteq g[j - 1]
  <2>1. g[0] = f[n]
    BY DEF ClaimedBy
  <2>2. g[0] \subseteq g[j - 1]
    <3>1. 0 \in 0..m /\ j - 1 \in 0..m
      OBVIOUS
    <3> QED
      BY <3>1, ClaimsGrow
  <2> QED
    BY <2>1, <2>2
<1>3. Claimable(f[i - 1], VulnSide(s[i].file), R[i], s[i].id) => ClaimOf(s[i], R[i]) \in g[j - 1]
  <2>1. n \in i..n
    OBVIOUS
  <2>2. Claimable(f[i - 1], VulnSide(s[i].file), R[i], s[i].id) => ClaimOf(s[i], R[i]) \in f[n]
    BY <2>1, ClaimStands DEF MayClaim
  <2> QED
    BY <1>2, <2>2
<1>4. LinesIn(Mine(f[i - 1], s[i], R[i])) \cap LinesIn(Mine(g[j - 1], u[j], Q[j])) = {}
  BY <1>1, <1>3, LeftApart
<1> QED
  BY <1>4 DEF LeftWith

\* The lines of an entry that derive-match leaves as it is are those it is left with.
LEMMA BugLines ==
  ASSUME NEW e, "match" \in DOMAIN e, NEW r, e = DeriveOne(e, r), e.file # <<>>, NEW a \in e.match.file
  PROVE  a.lines = LinesIn(r)
<1>1. e.match = Block(e, ParseRoute(e.route), r)
  <2>1. DeriveOne(e, r).match = Block(e, ParseRoute(e.route), r)
    BY DEF DeriveOne
  <2> QED
    BY <2>1
<1>2. Block(e, ParseRoute(e.route), r).file = {FileAnchor(e, r)}
  BY DEF Block, NoAnchors
<1>3. a = FileAnchor(e, r)
  BY <1>1, <1>2
<1> QED
  BY <1>3 DEF FileAnchor, LinesIn

LEMMA NearMissLines ==
  ASSUME NEW e, "match" \in DOMAIN e, NEW bugs, NEW r, e = DeriveNearMiss(e, bugs, r), NEW a \in e.match.file
  PROVE  a.lines = LinesIn(r)
<1>1. DeriveNearMiss(e, bugs, r).match.file = {FileAnchor(e, r)}
  <2>1. "file" \in DOMAIN NoAnchors
    BY DEF NoAnchors
  <2> QED
    BY <2>1 DEF DeriveNearMiss
<1>2. a = FileAnchor(e, r)
  BY <1>1
<1> QED
  BY <1>2 DEF FileAnchor, LinesIn

HaveMatch(s) == IsList(s) /\ \A i \in DOMAIN s : "match" \in DOMAIN s[i]

LEMMA DerivedHaveOneOwner ==
  ASSUME NEW t, IsTree(t), NEW k, HaveMatch(k.bugs), HaveMatch(k.nms), DeriveMatch(t, k) = k
  PROVE  \A x, y \in ToSet(k.bugs) \cup ToSet(k.nms) : OneOwner(x, y)
<1> DEFINE bounds == AnchorBoundaries(t, ToSet(k.bugs), ToSet(k.nms))
           B == DeriveBugs(t, k, bounds)
<1>1. k.bugs = B.out /\ k.nms = DeriveNearMisses(t, k, bounds, B.claimed)
  <2>1. DeriveMatch(t, k).bugs = B.out /\ DeriveMatch(t, k).nms = DeriveNearMisses(t, k, bounds, B.claimed)
    BY DEF DeriveMatch, WithBounds, WithNearMisses, KeyOf
  <2> QED
    BY <2>1
<1>2. \A b \in bounds : b[2] \in Nat
  BY BoundsAreLines
<1> HIDE DEF bounds
<1>3. PICK n, m : n = Len(k.bugs) /\ m = Len(k.nms)
  OBVIOUS
<1>4. /\ n \in Nat /\ DOMAIN k.bugs = 1..n /\ \A i \in 1..n : "match" \in DOMAIN k.bugs[i]
      /\ m \in Nat /\ DOMAIN k.nms = 1..m /\ \A i \in 1..m : "match" \in DOMAIN k.nms[i]
  BY <1>3, ListIs DEF HaveMatch
<1>5. PICK f, R : /\ ClaimedBy(f, n, k.bugs, R, {}) /\ Asking(k.bugs, n, R) /\ B.claimed = f[n]
                  /\ \A i \in 1..n : B.out[i] = DeriveOne(k.bugs[i], LeftWith(f, k.bugs, R, i))
  <2>1. IsList(k.bugs)
    BY DEF HaveMatch
  <2>2. BugsClaimed(t, k, bounds, n)
    BY <1>2, <1>3, <2>1, BugsClaim
  <2> QED
    BY <2>2 DEF BugsClaimed
<1>6. PICK g, Q : /\ ClaimedBy(g, m, k.nms, Q, f[n]) /\ Asking(k.nms, m, Q)
                  /\ \A i \in 1..m : k.nms[i].file # <<>> =>
                       DeriveNearMisses(t, k, bounds, f[n])[i] =
                         DeriveNearMiss(k.nms[i], ToSet(k.bugs), LeftWith(g, k.nms, Q, i))
  <2>1. IsList(k.nms)
    BY DEF HaveMatch
  <2>2. NearMissesClaimed(t, k, bounds, m, f[n])
    BY <1>2, <1>3, <2>1, NearMissesClaim
  <2> QED
    BY <2>2, Zenon DEF NearMissesClaimed
<1>7. ASSUME NEW i \in 1..n, k.bugs[i].file # <<>>, NEW a \in k.bugs[i].match.file
      PROVE  a.lines = LinesIn(LeftWith(f, k.bugs, R, i))
  <2>1. k.bugs[i] = DeriveOne(k.bugs[i], LeftWith(f, k.bugs, R, i))
    BY <1>1, <1>5
  <2> QED
    BY <1>4, <1>7, <2>1, BugLines
<1>8. ASSUME NEW i \in 1..m, k.nms[i].file # <<>>, NEW a \in k.nms[i].match.file
      PROVE  a.lines = LinesIn(LeftWith(g, k.nms, Q, i))
  <2>1. k.nms[i] = DeriveNearMiss(k.nms[i], ToSet(k.bugs), LeftWith(g, k.nms, Q, i))
    BY <1>1, <1>5, <1>6, <1>8
  <2> QED
    BY <1>4, <1>8, <2>1, NearMissLines
<1> HIDE DEF B
<1>9. ASSUME NEW i \in 1..n, NEW j \in 1..n PROVE OneOwner(k.bugs[i], k.bugs[j])
  <2> SUFFICES ASSUME k.bugs[i].id # k.bugs[j].id, k.bugs[i].file # <<>>, k.bugs[j].file # <<>>,
                      VulnSide(k.bugs[i].file) = VulnSide(k.bugs[j].file),
                      NEW a \in k.bugs[i].match.file, NEW b \in k.bugs[j].match.file
               PROVE  a.lines \cap b.lines = {}
    BY Zenon DEF OneOwner
  <2>1. a.lines = LinesIn(LeftWith(f, k.bugs, R, i)) /\ b.lines = LinesIn(LeftWith(f, k.bugs, R, j))
    BY <1>7
  <2>2. i < j \/ j < i
    OBVIOUS
  <2>3. CASE i < j
    BY <1>4, <1>5, <2>1, <2>3, ListApart
  <2>4. CASE j < i
    <3>1. LinesIn(LeftWith(f, k.bugs, R, j)) \cap LinesIn(LeftWith(f, k.bugs, R, i)) = {}
      BY <1>4, <1>5, <2>4, ListApart
    <3> QED
      BY <2>1, <3>1
  <2> QED
    BY <2>2, <2>3, <2>4
<1>10. ASSUME NEW i \in 1..m, NEW j \in 1..m PROVE OneOwner(k.nms[i], k.nms[j])
  <2> SUFFICES ASSUME k.nms[i].id # k.nms[j].id, k.nms[i].file # <<>>, k.nms[j].file # <<>>,
                      VulnSide(k.nms[i].file) = VulnSide(k.nms[j].file),
                      NEW a \in k.nms[i].match.file, NEW b \in k.nms[j].match.file
               PROVE  a.lines \cap b.lines = {}
    BY Zenon DEF OneOwner
  <2>1. a.lines = LinesIn(LeftWith(g, k.nms, Q, i)) /\ b.lines = LinesIn(LeftWith(g, k.nms, Q, j))
    BY <1>8
  <2>2. i < j \/ j < i
    OBVIOUS
  <2>3. CASE i < j
    BY <1>4, <1>6, <2>1, <2>3, ListApart
  <2>4. CASE j < i
    <3>1. LinesIn(LeftWith(g, k.nms, Q, j)) \cap LinesIn(LeftWith(g, k.nms, Q, i)) = {}
      BY <1>4, <1>6, <2>4, ListApart
    <3> QED
      BY <2>1, <3>1
  <2> QED
    BY <2>2, <2>3, <2>4
<1>11. ASSUME NEW i \in 1..n, NEW j \in 1..m
       PROVE  OneOwner(k.bugs[i], k.nms[j]) /\ OneOwner(k.nms[j], k.bugs[i])
  <2> SUFFICES ASSUME k.bugs[i].id # k.nms[j].id, k.bugs[i].file # <<>>, k.nms[j].file # <<>>,
                      VulnSide(k.bugs[i].file) = VulnSide(k.nms[j].file),
                      NEW a \in k.bugs[i].match.file, NEW b \in k.nms[j].match.file
               PROVE  a.lines \cap b.lines = {} /\ b.lines \cap a.lines = {}
    BY Zenon DEF OneOwner
  <2>1. a.lines = LinesIn(LeftWith(f, k.bugs, R, i)) /\ b.lines = LinesIn(LeftWith(g, k.nms, Q, j))
    BY <1>7, <1>8
  <2>2. LinesIn(LeftWith(f, k.bugs, R, i)) \cap LinesIn(LeftWith(g, k.nms, Q, j)) = {}
    BY <1>4, <1>5, <1>6, ListsApart
  <2> QED
    BY <2>1, <2>2
<1>12. ASSUME NEW x \in ToSet(k.bugs) \cup ToSet(k.nms)
       PROVE  (\E i \in 1..n : x = k.bugs[i]) \/ (\E i \in 1..m : x = k.nms[i])
  BY <1>4 DEF ToSet
<1> QED
  BY <1>9, <1>10, <1>11, <1>12

LEMMA DerivedNearMisses ==
  ASSUME NEW t, NEW k, HaveMatch(k.nms)
  PROVE  "nms" \in DOMAIN DeriveMatch(t, k) /\ HaveMatch(DeriveMatch(t, k).nms)
<1> DEFINE bounds == AnchorBoundaries(t, ToSet(k.bugs), ToSet(k.nms))
           out == DeriveNearMisses(t, k, bounds, DeriveBugs(t, k, bounds).claimed)
<1>1. "nms" \in DOMAIN DeriveMatch(t, k) /\ DeriveMatch(t, k).nms = out
  BY DEF DeriveMatch, WithBounds, WithNearMisses, KeyOf
<1>2. /\ out = [i \in DOMAIN k.nms |-> out[i]]
      /\ \A i \in DOMAIN k.nms : \/ out[i] = [k.nms[i] EXCEPT !.match = NoAnchors]
                                 \/ \E r : out[i] = DeriveNearMiss(k.nms[i], ToSet(k.bugs), r)
  BY DEF DeriveNearMisses
<1>3. \A e, bugs, r : DOMAIN DeriveNearMiss(e, bugs, r) = DOMAIN e
  BY DEF DeriveNearMiss
<1> HIDE DEF out
<1>4. IsList(out) /\ DOMAIN out = DOMAIN k.nms
  BY <1>2, MappedIsList DEF HaveMatch
<1>5. ASSUME NEW i \in DOMAIN out PROVE "match" \in DOMAIN out[i]
  <2>1. i \in DOMAIN k.nms /\ "match" \in DOMAIN k.nms[i]
    BY <1>4 DEF HaveMatch
  <2>2. CASE out[i] = [k.nms[i] EXCEPT !.match = NoAnchors]
    <3>1. DOMAIN [k.nms[i] EXCEPT !.match = NoAnchors] = DOMAIN k.nms[i]
      OBVIOUS
    <3> QED
      BY <2>1, <2>2, <3>1
  <2>3. CASE \E r : out[i] = DeriveNearMiss(k.nms[i], ToSet(k.bugs), r)
    BY <1>3, <2>1, <2>3
  <2> QED
    BY <1>2, <2>1, <2>2, <2>3
<1> QED
  BY <1>1, <1>4, <1>5 DEF HaveMatch

KeyIsKey == {"bugs", "nms"} \subseteq DOMAIN key /\ AreEntries(key.bugs) /\ HaveMatch(key.nms) /\ IsTree(tree)

\* For every app, source and key, whatever is edited and derived before: a line of the
\* source is one entry's at most when make check is green (derive-match.ts, claim), so
\* that a finding on it has one owner.  Entries and source are lists where the code loops
\* over them.
THEOREM GreenLinesHaveOneOwner ==
  ASSUME {"bugs", "nms"} \subseteq DOMAIN FirstKey, AreEntries(FirstKey.bugs), HaveMatch(FirstKey.nms),
         AreEntries(Bugs), \A t \in Trees : IsTree(t)
  PROVE  ASpec => []GreenLinesApart
<1>1. AInit => KeyIsKey
  BY DEF AInit, KeyIsKey
<1>2. KeyIsKey /\ [ANext]_avars => KeyIsKey'
  <2> SUFFICES ASSUME KeyIsKey, [ANext]_avars PROVE KeyIsKey'
    OBVIOUS
  <2>1. CASE UNCHANGED <<tree, key>>
    BY <2>1, Zenon DEF KeyIsKey
  <2>2. CASE EditSource
    BY <2>2 DEF EditSource, KeyIsKey
  <2>3. CASE Plant
    <3>1. PICK b \in ToSet(Bugs) : key' = [key EXCEPT !.bugs = Among(Bugs, {x \in ToSet(Bugs) : x.id = b.id}) \o @]
      BY <2>3, Zenon DEF Plant
    <3>2. tree' = tree
      BY <2>3 DEF Plant
    <3>3. /\ DOMAIN key' = DOMAIN key /\ key'.nms = key.nms
          /\ key'.bugs = Among(Bugs, {x \in ToSet(Bugs) : x.id = b.id}) \o key.bugs
      BY <3>1 DEF KeyIsKey
    <3>4. AreEntries(key'.bugs)
      BY <3>3, PlantedAreEntries DEF KeyIsKey
    <3> QED
      BY <3>2, <3>3, <3>4 DEF KeyIsKey
  <2>4. CASE Unplant
    <3>1. PICK i \in DOMAIN key.bugs : key' = [key EXCEPT !.bugs = RemoveAt(@, i)]
      BY <2>4, Zenon DEF Unplant
    <3>2. tree' = tree
      BY <2>4 DEF Unplant
    <3>3. DOMAIN key' = DOMAIN key /\ key'.nms = key.nms /\ key'.bugs = RemoveAt(key.bugs, i)
      BY <3>1 DEF KeyIsKey
    <3>4. AreEntries(key'.bugs)
      BY <3>3, RemovedAreEntries DEF KeyIsKey
    <3> QED
      BY <3>2, <3>3, <3>4 DEF KeyIsKey
  <2>5. CASE AddOperation \/ MapBug \/ SetTier \/ WriteSurface \/ Check
    <3>1. UNCHANGED <<tree, key>>
      BY <2>5, Zenon DEF AddOperation, MapBug, SetTier, WriteSurface, Check
    <3> QED
      BY <2>1, <3>1
  <2>6. CASE WriteMatch
    <3>1. key' = DeriveMatch(tree, key) /\ tree' = tree
      BY <2>6 DEF WriteMatch
    <3>2. "bugs" \in DOMAIN key' /\ AreEntries(key'.bugs) /\ "nms" \in DOMAIN key' /\ HaveMatch(key'.nms)
      BY <3>1, DerivedKeyIsKey, DerivedNearMisses DEF KeyIsKey
    <3> QED
      BY <3>1, <3>2 DEF KeyIsKey
  <2>7. CASE UNCHANGED avars
    BY <2>1, <2>7, Zenon DEF avars
  <2> QED
    BY <2>2, <2>3, <2>4, <2>5, <2>6, <2>7, Zenon DEF ANext
<1>3. KeyIsKey /\ GreenIsGreen => GreenLinesApart
  <2> SUFFICES ASSUME KeyIsKey, GreenIsGreen, checked = "green"
               PROVE  \A x, y \in ToSet(key.bugs) \cup ToSet(key.nms) : OneOwner(x, y)
    BY Zenon DEF GreenLinesApart
  <2>1. DeriveMatch(tree, key) = key
    BY Zenon DEF GreenIsGreen, Green
  <2>2. HaveMatch(key.bugs) /\ HaveMatch(key.nms) /\ IsTree(tree)
    BY DEF KeyIsKey, AreEntries, IsEntry, HaveMatch, Holds
  <2> QED
    BY <2>1, <2>2, DerivedHaveOneOwner
<1> QED
  BY <1>1, <1>2, <1>3, StaysGreen, PTL DEF ASpec
=============================================================================
