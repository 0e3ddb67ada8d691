-------------------------------- MODULE Derive --------------------------------
(***************************************************************************)
(* derive-match (tools/derive-match.ts, src/twin-diff.ts): the anchors of  *)
(* an answer key - where each bug and each near-miss is - worked out from  *)
(* the source of the two twins.                                            *)
(*                                                                         *)
(* A tree is the sequence of the vulnerable twin's files in walk order,    *)
(* [path, lines].  A line is [tags, toks, def, d]: the ids its VULN        *)
(* comment names, the tokens it contains, whether it looks like a          *)
(* definition, and what diff says of it: "same", "changed" (replaced or    *)
(* removed by the patched twin), "followed" by lines only that twin has,   *)
(* or, of the first line, "preceded" by them.  A symbol is the sequence of its words, [w, n, member]: n letters *)
(* long, part of the last component or not.                                *)
(***************************************************************************)
EXTENDS Pair

CONSTANTS
  GenericSymbols,      \* words that tell nothing
  GenericRouteTokens,
  MaxBodySpan          \* MAX_BODY_SPAN

ASSUME MaxBodySpanAssumption == MaxBodySpan \in Nat

VulnSide(p) == IF p # <<>> /\ p[1] = Lit("safe") THEN <<Lit("vuln")>> \o Tail(p) ELSE p

LinesOf(tree, p) ==
  LET i == SelectInSeq(tree, LAMBDA f : f.path = VulnSide(p)) IN IF i = 0 THEN <<>> ELSE tree[i].lines

-----------------------------------------------------------------------------
(* The diff: the vulnerable side's ranges [s, e]. *)

ChangedRuns(lines) ==
  {[s |-> r[1], e |-> r[2]] : r \in {x \in (DOMAIN lines) \X (DOMAIN lines) :
     /\ x[1] <= x[2] /\ \A i \in x[1]..x[2] : lines[i].d = "changed"
     /\ \A i \in {x[1] - 1, x[2] + 1} \cap DOMAIN lines : lines[i].d # "changed"}}

\* A pure insertion is anchored on the line it follows, one before the first line on that.
Insertions(lines) ==
  {[s |-> i, e |-> i + 1] : i \in {j \in DOMAIN lines : lines[j].d = "followed"}}
  \cup {[s |-> i, e |-> i] : i \in {j \in DOMAIN lines : j = 1 /\ lines[j].d = "preceded"}}

Hunks(lines) == ChangedRuns(lines) \cup Insertions(lines)

InHunk(hs, i) == \E h \in hs : i \in h.s..h.e

-----------------------------------------------------------------------------
(* Where an entry starts. *)

\* The telling words of a symbol or a route; the first is the most specific: of the last
\* component, then the longest, then as written.
Telling(ws, generic) == {i \in DOMAIN ws : ws[i].n >= 4 /\ ws[i].w \notin generic}
Rarer(ws, i, j) ==
  LET r(k) == <<IF ws[k].member THEN 0 ELSE 1, -ws[k].n, k>>  a == r(i)  b == r(j) IN
  a[1] < b[1] \/ (a[1] = b[1] /\ (a[2] < b[2] \/ (a[2] = b[2] /\ a[3] <= b[3])))
Token(ws, generic) ==
  LET t == Telling(ws, generic) IN
  IF t = {} THEN "" ELSE ws[CHOOSE i \in t : \A j \in t : Rarer(ws, i, j)].w

\* The first line of the tree tagged with an id, files in walk order.
NoTag == [path |-> <<>>, line |-> 0]
TagOf(tree, id) ==
  LET tagged(f) == {i \in DOMAIN f.lines : id \in f.lines[i].tags}
      at == SelectInSeq(tree, LAMBDA f : tagged(f) # {}) IN
  IF at = 0 THEN NoTag ELSE [path |-> tree[at].path, line |-> Min(tagged(tree[at]))]

\* The line a token's definition is at, or the best guess.
SymbolLine(lines, token) ==
  LET hits == {i \in DOMAIN lines : token # "" /\ token \in lines[i].toks}
      defs == {i \in hits : lines[i].def}
      diff == {i \in hits : InHunk(Hunks(lines), i)} IN
  IF hits = {} THEN 0
  ELSE Min(IF Cardinality(hits) = 1 THEN hits ELSE IF defs # {} THEN defs ELSE IF diff # {} THEN diff ELSE hits)

\* 0 is nowhere.
AnchorLine(tree, e, p) ==
  LET tag == TagOf(tree, e.id) IN
  IF tag.line > 0 /\ tag.path = p THEN tag.line
  ELSE SymbolLine(LinesOf(tree, p), Token(e.symbol, GenericSymbols))

AnchorBoundaries(tree, bugs, nms) ==
  {b \in {<<VulnSide(e.file), AnchorLine(tree, e, e.file)>> : e \in {x \in bugs \cup nms : x.file # <<>>}} :
     b[2] > 0}

BodyEnd(tree, p, start, bounds) ==
  LET eof  == Max({1, Len(LinesOf(tree, p))})
      cap  == Min({start + MaxBodySpan, eof})
      next == {b[2] : b \in {c \in bounds : c[1] = VulnSide(p) /\ c[2] > start}} IN
  IF next = {} THEN cap ELSE Max({start, Min({Min(next) - 1, cap})})

-----------------------------------------------------------------------------
(* Line ranges.  Nowhere to point at is the empty range. *)

NoRange == [s |-> 0, e |-> -1]
Body(tree, e, bounds) ==
  LET at == AnchorLine(tree, e, e.file) IN
  IF at = 0 THEN NoRange ELSE [s |-> at, e |-> BodyEnd(tree, e.file, at, bounds)]

\* What the diff leaves: all of it for the only bug of a file, else the one hunk that
\* holds a token of the route.
ByDiff(lines, hunks, alone, words) ==
  LET named == {h \in hunks : \E i \in Telling(words, GenericRouteTokens), l \in h.s..h.e :
                                l \in DOMAIN lines /\ words[i].w \in lines[l].toks} IN
  IF hunks = {} THEN NoRange
  ELSE IF alone THEN [s |-> Min({h.s : h \in hunks}), e |-> Max({h.e : h \in hunks})]
  ELSE IF Cardinality(named) = 1 THEN CHOOSE h \in named : TRUE ELSE NoRange

BugRange(tree, e, alone, bounds) ==
  LET body == Body(tree, e, bounds)  lines == LinesOf(tree, e.file) IN
  IF body # NoRange THEN body ELSE ByDiff(lines, Hunks(lines), alone, e.routeWords)

Overlaps(c, file, r) == c.file = file /\ r.s <= c.e /\ r.e >= c.s

\* Mutant: the first to claim a line is not asked.
Claimable_Any(claimed, file, r, id) == r # NoRange

\* A range is claimed unless it overlaps another entry's in the file.
Claimable(claimed, file, r, id) ==
  r # NoRange /\ \A c \in claimed : c.owner = id \/ ~Overlaps(c, file, r)

Claim(claimed, e, r) ==
  IF Claimable(claimed, VulnSide(e.file), r, e.id)
  THEN claimed \cup {[file |-> VulnSide(e.file), s |-> r.s, e |-> r.e, owner |-> e.id]} ELSE claimed

-----------------------------------------------------------------------------
(* match: blocks.  An entry is [id, cwe, family, aliases, route, routeWords, *)
(* host, proto, symbol, file, quoted, gql, ws, llm, match, ...].             *)

Words(ws) == {ws[i].w : i \in DOMAIN ws}

\* A second endpoint keeps the verb written in front of it where that is not the first's.
Alternates(route, primary) ==
  LET steps == RouteSteps(route)
      alt(s) == [method |-> IF s.m # NoVerb /\ s.m # primary.method THEN s.m ELSE NoVerb,
                 path |-> HttpKeyFromUrl(s.u, NoVerb).path]
      told(i) == alt(steps[i]) \in {alt(steps[j]) : j \in 1..(i - 1)} \cup {[method |-> NoVerb, path |-> primary.path]}
      new == Among([i \in DOMAIN steps |-> i], {i \in DOMAIN steps : ~told(i)}) IN
  [n \in DOMAIN new |-> alt(steps[new[n]])]

NetOf(e, parsed) ==
  IF parsed.net # {} THEN parsed.net
  ELSE IF e.host = <<>> THEN {} ELSE {[host |-> e.host, port |-> e.port, proto |-> e.proto, state |-> ""]}

\* What a PoC greps for: its quoted strings that read like a proof.
MarkersFromPoc(quoted) == {q.text : q \in {x \in quoted : x.proof /\ ~x.pattern}}

FileAnchor(e, r) == [path |-> e.file, symbol |-> Words(e.symbol), lines |-> r.s..r.e]

\* The block of one entry whose range, claimed, is r.
Block(e, parsed, r) ==
  [NoAnchors EXCEPT
     !.http = SetToSeq(parsed.http),
     !.alts = IF parsed.http = {} THEN <<>> ELSE Alternates(e.route, CHOOSE k \in parsed.http : TRUE),
     !.net  = NetOf(e, parsed),
     !.file = IF e.file = <<>> THEN {} ELSE {FileAnchor(e, r)},
     !.gql  = e.gql, !.ws = e.ws, !.llm = e.llm,
     !.markers = MarkersFromPoc(e.quoted)]

\* A CWE of no family is a family of its own, which no other CWE has: one name for them all.
DeriveOne(e, r) ==
  [e EXCEPT !.match = Block(e, ParseRoute(e.route), r),
            !.family = IF CweFamily(e.cwe) = NoFamily THEN "unclassified" ELSE NoFamily]

\* The route a near-miss's own file is served at, by the frameworks' conventions.
Groups(p) == \E i \in DOMAIN p : p[i].k = "group"
RouteFromPath(p) ==
  LET q == NoVariant(p)
      under(d) == IsPrefix(d, q) /\ Len(q) > Len(d)
      tail(d)  == SubSeq(q, Len(d) + 1, Len(q))
      route == CASE under(<<Lit("src"), Lit("app")>>) /\ q[Len(q)] \in {Lit("route.ts"), Lit("page.ts")} ->
                      {Front(tail(<<Lit("src"), Lit("app")>>))}
                 [] under(<<Lit("public")>>) -> {tail(<<Lit("public")>>)}
                 [] OTHER -> {} IN
  {IF r = <<>> THEN <<Empty>> ELSE r : r \in {x \in route : ~Groups(x)}}

\* ... not where a bug lives in the file or owns the route.
GuessedRoute(nm, bugs) ==
  LET owned == {FoldCase(TemplatePath(k.path)) : k \in UNION {ParseRoute(b.route).http : b \in bugs}} IN
  IF \E b \in bugs : NoVariant(b.file) = NoVariant(nm.file) THEN {}
  ELSE {r \in RouteFromPath(nm.file) : FoldCase(TemplatePath(r)) \notin owned}

DeriveNearMiss(nm, bugs, r) ==
  LET declared == ParseRoute(nm.route).http
      http == IF declared # {}
              THEN {[HttpKeyFromUrl(PathUrl(k.path), k.method) EXCEPT !.params = k.params] : k \in declared}
              ELSE {HttpKeyFromUrl(PathUrl(p), NoVerb) : p \in GuessedRoute(nm, bugs)} IN
  [nm EXCEPT !.match = [NoAnchors EXCEPT !.http = SetToSeq(http), !.file = {FileAnchor(nm, r)}]]

-----------------------------------------------------------------------------
(* A key is [bugs, nms, incs], each a sequence of entries.  Bugs claim       *)
(* their lines first, in order; incidental entries never do.                 *)

Alone(key, e) == Cardinality({i \in DOMAIN key.bugs : key.bugs[i].file = e.file}) = 1

\* The range an entry is left with once it has asked for r.
Mine(claimed, e, r) == IF Claimable(claimed, VulnSide(e.file), r, e.id) THEN r ELSE NoRange

\* The claims after each of the entries, given the range each asks for.
Claims(entries, range(_), claimed) ==
  LET after[i \in 0..Len(entries)] ==
        IF i = 0 THEN claimed
        ELSE IF entries[i].file = <<>> THEN after[i - 1]
        ELSE Claim(after[i - 1], entries[i], range(entries[i])) IN
  after

DeriveBugs(tree, key, bounds) ==
  LET range(e) == BugRange(tree, e, Alone(key, e), bounds)
      claims == Claims(key.bugs, range, {}) IN
  [claimed |-> claims[Len(key.bugs)],
   out |-> [i \in DOMAIN key.bugs |-> DeriveOne(key.bugs[i], Mine(claims[i - 1], key.bugs[i], range(key.bugs[i])))]]

\* A near-miss without a path loses what it had.
DeriveNearMisses(tree, key, bounds, claimed) ==
  LET range(e) == Body(tree, e, bounds)
      claims == Claims(key.nms, range, claimed) IN
  [i \in DOMAIN key.nms |->
     LET nm == key.nms[i] IN
     IF nm.file = <<>> THEN [nm EXCEPT !.match = NoAnchors]
     ELSE DeriveNearMiss(nm, ToSet(key.bugs), Mine(claims[i - 1], nm, range(nm)))]

KeyOf(bugs, nms, incs) == [bugs |-> bugs, nms |-> nms, incs |-> incs]

WithNearMisses(tree, key, bounds, bugs) ==
  KeyOf(bugs.out, DeriveNearMisses(tree, key, bounds, bugs.claimed),
        [i \in DOMAIN key.incs |-> DeriveOne(key.incs[i], NoRange)])

WithBounds(tree, key, bounds) == WithNearMisses(tree, key, bounds, DeriveBugs(tree, key, bounds))

\* derive-match of one app: the key with every match: block worked out anew.
DeriveMatch(tree, key) ==
  WithBounds(tree, key, AnchorBoundaries(tree, ToSet(key.bugs), ToSet(key.nms)))
=============================================================================
