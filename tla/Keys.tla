--------------------------------- MODULE Keys ---------------------------------
(***************************************************************************)
(* Canonical keys (src/schema/keys.ts): what a report and an answer key    *)
(* write about a place, reduced to things that can be compared.            *)
(*                                                                         *)
(* A path is a sequence of segments.  A segment is a literal (with a name, *)
(* and whether it is written in upper case), something id-shaped, a        *)
(* placeholder ({org}, :slug, <t>, [id]), a glob, or nothing: a trailing   *)
(* slash is an empty last segment and "/" is one empty segment.            *)
(***************************************************************************)
EXTENDS Integers, SequencesExt

Lit(n)   == [k |-> "lit", n |-> n, up |-> FALSE]
Upper(n) == [k |-> "lit", n |-> n, up |-> TRUE]
IdSeg(n) == [k |-> "id",  n |-> n, up |-> FALSE]     \* 7, a uuid, ...
Ph       == [k |-> "ph",  n |-> "", up |-> FALSE]    \* a placeholder
Star     == [k |-> "star", n |-> "", up |-> FALSE]   \* * : within one segment
Deep     == [k |-> "deep", n |-> "", up |-> FALSE]   \* ** : whatever follows
Empty    == Lit("")
Id       == [k |-> "id",  n |-> "", up |-> FALSE]    \* the {id} of a templated path

\* What a loop that passes over the others goes through.
Among(results, taken) == FlattenSeq([i \in DOMAIN results |-> IF results[i] \in taken THEN <<results[i]>> ELSE <<>>])

-----------------------------------------------------------------------------
(* Paths. *)

TemplateSegment(s) == IF s.k \in {"ph", "id"} THEN Id ELSE s
TemplatePath(p)    == [i \in DOMAIN p |-> TemplateSegment(p[i])]

FoldCase(p)   == [i \in DOMAIN p |-> [p[i] EXCEPT !.up = FALSE]]
DropSlash(p)  == IF Len(p) > 1 /\ p[Len(p)] = Empty THEN SubSeq(p, 1, Len(p) - 1) ELSE p

\* Mutant: the strict pass folds case as well.
PathKeyStrict_Folds(p) == FoldCase(TemplatePath(p))

PathKeyStrict(p) == TemplatePath(p)
PathKeyLoose(p)  == DropSlash(FoldCase(TemplatePath(p)))
PathKey(p, loose) == IF loose THEN PathKeyLoose(p) ELSE PathKeyStrict(p)

\* One segment of a pattern against one of a path; a globbed segment may be empty.
SegmentFits(w, g) == w.k = "star" \/ (w.k = "open" /\ g # Empty) \/ w = g

\* A pattern against a path; ** stands at the end of a pattern only.
Fits(want, got) ==
  LET deep == want # <<>> /\ want[Len(want)].k = "deep"
      n    == IF deep THEN Len(want) - 1 ELSE Len(want) IN
  /\ IF deep THEN Len(got) > n ELSE Len(got) = n
  /\ \A i \in 1..n : SegmentFits(want[i], got[i])

\* computePlaceholderRegex: the key path as it was written, its placeholders opened up.
PlaceholderPattern(p, loose) ==
  [i \in DOMAIN PathKey(p, loose) |->
     IF p[i].k = "ph" THEN [k |-> "open", n |-> "", up |-> FALSE] ELSE PathKey(p, loose)[i]]

\* How a found path lines up with a key's.
PathMatch(gt, found, loose) ==
  LET got == PathKey(found, loose) IN
  IF Fits(PathKey(gt, loose), got) THEN "exact"
  ELSE IF (\E i \in DOMAIN gt : gt[i].k = "ph") /\ Fits(PlaceholderPattern(gt, loose), got) THEN "param"
  ELSE "none"

\* Mutant: a parameter takes whatever path is left.
RoutedPathMatch_NoRouter(gt, found, loose, routes) == PathMatch(gt, found, loose)

\* ... with a router's precedence: a static route beats a parameter.
RoutedPathMatch(gt, found, loose, routes) ==
  LET hit == PathMatch(gt, found, loose) IN
  IF hit = "param" /\ \E r \in routes : PathMatch(r, found, loose) = "exact" THEN "none" ELSE hit

-----------------------------------------------------------------------------
(* URLs and routes.  A URL is what is written before its "#": an authority  *)
(* or none, a path or none, and the parts of its query in order.            *)

NoPort == 0
NoVerb == "none"

\* Of two parts with one name the later value wins; a part without a value is a parameter.
SplitQuery(parts) ==
  [query  |-> {<<parts[i].name, parts[i].value>> : i \in
                 {j \in DOMAIN parts : parts[j].value # ""
                    /\ \A l \in DOMAIN parts : l > j /\ parts[l].name = parts[j].name => parts[l].value = ""}},
   params |-> {parts[i].name : i \in {j \in DOMAIN parts : parts[j].value = ""}}]

HttpKeyFromUrl(u, method) ==
  [method |-> method,
   path   |-> IF u.path = <<>> THEN <<Empty>> ELSE u.path,
   port   |-> IF u.scheme THEN u.port ELSE NoPort,
   query  |-> SplitQuery(u.parts).query,
   params |-> SplitQuery(u.parts).params,
   headers |-> {}]

PathUrl(p) == [scheme |-> FALSE, port |-> NoPort, path |-> p, parts |-> <<>>]

(* A human route: its words [t, m, u], each a verb (m), a pair of verbs, a  *)
(* path or an absolute URL (u), or neither; host:port/proto is one word     *)
(* (u is the anchor); and the headers a (header: ...) parenthetical names.  *)

NoRoute == [http |-> {}, net |-> {}]

FirstPath(ws) ==
  LET at == SelectInSeq(ws, LAMBDA w : w.t = "path") IN IF at = 0 THEN {} ELSE {ws[at]}

ParseRoute(r) ==
  LET ws     == r.words
      verbed == Len(ws) > 1 /\ ws[1].t \in {"verb", "verbs"}
      method == IF verbed /\ ws[1].t = "verb" THEN ws[1].m ELSE NoVerb
      target == IF verbed THEN Tail(ws) ELSE ws
      key(w) == [HttpKeyFromUrl(w.u, method) EXCEPT !.headers = r.headers] IN
  IF ws = <<>> THEN NoRoute
  ELSE IF ws[1].t = "net" THEN [http |-> {}, net |-> {ws[1].u}]
  ELSE IF target[1].t = "url" THEN [http |-> {key(target[1])}, net |-> {}]
  ELSE [http |-> {key(w) : w \in FirstPath(target)}, net |-> {}]

\* Every path of a route, with the verb written right in front of it.
RouteSteps(r) ==
  LET steps == [i \in DOMAIN r.words |-> [r.words[i] EXCEPT
                  !.m = IF i > 1 /\ r.words[i - 1].t = "verb" THEN r.words[i - 1].m ELSE NoVerb]]
  IN  Among(steps, {w \in ToSet(steps) : w.t = "path"})

\* An http_alt entry: [method, path], the verb NoVerb unless it is pinned.
AltKey(alt, primary) ==
  HttpKeyFromUrl(PathUrl(alt.path), IF alt.method = NoVerb THEN primary ELSE alt.method)

-----------------------------------------------------------------------------
(* Files, symbols, ports. *)

\* A source path: the segments it is written with; the key drops an app's prefix, then
\* the variant's directory.
AppPrefix(f) ==
  LET apps == {i \in DOMAIN f : f[i] = Lit("vulnerable-apps") /\ i < Len(f)} IN
  IF apps = {} THEN 0 ELSE IF Len(f) > Min(apps) + 1 THEN Min(apps) + 1 ELSE Min(apps)

NoVariant(f) == IF Len(f) > 1 /\ f[1] \in {Lit("vuln"), Lit("safe")} THEN Tail(f) ELSE f

FileKey(f) == NoVariant(SubSeq(f, AppPrefix(f) + 1, Len(f)))

\* The same file: one key ends in the other, case aside.
SameEnd(x, y) == x # <<>> /\ y # <<>> /\ (IsSuffix(x, y) \/ IsSuffix(y, x))
FileMatches(a, b) == SameEnd(FoldCase(FileKey(a)), FoldCase(FileKey(b)))

\* The words of a symbol, lower-cased: one contains the other's.
SymbolMatches(a, b) == a # {} /\ b # {} /\ (a \subseteq b \/ b \subseteq a)

IsHarnessPath(p) == \E i \in DOMAIN p : p[i].n = "_verify"
IsOpenState(s)   == s \in {"", "open", "open|filtered"}
=============================================================================
