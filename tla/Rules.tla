--------------------------------- MODULE Rules ---------------------------------
(***************************************************************************)
(* The pure rules, asked one question at a time: how a found path lines up *)
(* with a key's, which pair a finding and an entry make, what a report and *)
(* an endpoint list read as, what the coverage track says of them, what is *)
(* left of a file when its labels are stripped and whether a checked image *)
(* still bears one.  The module states what the answers promise; the       *)
(* questions are constants.                                                *)
(***************************************************************************)
EXTENDS Endpoints, Image

CONSTANTS
  PathQuestions,    \* [gt, found, routes]
  PairQuestions,    \* [f, g, routes]
  CatalogQuestions, \* [ops]: two operations a catalog may hold
  Reports,          \* every report there may be, for those
  TrackQuestions,   \* [ops, reported, variant, vulns, found]
  StripQuestions,   \* [lines, syntax]
  ImageQuestions,   \* [docker, builds, lines, syntax]
  ReportQuestions,  \* [text, format, variant, safe]
  CoverageQuestions \* [ops, files, alike, variant]: the same files twice over

VARIABLES ask, told

rvars == <<ask, told>>

NotTold == [is |-> "nothing"]

\* One question of each kind, answered.
AnswerPath ==
  /\ ask.about = "path"
  /\ told' = [is |-> "path",
              strict |-> RoutedPathMatch(ask.gt, ask.found, FALSE, ask.routes),
              folded |-> RoutedPathMatch(ask.gt, ask.found, TRUE, ask.routes)]

AnswerPair ==
  /\ ask.about = "pair"
  /\ told' = [is |-> "pair", pair |-> PairFor(ask.f, ask.g, FALSE, ask.routes)]

AnswerCatalog ==
  /\ ask.about = "catalog"
  /\ told' = [is |-> "catalog", valid |-> ValidSurface(ask.ops),
              apart |-> \E r \in Reports : Cardinality({OpMatches(o, r, SurfaceRoutes(ask.ops)) : o \in ask.ops}) > 1]

AnswerTrack ==
  /\ ask.about = "track"
  /\ told' = [is |-> "track", track |-> Track(ask.ops, ask.reported, ask.variant, ask.vulns, ask.found)]

AnswerStrip ==
  /\ ask.about = "strip"
  /\ told' = [is |-> "strip", lines |-> StripText(ask.lines, ask.syntax)]

AnswerImage ==
  /\ ask.about = "image"
  /\ told' = [is |-> "image", image |-> Image(ask.docker, ask.builds),
              passes |-> /\ DockerfileIssues(ask.docker) = {} /\ ComposeIssues(ask.builds) = {}
                         /\ AnnotationLeaks(ask.lines, ask.syntax) = {}]

\* A report is read for the app, and what was read is written and read once more.
AnswerReport ==
  /\ ask.about = "report"
  /\ told' = LET first == ReadFindings(ask.text, "app", ask.variant, ask.format, {"m"})
             IN  [is |-> "report", first |-> first, run |-> Scored(first.run, ask.safe),
                  again |-> NormalizeText(TextOf(first), [app |-> "", variant |-> "", format |-> "", markers |-> {}])]

\* The files of one command, and the same in another order and other words.
AnswerCoverage ==
  /\ ask.about = "coverage"
  /\ told' = [is |-> "coverage",
              covered |-> {CmdCoverage(ask.ops, files, "app", ask.variant, {}, {}) : files \in {ask.files, ask.alike}}]

Questions ==
  PathQuestions \cup PairQuestions \cup CatalogQuestions \cup TrackQuestions \cup StripQuestions \cup ImageQuestions
  \cup ReportQuestions \cup CoverageQuestions

RulesInit == told = NotTold /\ ask \in Questions

RulesNext ==
  /\ told = NotTold
  /\ AnswerPath \/ AnswerPair \/ AnswerCatalog \/ AnswerTrack \/ AnswerStrip \/ AnswerReport
     \/ AnswerCoverage \/ AnswerImage
  /\ UNCHANGED ask

RulesSpec == RulesInit /\ [][RulesNext]_rvars

-----------------------------------------------------------------------------
(* Properties. *)

Verbatim(p) == \A i \in DOMAIN p : p[i].k = "lit"

\* Two paths that differ only in case or in a trailing slash are never one path to the
\* strict pass (weirdproxy's /admin/ and /ADMIN are two bugs); the folding pass finds them.
StrictNeverFolds ==
  told.is = "path" /\ Verbatim(ask.gt) /\ Verbatim(ask.found) =>
    /\ told.strict = "exact" <=> ask.gt = ask.found
    /\ told.strict # "param" /\ (told.strict = "exact" => told.folded = "exact")

OnlyByPath(f) == f.http # <<>> /\ f.file \cup f.net \cup f.gql \cup f.ws \cup f.llm = {}

\* A finding at a path the app routes statically, with nothing else to go by, is never
\* paired with an entry that reaches the path through a placeholder only - not in the
\* folding pass, and not by a marker it leaked.
StaticRouteOwnsPath ==
  told.is = "pair" /\ OnlyByPath(ask.f) /\ ask.g.http # <<>>
  /\ (\A j \in DOMAIN ask.f.http :
        /\ \E r \in ask.routes : Verbatim(r) /\ PathMatch(r, ask.f.http[j].path, FALSE) = "exact"
        /\ \A i \in DOMAIN ask.g.http, loose \in BOOLEAN :
             PathMatch(ask.g.http[i].path, ask.f.http[j].path, loose) # "exact") =>
    told.pair = NoPair

\* An operation as a report of it.
AsReport(o) ==
  [kind |-> o.kind, method |-> o.method, path |-> o.path, endpoint |-> o.endpoint, query |-> o.query, port |-> o.port,
   op |-> o.op, gqlKind |-> o.gqlKind, field |-> o.field, event |-> o.event, channel |-> o.channel,
   namespace |-> o.namespace, tool |-> o.tool, injection |-> o.injection, host |-> o.host, proto |-> o.proto]

\* The key, if it folded the case of query values as the match does.
FoldedKey(o) == OpKey([AsReport(o) EXCEPT !.query = Folded(o.query)])

\* Two operations of an accepted catalog that every report answers alike have one key up
\* to the case of a query value: that is all surface.ts:186 fails to refuse, where opKey
\* keeps ?action=a and ?action=A apart and opMatches does not.
Distinguishable ==
  told.is = "catalog" /\ told.valid /\ ~told.apart => \A o, p \in ask.ops : FoldedKey(o) = FoldedKey(p)

\* Every bug an operation carries is found, missed for want of reaching it, or missed
\* where it was reached - the second exactly when no report reaches an operation of it.
MissSplit ==
  told.is = "track" =>
    LET t == told.track  expected == Expected(ask.ops, ask.variant)
        reached == {v \in ask.vulns : \E o \in Carrying(expected, v), r \in ToSet(ask.reported) :
                      OpMatches(o, r, SurfaceRoutes(ask.ops)) # "none"} IN
    /\ t.discovery = ask.vulns \ (ask.found \cup reached \cup t.unmapped)
    /\ t.analysis = reached \ ask.found
    /\ t.onTouched = reached

\* Neither the order of the reports nor saying one twice changes what the track says ...
Unplaced(track) == [track EXCEPT !.matched = {}]
TrackOrderFree ==
  told.is = "track" =>
    LET again(s) == Track(ask.ops, s, ask.variant, ask.vulns, ask.found) IN
    /\ Unplaced(again(Reverse(ask.reported))) = Unplaced(told.track)
    /\ Unplaced(again(ask.reported \o ask.reported)) = Unplaced(told.track)

\* ... nor do the order of a command's files and which of the accepted shapes an endpoint
\* is written in (endpoints.ts:10 "all equivalent"), down to what the number rests on.
OrderFree ==
  /\ TrackOrderFree
  /\ told.is = "coverage" =>
       \A x, y \in told.covered : [x EXCEPT !.track.matched = {}] = [y EXCEPT !.track.matched = {}]

StripsLast(d) ==
  \A i \in DOMAIN d : d[i].op = "copy" /\ d[i].from = "" =>
    /\ d[i].to = "/src"
    /\ \A j \in 1..(i - 1) : d[j].op = "strip" => \E k \in j..i : d[k].op = "from"

\* Where the check of the image build passes, the image holds no file as it was before the
\* strip - provided the strip comes last in its stage and that stage keeps the context in
\* one place, which the check does not look at ...
ImageStripped == told.is = "image" /\ told.passes /\ StripsLast(ask.docker) => "raw" \notin told.image

\* ... and stripping leaves every row's code as a compiler reads it, and no label in a
\* comment, in a file whose comments the text alone can tell from code: one comment,
\* or part of one, to a row, no sign of a comment or a string inside one, no escaped sign in code.  The labels go where the stripper
\* reads far enough and no tool's line is among them.
LabelsOnly ==
  /\ told.is = "strip" /\ ask.syntax.kind = "code" =>
       \A was \in {Reading(ask.lines, ask.syntax)}, now \in {Reading(told.lines, ask.syntax)} :
         ~was.odd =>
           /\ now.rows = was.rows
           /\ was.in = "" /\ Len(ask.lines) <= Min({MaxRows, MaxRowsUp + 1})
              /\ (\A r \in DOMAIN ask.lines : ~Directive(ask.lines[r])) => now.labels = {}
  /\ ImageStripped

\* The id the i-th item goes by, and the one it is given where that is taken.
OwnId(raw, i)  == IF raw.id = <<>> THEN <<"f", i>> ELSE raw.id
MadeUp(raw, i) == Append(OwnId(raw, i), i)

\* An item has the id that a later one would be given: "a#3", where the third is another "a".
Forestalled(items) == \E i, j \in DOMAIN items : j < i /\ items[j].id = MadeUp(items[i], i)

\* What a text gives that has to be read, or else be told of.  Nuclei's adapter leaves out a
\* match with no place and nmap's a port with no number without a word, and those two and
\* Burp's whatever is in another format.
Given(x, format) ==
  LET results == ResultsOf(x, format) IN
  CASE format = "findings/v1"     -> x.items.items
    [] format \in {"zap", "sarif"} -> x.results
    [] format = "nuclei"          -> Among(results, {r \in ToSet(results) : NucleiPlace(r) # NoPlaces})
    [] format = "nmap"            -> Among(results, {p \in ToSet(results) : p.port # ""})
    [] OTHER                      -> results

\* What is read of a report keeps.  Read again it says the same, and of each finding it has
\* the same id but where two share one: only the id that a duplicate was renamed to, for
\* another item had it already (findings.ts:218 does not look again).  Each finding has an
\* anchor to be compared by, what is left out is told of, and a report that names its twin
\* is scored against that twin - with a word where another was asked for - unless --safe
\* says otherwise.
ReportKept ==
  told.is = "report" /\ told.first.value =>
    LET fs    == told.first.findings
        again == told.again.findings
        named == Fold(ask.text.variant) IN
    /\ told.again.run = told.first.run /\ told.again.errors = {}
    /\ Len(again) = Len(fs) /\ \A i \in DOMAIN fs : again[i] = [fs[i] EXCEPT !.id = again[i].id]
    /\ \/ again = fs /\ \A i, j \in DOMAIN fs : fs[i].id = fs[j].id => i = j
       \/ told.first.format = "findings/v1" /\ Forestalled(ask.text.items.items)
    /\ \A i \in DOMAIN fs : DOMAIN FindingAnchors(fs[i].location) # {}
    /\ Len(fs) < Len(Given(ask.text, told.first.format)) => told.first.errors \cup told.first.notes # {}
    /\ named \in {"vuln", "safe"} =>
         /\ told.run.variant = IF ask.safe THEN "safe" ELSE named
         /\ named # ask.variant => "run.variant" \in told.first.errors

\* A flat item that says where is read as a finding: {url, param, file, line} is lifted
\* into location (dynast-bench/README.md:473, findings.ts:95).
FlatLifted ==
  told.is = "report" /\ told.first.format = "findings/v1" =>
    LET given == ask.text.items.items IN
    (\A i \in DOMAIN given : given[i].obj /\ ~given[i].nested) => Len(told.first.findings) = Len(given)
=============================================================================
