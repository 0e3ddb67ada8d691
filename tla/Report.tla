--------------------------------- MODULE Report ---------------------------------
(***************************************************************************)
(* What a scanner wrote becomes findings/v1 (src/normalize/index.ts and    *)
(* adapters.ts, src/schema/envelope.ts and findings.ts, and readFindings   *)
(* of the CLI).                                                            *)
(*                                                                         *)
(* A text is a record: how it starts ("xml", "json", "jsonl", "junk"), its *)
(* shape, the tool whose mark it bears, the envelope's fields, its items,  *)
(* where it is findings/v1, and its results, where it is a tool's.         *)
(* "" is a string that str() makes undefined.  An id is a tuple, <<>> none.*)
(* An item holds its place: what it says under location (nested), or where *)
(* it has none the item itself; flat are the fields of no kind's own.      *)
(***************************************************************************)
EXTENDS Pair

LocationKinds == {"http", "file", "net", "graphql", "ws", "llm"}

Absent    == [t |-> "absent", f |-> <<>>]
Scalar    == [t |-> "scalar", f |-> <<>>]
Object(f) == [t |-> "object", f |-> f]
NoPlaces  == [k \in LocationKinds \cup {"flat"} |-> Absent]

Says(f, n) == IF n \in DOMAIN f THEN f[n] ELSE ""

-----------------------------------------------------------------------------
(* Values.  A few are spelt otherwise than their canonical form. *)

Respelt == [get |-> "GET", TCP |-> "tcp", WS |-> "ws", High |-> "high", Safe |-> "safe",
            Query |-> "query", Post |-> "post"]
Fold(s) == IF s \in DOMAIN Respelt THEN Respelt[s] ELSE s
Number(s) == IF s = "many" THEN "" ELSE s

Severity(s) ==
  CASE s \in {"info", "informational", "information", "note", "none", "0"} -> "info"
    [] s \in {"low", "minor", "warning", "1"} -> "low"
    [] s \in {"medium", "moderate", "med", "2"} -> "medium"
    [] s \in {"high", "major", "error", "3"} -> "high"
    [] s \in {"critical", "crit", "severe", "blocker", "4"} -> "critical"
    [] OTHER -> ""

Confidence(s) ==
  CASE s \in {"certain", "confirmed", "high", "3"} -> "certain"
    [] s \in {"firm", "medium", "probable", "2"} -> "firm"
    [] s \in {"tentative", "low", "possible", "unconfirmed", "0", "1"} -> "tentative"
    [] OTHER -> ""

\* A CVSS score in tenths; -1 where there is none.
CvssSeverity(n) ==
  IF n \notin 0..100 THEN ""
  ELSE CASE n >= 90     -> "critical"
         [] n \in 70..89 -> "high"
         [] n \in 40..69 -> "medium"
         [] n \in 1..39  -> "low"
         [] OTHER       -> "info"

\* The first digits of an id; "-1" reads as 1.
Garbled == -100
NormalizeCwe(n) == IF n = Garbled THEN NoCwe ELSE IF n < 0 THEN -n ELSE n

Fallback(s, t) == IF s # "" THEN s ELSE t

-----------------------------------------------------------------------------
(* One item. *)

Fields ==
  [http |-> {"method", "url", "path", "param"}, file |-> {"path", "line", "symbol"},
   net |-> {"host", "port", "proto", "state"}, graphql |-> {"op", "kind", "field"},
   ws |-> {"transport", "event", "channel", "endpoint"}, llm |-> {"tool", "channel"}]
\* An anchor has to have one of these.
Tells ==
  [http |-> {"url", "path"}, file |-> {"path"}, net |-> {"host", "port"}, graphql |-> {"op", "field"},
   ws |-> {"transport", "event", "channel", "endpoint"}, llm |-> {"tool", "channel"}]
Cased   == {<<"http", "method">>, <<"net", "proto">>, <<"graphql", "kind">>, <<"ws", "transport">>, <<"llm", "channel">>}
Numeric == {<<"file", "line">>, <<"net", "port">>}

\* A flat item's fields, under the kind they belong to.
LiftedFrom ==
  [http |-> {"url", "method", "param", "path"}, file |-> {"file", "line", "symbol"}, net |-> {"host", "port"}]
FlatName(k, n) == IF k = "file" /\ n = "path" THEN "file" ELSE n

Lifted(k, flat) ==
  IF k \in DOMAIN LiftedFrom /\ LiftedFrom[k] \cap DOMAIN flat # {}
  THEN Object([n \in Fields[k] \ {"state"} |-> Says(flat, FlatName(k, n))]) ELSE Absent

CoerceField(k, n, v) ==
  IF <<k, n>> \in Numeric THEN Number(v)
  ELSE IF <<k, n>> \in Cased THEN Fallback(Fold(v), IF k = "net" THEN "tcp" ELSE "")
  ELSE v

CoerceLocation(p) ==
  LET flat == \A k \in LocationKinds : p[k].t = "absent" /\ k \notin DOMAIN p["flat"].f
      src  == [k \in LocationKinds |-> IF flat THEN Lifted(k, p["flat"].f) ELSE p[k]]
      read == [k \in {x \in LocationKinds : src[x].t = "object"} |->
                 [n \in Fields[k] |-> CoerceField(k, n, Says(src[k].f, n))]] IN
  [k \in {x \in DOMAIN read : \E n \in Tells[x] : read[x][n] # ""} |-> read[k]]

\* What the scorer compares a finding by: a place that says too little gives no anchor.
FindingAnchors(location) ==
  [k \in {x \in DOMAIN location : x = "ws" \/ \E n \in Tells[x] : location[x][n] # ""} |->
     IF k # "http" THEN location[k]
     ELSE [key |-> <<location[k].method, Fallback(location[k].url, location[k].path)>>,
           params |-> {location[k].param} \ {""}]]

\* Mutant: an id made up is taken to be new.
FreshId_MadeUp(id, i, seen) == IF id = <<>> THEN <<"f", i>> ELSE IF id \in seen THEN Append(id, i) ELSE id

FreshId(id, i, seen) ==
  LET own == IF id = <<>> THEN <<"f", i>> ELSE id IN
  IF own \in seen THEN Append(own, i) ELSE own

\* A finding, its fields in their canonical form.
FindingOf(raw, id, location) ==
  [id |-> id, cwe |-> NormalizeCwe(raw.cwe), cwes |-> {NormalizeCwe(c) : c \in raw.cwes} \ {NoCwe},
   severity |-> Severity(Fold(raw.severity)), confidence |-> Confidence(Fold(raw.confidence)),
   location |-> location, markers |-> raw.markers, exploited |-> raw.exploited]

\* st: [findings, seen, errors]; a finding nobody can place is an error, not a finding.
CoerceFinding(st, raw, id, location) ==
  IF ~raw.obj THEN [st EXCEPT !.errors = @ \cup {"finding"}]
  ELSE IF DOMAIN location = {} THEN [st EXCEPT !.errors = @ \cup {"finding"}, !.seen = @ \cup {id}]
  ELSE [st EXCEPT !.seen = @ \cup {id}, !.findings = Append(@, FindingOf(raw, id, location))]

CoerceItem(st, raw, i) == CoerceFinding(st, raw, FreshId(raw.id, i, st.seen), CoerceLocation(raw.place))

\* What is read of the first items, one more each time.
CoerceFindings(items) ==
  LET read[i \in 0..Len(items)] ==
        IF i = 0 THEN [findings |-> <<>>, seen |-> {}, errors |-> {}] ELSE CoerceItem(read[i - 1], items[i], i)
  IN  read[Len(items)]

-----------------------------------------------------------------------------
(* The envelope, of findings/v1 and of endpoints/v1. *)

NoItems == [list |-> FALSE, items |-> <<>>]
Listed(s) == [list |-> TRUE, items |-> s]

\* doc: [t, schema, app, variant, items]; opts: [app, variant], what the caller asked for.
ParseEnvelope(doc, opts) ==
  LET said    == IF Fold(doc.variant) \in {"vuln", "safe"} THEN Fold(doc.variant) ELSE ""
      variant == Fallback(said, Fallback(opts.variant, "vuln"))
      app     == Fallback(doc.app, opts.app)
      wrong   == {e \in {"schema", "run.variant", "run.app", "items"} :
                    CASE e = "schema"      -> doc.schema = "v2"
                      [] e = "run.variant" -> (said = "" /\ doc.variant # "") \/ opts.variant \notin {"", variant}
                      [] e = "run.app"     -> opts.app \notin {"", app}
                      [] e = "items"       -> ~doc.items.list} IN
  IF doc.t = "scalar"
  THEN [run |-> [app |-> "", variant |-> Fallback(opts.variant, "vuln")], items |-> NoItems, errors |-> {"$"}]
  ELSE [run |-> [app |-> app, variant |-> variant], items |-> doc.items, errors |-> wrong]

NoRun == [app |-> "", variant |-> ""]

\* value is whether there is anything to score; without it the run stays empty.
Validated(env) ==
  IF env.items.list
  THEN LET read == CoerceFindings(env.items.items) IN
       [value |-> TRUE, run |-> env.run, findings |-> read.findings, errors |-> env.errors \cup read.errors]
  ELSE [value |-> FALSE, run |-> NoRun, findings |-> <<>>, errors |-> env.errors]

ValidateFindings(doc, opts) == Validated(ParseEnvelope(doc, opts))

-----------------------------------------------------------------------------
(* Adapters: a tool's results, moved across. *)

At1(k, f) == [NoPlaces EXCEPT ![k] = Object(f)]
HttpLoc(url, method, param) ==
  IF url = "" THEN NoPlaces ELSE At1("http", [url |-> url, method |-> method, param |-> param])

SeedMarkers == {"7f3a"}
MarkersIn(vocabulary, leaks) == leaks \cap (SeedMarkers \cup vocabulary)

Moved(id, place, cwe, cwes, severity, confidence, markers, exploited) ==
  [obj |-> TRUE, nested |-> TRUE, id |-> id, place |-> place, cwe |-> cwe, cwes |-> cwes, severity |-> severity,
   confidence |-> confidence, markers |-> markers, exploited |-> exploited]

FirstCwe(n, words) == IF NormalizeCwe(n) # NoCwe THEN NormalizeCwe(n) ELSE GuessCwe(words)
OfList(cwes, words) == IF cwes # <<>> THEN Head(cwes) ELSE GuessCwe(words)
Rest1(cwes) == IF cwes = <<>> THEN {} ELSE ToSet(Tail(cwes))

\* An alert is a finding for each of its instances, or one for the site.
FromZap(alerts, vocabulary) ==
  LET instances(a) == IF a.instances # <<>> THEN a.instances
                      ELSE <<[url |-> a.site, method |-> "", param |-> "", leaks |-> {}]>>
      each == FlattenSeq([i \in DOMAIN alerts |-> [j \in DOMAIN instances(alerts[i]) |-> <<alerts[i], instances(alerts[i])[j]>>]]) IN
  [n \in DOMAIN each |->
     LET a == each[n][1]  at == each[n][2] IN
     Moved(<<"zap", n>>, HttpLoc(at.url, at.method, at.param), FirstCwe(a.cwe, a.words), {}, a.severity, a.confidence,
           MarkersIn(vocabulary, at.leaks), FALSE)]

SarifPlace(r) ==
  [HttpLoc(r.url, r.method, "") EXCEPT !["file"] = IF r.uri = "" THEN Absent ELSE Object([path |-> r.uri, line |-> r.line])]

\* A result with no place is left out, with a note.
FromSarif(results, vocabulary) ==
  LET placed == Among(results, {r \in ToSet(results) : SarifPlace(r) # NoPlaces}) IN
  [n \in DOMAIN placed |->
     LET r == placed[n] IN
     Moved(<<"sarif", n>>, SarifPlace(r), OfList(r.list, r.words), Rest1(r.list),
           Fallback(CvssSeverity(r.score), r.severity), r.confidence, MarkersIn(vocabulary, r.leaks), FALSE)]

\* A network template matches at host:port.
NucleiPlace(r) ==
  IF r.host # "" THEN At1("net", [host |-> r.host, port |-> r.port, proto |-> Fallback(r.proto, "tcp"), state |-> "open"])
  ELSE HttpLoc(r.url, "", "")

FromNuclei(results, vocabulary) ==
  LET placed == Among(results, {r \in ToSet(results) : NucleiPlace(r) # NoPlaces}) IN
  [n \in DOMAIN placed |->
     LET r == placed[n] IN
     Moved(<<"nuclei", n>>, NucleiPlace(r), OfList(r.list, r.words), Rest1(r.list), r.severity, "firm",
           MarkersIn(vocabulary, r.leaks), r.extracted)]

\* serial is 0 where the export has none: those are counted.
FromBurp(issues, vocabulary) ==
  LET counted(n) == Cardinality({i \in 1..n : issues[i].serial = 0}) IN
  [n \in DOMAIN issues |->
     LET r == issues[n] IN
     Moved(<<"burp", IF r.serial # 0 THEN r.serial ELSE counted(n)>>, HttpLoc(Fallback(r.url, "/"), r.method, r.param),
           FirstCwe(r.cwe, r.words), {}, r.severity, r.confidence, MarkersIn(vocabulary, r.leaks), FALSE)]

\* Every port of the scan, closed ones too; port 0 is left out.
FromNmap(ports) ==
  LET read == Among(ports, {p \in ToSet(ports) : p.port # ""}) IN
  [n \in DOMAIN read |->
     LET p == read[n] IN
     Moved(<<"nmap", n>>, At1("net", [host |-> Fallback(p.name, p.addr), port |-> p.port, proto |-> Fallback(p.proto, "tcp"),
                                      state |-> Fallback(p.state, "unknown")]),
           NoCwe, {}, "info", IF p.state = "open" THEN "certain" ELSE "tentative", {}, FALSE)]

-----------------------------------------------------------------------------
(* The whole text. *)

Shown(item) == item.nested \/ "url" \in DOMAIN item.place["flat"].f

DetectFormat(x) ==
  CASE x.start = "xml" -> IF x.mark \in {"nmap", "burp"} THEN x.mark ELSE "unknown"
    [] x.start = "json" -> IF x.schema \in {"v1", "v2"} THEN "findings/v1"
                           ELSE IF x.mark # "" THEN x.mark
                           ELSE IF x.items.list THEN "findings/v1" ELSE "unknown"
    [] x.start = "jsonl" -> IF x.mark = "nuclei" THEN "nuclei"
                            ELSE IF \E i \in DOMAIN x.items.items : Shown(x.items.items[i]) THEN "findings/v1" ELSE "unknown"
    [] OTHER -> "unknown"

\* The results a format finds: none in a text in another shape, or that does not parse.
ResultsOf(x, format) == IF x.mark = format /\ x.start # "junk" THEN x.results ELSE <<>>

Adapted(results, format, vocabulary) ==
  CASE format = "zap"    -> FromZap(results, vocabulary)
    [] format = "sarif"  -> FromSarif(results, vocabulary)
    [] format = "nuclei" -> FromNuclei(results, vocabulary)
    [] format = "burp"   -> FromBurp(results, vocabulary)
    [] format = "nmap"   -> FromNmap(results)

\* What an adapter says of a report it took nothing, or not everything, from.
Notes(results, format, moved) ==
  {n \in {"nothing", "skipped"} : CASE n = "nothing" -> format \in {"zap", "sarif"} /\ moved = <<>>
                                   [] n = "skipped" -> format = "sarif" /\ Len(moved) < Len(results)}

\* A findings/v1 that does not parse is read as {}.
DocOf(x, parses) ==
  IF parses THEN [t |-> x.shape, schema |-> x.schema, app |-> x.app, variant |-> x.variant, items |-> x.items]
  ELSE [t |-> "object", schema |-> "", app |-> "", variant |-> "", items |-> NoItems]

Wrapped(moved, opts) ==
  [t |-> "object", schema |-> "v1", app |-> opts.app, variant |-> Fallback(opts.variant, "vuln"), items |-> Listed(moved)]

\* What validated, the format it was read as, and what else there is to say of the text.
AsRead(file, format, notes, wrong) ==
  [value |-> file.value, format |-> format, run |-> file.run, findings |-> file.findings,
   errors |-> file.errors \cup wrong, notes |-> notes]

\* opts: [app, variant, format, markers]
Converted(format, results, moved, opts, wrong) ==
  AsRead(ValidateFindings(Wrapped(moved, opts), opts), format, Notes(results, format, moved), wrong)

FormatOf(x, asked) == IF asked # "" THEN asked ELSE DetectFormat(x)
Parses(x) == x.start \in {"json", "jsonl"}

ReadAs(x, format, opts) ==
  LET results == ResultsOf(x, format)
      wrong   == IF Parses(x) \/ format \in {"burp", "nmap"} THEN {} ELSE {"$"} IN
  CASE format = "unknown"     -> [value |-> FALSE, format |-> format, run |-> NoRun, findings |-> <<>>, errors |-> {"$"}, notes |-> {}]
    [] format = "findings/v1" -> AsRead(ValidateFindings(DocOf(x, Parses(x)), opts), format, {}, wrong)
    [] OTHER -> Converted(format, results, Adapted(results, format, opts.markers), opts, wrong)

NormalizeText(x, opts) == ReadAs(x, FormatOf(x, opts.format), opts)

\* The text of a file that was normalised.
ItemOf(f) ==
  [obj |-> TRUE, nested |-> TRUE, id |-> f.id, cwe |-> f.cwe, cwes |-> f.cwes, severity |-> f.severity,
   confidence |-> f.confidence, markers |-> f.markers, exploited |-> f.exploited,
   place |-> [k \in DOMAIN NoPlaces |-> IF k \in DOMAIN f.location THEN Object(f.location[k]) ELSE Absent]]

TextOf(res) ==
  [start |-> "json", shape |-> "object", mark |-> "", schema |-> "v1", app |-> res.run.app, variant |-> res.run.variant,
   items |-> Listed([i \in DOMAIN res.findings |-> ItemOf(res.findings[i])]), results |-> <<>>]

-----------------------------------------------------------------------------
(* The CLI. *)

ReadFindings(x, app, variant, format, markers) ==
  NormalizeText(x, [app |-> app, variant |-> variant, format |-> format, markers |-> markers])

\* An error about the document is fatal, any other is a warning.
Dies(res) == "$" \in res.errors

\* --safe wins over whatever the file claims.
Scored(run, safe) == IF safe THEN [run EXCEPT !.variant = "safe"] ELSE run
=============================================================================
