-------------------------------- MODULE AnswerKey --------------------------------
(***************************************************************************)
(* An app's answer key and catalog over time: people edit the source, the  *)
(* key and the catalog, derive-match and derive-surface rewrite what they  *)
(* derive, and `make check` - the invariants of check/invariants.ts and    *)
(* the two tools' --check - says whether it may be merged.                 *)
(*                                                                         *)
(* A file of the tree is module Derive's, with only (the twin it is in     *)
(* alone, or ""), named (the ids the patched side's lines name), infra and *)
(* plumbing (a plumbing file; nothing in its diff is unexplained).         *)
(***************************************************************************)
EXTENDS Catalog

CONSTANTS
  Trees,       \* what the source may be
  App,         \* the app, as module Catalog has it
  Bugs,        \* the bugs that may be planted, in the order of a full key
  FirstKey,    \* the key and the catalog at the start
  FirstCatalog,
  HandOps,     \* what people add to the catalog
  MaxEdits

ASSUME EditsAssumption == MaxEdits \in Nat

VARIABLES
  tree, key,   \* the source and VULNERABILITIES.yaml
  cat,         \* SURFACE.yaml
  checked,     \* what make check said of them: "not yet", "green" or "red"
  edits

avars == <<tree, key, cat, checked, edits>>

-----------------------------------------------------------------------------
(* What is wrong with them. *)

AnchorsPrint(a) ==
  <<a.cwe, [i \in DOMAIN a.http |-> <<a.http[i].method, a.http[i].path, a.http[i].query, a.http[i].params,
                                     a.http[i].headers>>], a.file, a.net, a.gql, a.ws, a.llm>>
Fingerprint(v) == AnchorsPrint(GtAnchors(v))

Ids(s) == {s[i].id : i \in DOMAIN s}
AllDistinct(s) == \A i, j \in DOMAIN s : s[i].id = s[j].id => i = j

LogicKeys == {"logic", "actors", "steps"}

\* validateGroundTruth.  A bug's nearMiss and a near-miss's of name each other or are "";
\* logic is the business-logic keys that are set.
BugIsValid(v) ==
  /\ v.cwe # NoCwe
  /\ v.discovery \in DiscoveryTiers
  /\ v.logic \in {{}, LogicKeys}
  /\ v.file # <<>> \/ v.route.words # <<>>
IncidentalIsValid(x, bugs, nms) ==
  /\ x.id \notin Ids(bugs) \cup Ids(nms)
  /\ x.cwe # NoCwe
  /\ x.file # <<>> \/ x.route.words # <<>>
NearMissIsValid(nm, bugs) == nm.of \in Ids(bugs) \cup {""}
ReferencesResolve(bugs, nms) == \A v \in ToSet(bugs) : v.nearMiss \in Ids(nms) \cup {""}

GroundTruthIsValid(k) ==
  /\ AllDistinct(k.bugs) /\ AllDistinct(k.nms) /\ AllDistinct(k.incs)
  /\ \A v \in ToSet(k.bugs) : BugIsValid(v)
  /\ \A nm \in ToSet(k.nms) : NearMissIsValid(nm, k.bugs)
  /\ \A x \in ToSet(k.incs) : IncidentalIsValid(x, k.bugs, k.nms)
  /\ ReferencesResolve(k.bugs, k.nms)

\* The answer key's part of checkApp.
KeyIsSound(t, k) ==
  /\ GroundTruthIsValid(k)
  /\ \A e \in ToSet(k.bugs) \cup ToSet(k.incs) : \A a \in e.match.file : LinesOf(t, a.path) # <<>>
  /\ \A e \in ToSet(k.bugs) : \A a \in e.match.file : \A l \in a.lines : l <= Len(LinesOf(t, a.path))
  /\ \A x \in ToSet(k.incs), v \in ToSet(k.bugs) : Fingerprint(x) # Fingerprint(v)
  /\ (\A v \in ToSet(k.bugs) : v.discovery = "") \/ (\A v \in ToSet(k.bugs) : v.discovery # "")

ClaimedFiles(s) == UNION {{FileKey(e.file)} \cup {FileKey(a.path) : a \in e.match.file} : e \in s} \ {<<>>}
Differs(f) == f.only # "" \/ \E i \in DOMAIN f.lines : f.lines[i].d # "same"

\* The ids the lines of a file's diff name.
Mentions(f) == f.named \cup UNION {f.lines[i].tags : i \in {j \in DOMAIN f.lines : f.lines[j].d = "changed"}}

\* The twins differ where a bug's entry says they do, or say which bug it is, or are only
\* telling themselves apart.
DeltaIsDeclared(t, k) ==
  \A f \in {x \in ToSet(t) : Differs(x) /\ FileKey(x.path) \notin ClaimedFiles(ToSet(k.bugs))} :
    /\ FileKey(f.path) \notin ClaimedFiles(ToSet(k.nms)) \cup ClaimedFiles(ToSet(k.incs))
    /\ IF Mentions(f) # {} THEN Mentions(f) \subseteq Ids(k.bugs) ELSE f.infra /\ f.plumbing

\* The bugs that can be reached and are on no operation.
Unmapped(k, c) ==
  {v \in ToSet(k.bugs) : ~IsSourceOnly(GtAnchors(v)) /\ \A o \in ToSet(c) : v.id \notin o.vulns}

CatalogIsSound(k, c) ==
  /\ AllDistinct(c) /\ ParsedOps(c) = c /\ ValidSurface(ToSet(c))
  /\ \A o \in ToSet(c) : o.vulns \subseteq Ids(k.bugs) /\ ~IsHarnessPath(o.path)
  /\ Unmapped(k, c) = {}

\* A key without bugs is a skeleton: only derive-match looks at it.
Green(t, k, c) ==
  /\ \/ k.bugs = <<>>
     \/ /\ KeyIsSound(t, k) /\ DeltaIsDeclared(t, k) /\ CatalogIsSound(k, c)
        /\ Added(k.bugs, App, c) = {}
  /\ DeriveMatch(t, k) = k

-----------------------------------------------------------------------------
(* Steps. *)

Edit == checked' = "not yet" /\ edits < MaxEdits /\ edits' = edits + 1

EditSource ==
  /\ Edit /\ \E t \in Trees \ {tree} : tree' = t
  /\ UNCHANGED <<key, cat>>

\* A bug is planted in front of those in the key, or one is taken out.
Plant ==
  /\ Edit
  /\ \E b \in ToSet(Bugs) : b.id \notin Ids(key.bugs)
       /\ key' = [key EXCEPT !.bugs = Among(Bugs, {x \in ToSet(Bugs) : x.id = b.id}) \o @]
  /\ UNCHANGED <<tree, cat>>
Unplant ==
  /\ Edit
  /\ \E i \in DOMAIN key.bugs : key' = [key EXCEPT !.bugs = RemoveAt(@, i)]
  /\ UNCHANGED <<tree, cat>>

\* By hand: an operation is added, a bug put on one, a tier set.
AddOperation ==
  /\ Edit /\ \E o \in HandOps : IndexOfKey(cat, OpKey(o)) = 0 /\ o.id \notin Ids(cat) /\ cat' = Append(cat, o)
  /\ UNCHANGED <<tree, key>>
MapBug ==
  /\ Edit /\ \E i \in DOMAIN cat, v \in Ids(key.bugs) : cat' = [cat EXCEPT ![i].vulns = @ \cup {v}]
  /\ UNCHANGED <<tree, key>>
SetTier ==
  /\ Edit
  /\ \E i \in DOMAIN cat, d \in {"static-html", "flow"} : cat[i].discovery = "" /\ cat' = [cat EXCEPT ![i].discovery = d]
  /\ UNCHANGED <<tree, key>>

\* --write changes what differs and nothing else.
WriteMatch ==
  /\ key' = DeriveMatch(tree, key) /\ key' # key /\ checked' = "not yet"
  /\ UNCHANGED <<tree, cat, edits>>
WriteSurface ==
  /\ key.bugs # <<>> /\ cat' = DeriveSurface(key.bugs, App, cat) /\ cat' # cat /\ checked' = "not yet"
  /\ UNCHANGED <<tree, key, edits>>

Check ==
  /\ checked = "not yet"
  /\ checked' = IF Green(tree, key, cat) THEN "green" ELSE "red"
  /\ UNCHANGED <<tree, key, cat, edits>>

AInit == tree \in Trees /\ key = FirstKey /\ cat = FirstCatalog /\ checked = "not yet" /\ edits = 0
ANext == EditSource \/ Plant \/ Unplant \/ AddOperation \/ MapBug \/ SetTier \/ WriteMatch \/ WriteSurface \/ Check
ASpec == AInit /\ [][ANext]_avars

-----------------------------------------------------------------------------
(* Properties. *)

\* Two entries in one file have no line in common.
OneOwner(x, y) ==
  x.id # y.id /\ x.file # <<>> /\ y.file # <<>> /\ VulnSide(x.file) = VulnSide(y.file) =>
    \A a \in x.match.file, b \in y.match.file : a.lines \cap b.lines = {}

\* On a green check no line belongs to two entries: the lines derive-match gives the bugs
\* and the near-misses of one file, or of a file and its patched twin, are apart whatever
\* was edited before (derive-match.ts, claim), so that a finding on a line has one owner.
GreenLinesApart ==
  checked = "green" => \A x, y \in ToSet(key.bugs) \cup ToSet(key.nms) : OneOwner(x, y)

\* Whatever is edited and derived, in whatever order: an operation never leaves the
\* catalog, a tier that is set never changes, and no bug is taken off an operation.
CatalogKeeps ==
  [][\A o \in ToSet(cat) : \E p \in ToSet(cat') :
       OpKey(p) = OpKey(o) /\ o.vulns \subseteq p.vulns /\ o.discovery \in {"", p.discovery}]_cat
=============================================================================
