------------------------------- MODULE Score --------------------------------
(***************************************************************************)
(* score.ts, scoreApp(): every finding of a tool's report, on the          *)
(* vulnerable twin and on the patched one, is put into one class.          *)
(*                                                                         *)
(* What the matcher says of the findings is the input: which bug, near-    *)
(* miss or incidental entry each could stand for, how strongly (score,     *)
(* tier) and how precisely (spec).  A finding that pins a near-miss more   *)
(* precisely than any bug loses its claims on bugs; what is left goes to   *)
(* assign(), which runs here step by step as module Assign has it; then    *)
(* the findings are classified one after the other.                        *)
(***************************************************************************)
EXTENDS Assign

CONSTANTS
  SafeFinding,          \* the findings reported against the patched twin
  NearMiss, Incidental, \* indices of the answer key's other entries
  ROUTE, WEAK,          \* the weights of two tiers
  Scorings              \* the inputs to consider

AllFindings == Finding \cup SafeFinding
Classes  == {"true-positive", "informational", "near-miss", "incidental", "duplicate",
             "unclassified", "fixed-bug", "other"}
Alarms   == {"near-miss", "fixed-bug", "other"}
Strength == [score : Nat, tier : Nat, spec : Int]

\* The order candidatesFor leaves a finding's candidates in.
Outranks(x, i, y, k) ==
  \/ x.score > y.score
  \/ x.score = y.score /\ x.tier > y.tier
  \/ x.score = y.score /\ x.tier = y.tier /\ i < k

\* An input: claims on bugs, on near-misses (with whether they pin more than the
\* file) and on incidentals; the findings that name no weakness at all; and those
\* that only report a port as closed.
IsScoring(s) ==
  /\ DOMAIN s.bug \subseteq AllFindings \X Bug /\ \A d \in DOMAIN s.bug : s.bug[d] \in Strength
  /\ DOMAIN s.near \subseteq AllFindings \X NearMiss
  /\ \A d \in DOMAIN s.near : s.near[d].is \in Strength /\ s.near[d].specific \in BOOLEAN
  /\ DOMAIN s.inc \subseteq AllFindings \X Incidental /\ \A d \in DOMAIN s.inc : s.inc[d] \in Strength
  /\ s.vague \subseteq AllFindings /\ s.ports \subseteq AllFindings
  \* pairFor drops the weak pairs of a finding that names nothing
  /\ \A d \in DOMAIN s.bug : d[1] \in s.vague => s.bug[d].tier # WEAK
  \* a finding that could be a near-miss has, in that order, a first one
  /\ \A f \in AllFindings :
       LET near == {n \in NearMiss : <<f, n>> \in DOMAIN s.near}
       IN  near # {} => \E n \in near : \A m \in near \ {n} :
                          Outranks(s.near[<<f, n>>].is, n, s.near[<<f, m>>].is, m)

ASSUME ScoreAssumption ==
  /\ SafeFinding \subseteq Nat /\ SafeFinding \cap Finding = {}
  /\ NearMiss \subseteq Nat /\ Incidental \subseteq Nat
  /\ ROUTE \in Nat /\ WEAK \in Nat
  /\ \A s \in Scorings : IsScoring(s)

VARIABLES
  given,     \* the input, never changed
  left,      \* the findings not classified yet
  rows,      \* the rows of the report, <<finding, class>>
  nmHit      \* the near-misses charged for

report == <<left, rows, nmHit>>
svars == <<vars, given, report>>

-----------------------------------------------------------------------------
(* Before the assignment. *)

\* The near-miss a finding counts as hitting: its first.
Nears(f) == {n \in NearMiss : <<f, n>> \in DOMAIN given.near}
NearHit(f) ==
  CHOOSE n \in Nears(f) : \A m \in Nears(f) \ {n} :
    Outranks(given.near[<<f, n>>].is, n, given.near[<<f, m>>].is, m)

Pinned(f)   == Nears(f) # {} /\ given.near[<<f, NearHit(f)>>].specific
NearSpec(f) == given.near[<<f, NearHit(f)>>].is.spec

\* Its first incidental entry; at a route a finding that names nothing has none.
Incs(f) == {i \in Incidental : /\ <<f, i>> \in DOMAIN given.inc
                               /\ ~(f \in given.vague /\ given.inc[<<f, i>>].tier = ROUTE)}
IncHit(f) == CHOOSE i \in Incs(f) : \A j \in Incs(f) \ {i} :
               Outranks(given.inc[<<f, i>>], i, given.inc[<<f, j>>], j)

Claims(f)   == {b \in Bug : <<f, b>> \in DOMAIN given.bug}
Vague(f, b) == f \in given.vague /\ given.bug[<<f, b>>].tier = ROUTE

\* Mutant: a near-miss has to be as precise, not more precise.
Vetoed_Ties(f) == Pinned(f) /\ \A b \in Claims(f) : NearSpec(f) >= given.bug[<<f, b>>].spec

\* The near-miss veto: the finding fits it more precisely than any bug.
Vetoed(f) == Pinned(f) /\ \A b \in Claims(f) : NearSpec(f) > given.bug[<<f, b>>].spec

Unvetoed == {d \in DOMAIN given.bug : d[1] \in Finding /\ ~Vetoed(d[1])}

\* Mutant: the claims of a vetoed finding stay.
Admitted_KeepsVetoed ==
  [d \in {e \in DOMAIN given.bug : e[1] \in Finding /\ ~Vague(e[1], e[2])} |->
     [score |-> given.bug[d].score, tier |-> given.bug[d].tier]]

\* What assign() gets to see: a vague pair locates a route, not a bug.
Admitted ==
  [d \in {e \in Unvetoed : ~Vague(e[1], e[2])} |->
     [score |-> given.bug[d].score, tier |-> given.bug[d].tier]]

ScoreInit ==
  /\ given \in Scorings
  /\ cand = Admitted
  /\ Init
  /\ left = AllFindings /\ rows = {} /\ nmHit = {}

Match == Step /\ UNCHANGED <<given, report>>

-----------------------------------------------------------------------------
(* The classes, in the order the code tries them.  The vulnerable twin's   *)
(* findings come first, each twin's in the order of the report.            *)

Before(f, g) == (f \in Finding /\ g \in SafeFinding) \/ ((f \in Finding <=> g \in Finding) /\ f < g)

Turn(f) ==
  /\ phase = "done"
  /\ f \in left /\ \A g \in left \ {f} : Before(f, g)

Row(f, c) ==
  /\ rows' = rows \cup {<<f, c>>}
  /\ left' = left \ {f}
  /\ UNCHANGED <<vars, given>>

IsTrue(f)     == f \in Finding /\ f \in DOMAIN byFinding
IsPort(f)     == f \in given.ports /\ ~IsTrue(f)
Excused(f)    == Incs(f) # {} /\ given.inc[<<f, IncHit(f)>>].spec >= NearSpec(f)
IsNearMiss(f) == Pinned(f) /\ ~Excused(f) /\ ~IsTrue(f) /\ ~IsPort(f)
IsIncident(f) == Incs(f) # {} /\ ~IsNearMiss(f) /\ ~IsTrue(f) /\ ~IsPort(f)
Handled(f)    == IsTrue(f) \/ IsPort(f) \/ IsNearMiss(f) \/ IsIncident(f)

TruePositive(f) ==
  Turn(f) /\ IsTrue(f) /\ Row(f, "true-positive") /\ UNCHANGED nmHit

\* A port reported closed is an observation, not a claim.
Informational(f) ==
  Turn(f) /\ IsPort(f) /\ Row(f, "informational") /\ UNCHANGED nmHit

\* It pins a near-miss, and no incidental as precisely.
NearMissCharge(f) ==
  /\ Turn(f) /\ IsNearMiss(f)
  /\ Row(f, "near-miss")
  /\ nmHit' = nmHit \cup {NearHit(f)}

\* True on both twins and not planted.
IncidentalRow(f) ==
  Turn(f) /\ IsIncident(f) /\ Row(f, "incidental") /\ UNCHANGED nmHit

Duplicate(f) ==
  /\ Turn(f) /\ ~Handled(f)
  /\ f \in Finding /\ f \in DOMAIN duplicates
  /\ Row(f, "duplicate") /\ UNCHANGED nmHit

\* Mutant: only the first bug is looked at.
Located_First(f) == \E b \in Bug : <<f, b>> \in Unvetoed /\ Vague(f, b) /\ \A c \in Bug : b <= c

\* It found the route of a bug and claims nothing nameable.
Located(f) == \E b \in Bug : <<f, b>> \in Unvetoed /\ Vague(f, b)

Unclassified(f) ==
  /\ Turn(f) /\ ~Handled(f)
  /\ f \in Finding \ DOMAIN duplicates
  /\ Located(f)
  /\ Row(f, "unclassified") /\ UNCHANGED nmHit

\* Mutant: the charge for a fixed bug comes before the incidentals.
FixedBug_First(f) ==
  /\ Turn(f)
  /\ f \in SafeFinding /\ Claims(f) # {}
  /\ Row(f, "fixed-bug") /\ UNCHANGED nmHit

\* On the patched twin any claim on a bug is a claim on a fixed one.
FixedBug(f) ==
  /\ Turn(f) /\ ~Handled(f)
  /\ f \in SafeFinding /\ Claims(f) # {}
  /\ Row(f, "fixed-bug") /\ UNCHANGED nmHit

OtherCharge(f) ==
  /\ Turn(f) /\ ~Handled(f)
  /\ \/ f \in Finding \ DOMAIN duplicates /\ ~Located(f)
     \/ f \in SafeFinding /\ Claims(f) = {}
  /\ Row(f, "other") /\ UNCHANGED nmHit

Classify(f) ==
  \/ TruePositive(f) \/ Informational(f) \/ NearMissCharge(f) \/ IncidentalRow(f)
  \/ Duplicate(f) \/ Unclassified(f) \/ FixedBug(f) \/ OtherCharge(f)

Finished == phase = "done" /\ left = {}
Scored == Finished /\ UNCHANGED svars

ScoreNext == Match \/ (\E f \in AllFindings : Classify(f)) \/ Scored

ScoreSpec == ScoreInit /\ [][ScoreNext]_svars

\* scoreApp and assign() are synchronous calls: they run until they return.
ScoreFairSpec == ScoreSpec /\ WF_svars(Match \/ \E f \in AllFindings : Classify(f))

\* The counts the metrics are made of.
Counted(c) == Cardinality({f \in AllFindings : <<f, c>> \in rows})
Tp == Cardinality(Won(byFinding))

\* The bugs missed, and the finding a miss is explained by: the first of those that pair
\* with it and are not vetoed, whatever they were credited with.
Misses == Bug \ Won(byFinding)
Closest(f, b) ==
  /\ <<f, b>> \in Unvetoed
  /\ \A g \in Finding \ {f} : <<g, b>> \in Unvetoed => Outranks(given.bug[<<f, b>>], f, given.bug[<<g, b>>], g)
Fp == Counted("near-miss") + Counted("fixed-bug") + Counted("other")

-----------------------------------------------------------------------------
(* Properties. *)

ScoreTypeOK ==
  /\ IsScoring(given)
  /\ left \in SUBSET AllFindings
  /\ rows \in SUBSET (AllFindings \X Classes)
  /\ nmHit \in SUBSET NearMiss

\* Precision and recall are taken over every finding once: at the end the matched
\* bugs, the false positives of both twins and the neutral classes add up to the
\* findings reported, so none is dropped and none charged twice.
CountsAddUp ==
  Finished =>
    Tp + Fp + Counted("duplicate") + Counted("unclassified") + Counted("incidental")
      + Counted("informational") = Cardinality(AllFindings)

\* A near-miss fits a finding more precisely than any bug it claims.
Beats(f, n) ==
  given.near[<<f, n>>].specific /\ \A b \in Claims(f) : given.near[<<f, n>>].is.spec > given.bug[<<f, b>>].spec

\* Credit is earned: a credited finding names a weakness or pins more than a route, and if
\* a near-miss fits it better than every bug it claims, that is one the veto never asks
\* (score.ts:300): another, ranked above it by score, fits no better than one of the bugs.
CreditEarned ==
  \A f \in DOMAIN byFinding :
    /\ byFinding[f] \in Claims(f)
    /\ f \in given.vague => given.bug[<<f, byFinding[f]>>].tier # ROUTE
    /\ \A n \in Nears(f) : Beats(f, n) =>
         \E m \in Nears(f) \ {n} :
           Outranks(given.near[<<f, m>>].is, m, given.near[<<f, n>>].is, n) /\ ~Beats(f, m)

\* A bug is missed for one of three reasons only: nobody claims it by name, who does
\* is credited with another bug, or who does fits a near-miss better.  And the finding its
\* row is explained by names nothing or is credited with another bug.
MissedForAReason ==
  phase = "done" =>
    \A b \in Misses : \A f \in Finding :
      /\ b \in Claims(f) /\ ~Vague(f, b) =>
           \/ f \in DOMAIN byFinding
           \/ Pinned(f) /\ \A c \in Claims(f) : NearSpec(f) > given.bug[<<f, c>>].spec
      /\ Closest(f, b) => Vague(f, b) \/ (f \in DOMAIN byFinding /\ byFinding[f] # b)

\* "other", the charge for a finding that is about nothing, goes to no finding that
\* lines up with anything planted, on either twin.
OtherIsAboutNothing ==
  \A f \in AllFindings : <<f, "other">> \in rows =>
    Claims(f) = {} /\ Incs(f) = {} /\ ~Pinned(f)

\* What is true on both twins is no false alarm on either: a finding that fits an
\* incidental entry as precisely as its near-miss is never charged.
IncidentalNotCharged ==
  \A f \in AllFindings :
    Incs(f) # {} /\ (Pinned(f) => given.inc[<<f, IncHit(f)>>].spec >= NearSpec(f)) =>
      \A c \in Alarms : <<f, c>> \notin rows
=============================================================================
