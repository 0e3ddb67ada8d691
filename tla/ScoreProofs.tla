---------------------------- MODULE ScoreProofs -----------------------------
(* For any report, answer key and weights: every finding gets one class,   *)
(* credit is earned, and what is true on both twins is not charged.  What  *)
(* the assignment guarantees is taken from AssignProofs: scoring runs it   *)
(* on its own list of candidates and then leaves its result alone.         *)
EXTENDS Score, AssignProofs

-----------------------------------------------------------------------------
(* Scoring is a run of assign() with a report written afterwards. *)

LEMMA StepsAssign == [ScoreNext]_svars => [Next]_vars
<1>1. ASSUME Match PROVE Next
  BY <1>1 DEF Match, Next
<1>2. ASSUME NEW f \in AllFindings, Classify(f) PROVE UNCHANGED vars
  BY <1>2 DEF Classify, TruePositive, Informational, NearMissCharge, IncidentalRow, Duplicate,
     Unclassified, FixedBug, OtherCharge, Row
<1>3. ASSUME Scored \/ UNCHANGED svars PROVE UNCHANGED vars
  BY <1>3 DEF Scored, svars
<1> QED
  BY <1>1, <1>2, <1>3 DEF ScoreNext

\* Whatever holds of every run of assign() holds while scoring.
LEMMA RunsAssign == ScoreSpec => Spec
<1>1. ScoreInit => Init
  BY DEF ScoreInit
<1> QED
  BY <1>1, StepsAssign, PTL DEF ScoreSpec, Spec

\* The result appears in one step, at the end.
Silent == phase # "done" => byFinding = <<>> /\ rows = {}

LEMMA AssignSteps == ASSUME Step PROVE phase # "done" /\ cand' = cand
BY DEF Step, Try, VisitFree, VisitHeld, DeadEnd, Take, Finish

-----------------------------------------------------------------------------
(* The inductive invariant. *)

\* Every finding is either still to be classified or in exactly one row.
OneClass ==
  /\ \A f \in AllFindings : f \in left <=> \A c \in Classes : <<f, c>> \notin rows
  /\ \A f \in AllFindings : \A c, d \in Classes : <<f, c>> \in rows /\ <<f, d>> \in rows => c = d

\* Nothing planted is near what the finding says.
Idle(f) ==
  \/ f \in Finding \ DOMAIN duplicates /\ ~Located(f)
  \/ f \in SafeFinding /\ Claims(f) = {}

\* A charge stands for a reason that never changes.
Charged ==
  /\ \A f \in AllFindings : <<f, "near-miss">> \in rows => Pinned(f) /\ ~Excused(f)
  /\ \A f \in AllFindings : \A c \in {"fixed-bug", "other"} : <<f, c>> \in rows => ~Handled(f)
  /\ \A f \in AllFindings : <<f, "other">> \in rows => Idle(f)

ScoreInv == ScoreTypeOK /\ cand = Admitted /\ Silent /\ OneClass /\ Charged

LEMMA ScoreInitInv == ScoreInit => ScoreInv
BY ScoreAssumption DEF ScoreInit, Init, ScoreInv, ScoreTypeOK, Silent, OneClass, Charged

\* The operators over the input keep their values.
LEMMA InputStays ==
  ASSUME UNCHANGED given
  PROVE  /\ Admitted' = Admitted
         /\ \A f \in AllFindings : Pinned(f)' = Pinned(f) /\ Excused(f)' = Excused(f)
BY DEF Admitted, Unvetoed, Vetoed, Vague, Claims, Pinned, Excused, NearSpec, NearHit, Nears, IncHit, Incs

LEMMA ResultStays ==
  ASSUME UNCHANGED <<vars, given>>, NEW f \in AllFindings
  PROVE  Handled(f)' = Handled(f) /\ Idle(f)' = Idle(f)
<1>1. UNCHANGED <<byFinding, duplicates, given>>
  BY DEF vars, result
<1>2. Handled(f)' = Handled(f)
  BY <1>1 DEF Handled, IsTrue, IsPort, IsNearMiss, IsIncident, Pinned, Excused,
     NearSpec, NearHit, Nears, IncHit, Incs
<1>3. Idle(f)' = Idle(f)
  BY <1>1 DEF Idle, Located, Unvetoed, Vetoed, Vague, Claims, Pinned, NearSpec, NearHit, Nears
<1> QED
  BY <1>2, <1>3

\* What a class action does, whichever it is: one row for one finding.
LEMMA ClassifyIs ==
  ASSUME ScoreTypeOK, NEW f \in AllFindings, Classify(f)
  PROVE  /\ UNCHANGED <<vars, given>> /\ phase = "done" /\ f \in left
         /\ left' = left \ {f}
         /\ \E c \in Classes :
              /\ rows' = rows \cup {<<f, c>>}
              /\ c = "near-miss" => Pinned(f) /\ ~Excused(f)
              /\ c \in {"fixed-bug", "other"} => ~Handled(f)
              /\ c = "other" => Idle(f)
<1>1. ASSUME NEW c \in Classes, Turn(f), Row(f, c),
             c = "near-miss" => Pinned(f) /\ ~Excused(f),
             c \in {"fixed-bug", "other"} => ~Handled(f), c = "other" => Idle(f)
      PROVE  /\ UNCHANGED <<vars, given>> /\ phase = "done" /\ f \in left
             /\ left' = left \ {f}
             /\ \E d \in Classes :
                  /\ rows' = rows \cup {<<f, d>>}
                  /\ d = "near-miss" => Pinned(f) /\ ~Excused(f)
                  /\ d \in {"fixed-bug", "other"} => ~Handled(f)
                  /\ d = "other" => Idle(f)
  BY <1>1 DEF Turn, Row
<1>2. CASE TruePositive(f)
  BY <1>1, <1>2 DEF TruePositive, Classes
<1>3. CASE Informational(f)
  BY <1>1, <1>3 DEF Informational, Classes
<1>4. CASE NearMissCharge(f)
  BY <1>1, <1>4 DEF NearMissCharge, IsNearMiss, Classes
<1>5. CASE IncidentalRow(f)
  BY <1>1, <1>5 DEF IncidentalRow, Classes
<1>6. CASE Duplicate(f)
  BY <1>1, <1>6 DEF Duplicate, Classes
<1>7. CASE Unclassified(f)
  BY <1>1, <1>7 DEF Unclassified, Classes
<1>8. CASE FixedBug(f)
  BY <1>1, <1>8 DEF FixedBug, Classes
<1>9. CASE OtherCharge(f)
  BY <1>1, <1>9 DEF OtherCharge, Idle, Classes
<1> QED
  BY <1>2, <1>3, <1>4, <1>5, <1>6, <1>7, <1>8, <1>9 DEF Classify

LEMMA HitIsNearMiss ==
  ASSUME ScoreTypeOK, NEW f \in AllFindings, Nears(f) # {}
  PROVE  NearHit(f) \in NearMiss
<1>1. \E n \in Nears(f) : \A m \in Nears(f) \ {n} :
        Outranks(given.near[<<f, n>>].is, n, given.near[<<f, m>>].is, m)
  BY DEF ScoreTypeOK, IsScoring, Nears
<1>2. NearHit(f) \in Nears(f)
  BY <1>1 DEF NearHit
<1> QED
  BY <1>2 DEF Nears

LEMMA HitsAreNearMisses ==
  ASSUME ScoreTypeOK, NEW f \in AllFindings, Classify(f)
  PROVE  nmHit' \in SUBSET NearMiss
<1>1. ASSUME NearMissCharge(f) PROVE nmHit' \in SUBSET NearMiss
  BY <1>1, HitIsNearMiss DEF NearMissCharge, IsNearMiss, Pinned, ScoreTypeOK
<1>2. ASSUME UNCHANGED nmHit PROVE nmHit' \in SUBSET NearMiss
  BY <1>2 DEF ScoreTypeOK
<1> QED
  BY <1>1, <1>2 DEF Classify, TruePositive, Informational, IncidentalRow, Duplicate,
     Unclassified, FixedBug, OtherCharge

LEMMA ClassifyKeepsInv ==
  ASSUME ScoreInv, NEW f \in AllFindings, Classify(f)
  PROVE  ScoreInv'
<1>1. PICK c \in Classes :
        /\ rows' = rows \cup {<<f, c>>}
        /\ c = "near-miss" => Pinned(f) /\ ~Excused(f)
        /\ c \in {"fixed-bug", "other"} => ~Handled(f)
        /\ c = "other" => Idle(f)
  BY ClassifyIs DEF ScoreInv
<1>2. UNCHANGED <<vars, given>> /\ phase = "done" /\ f \in left /\ left' = left \ {f}
  BY ClassifyIs DEF ScoreInv
<1>3. ScoreTypeOK'
  BY <1>1, <1>2, HitsAreNearMisses DEF ScoreInv, ScoreTypeOK
<1>4. (cand = Admitted)'
  BY <1>2, InputStays DEF ScoreInv, vars
<1>5. Silent'
  BY <1>2 DEF Silent, vars
<1>6. OneClass'
  BY <1>1, <1>2 DEF ScoreInv, OneClass
<1>7. Charged'
  <2>1. ASSUME NEW g \in AllFindings, (<<g, "near-miss">> \in rows)'
        PROVE  (Pinned(g) /\ ~Excused(g))'
    BY <1>1, <1>2, <2>1, InputStays DEF ScoreInv, Charged
  <2>2. ASSUME NEW g \in AllFindings, NEW d \in {"fixed-bug", "other"}, (<<g, d>> \in rows)'
        PROVE  (~Handled(g))'
    BY <1>1, <1>2, <2>2, ResultStays DEF ScoreInv, Charged
  <2>3. ASSUME NEW g \in AllFindings, (<<g, "other">> \in rows)'
        PROVE  Idle(g)'
    BY <1>1, <1>2, <2>3, ResultStays DEF ScoreInv, Charged
  <2> QED
    BY <2>1, <2>2, <2>3 DEF Charged
<1> QED
  BY <1>3, <1>4, <1>5, <1>6, <1>7 DEF ScoreInv

LEMMA MatchKeepsInv == ASSUME ScoreInv, Match PROVE ScoreInv'
<1>1. Step /\ UNCHANGED <<given, left, rows, nmHit>> /\ phase # "done" /\ cand' = cand /\ rows = {}
  BY AssignSteps DEF Match, report, ScoreInv, Silent
<1>2. ScoreTypeOK'
  BY <1>1 DEF ScoreInv, ScoreTypeOK
<1>3. (cand = Admitted)'
  BY <1>1, InputStays DEF ScoreInv
<1>4. Silent'
  BY <1>1 DEF ScoreInv, Silent, Step, Try, VisitFree, VisitHeld, DeadEnd, Take, Finish, result
<1>5. OneClass' /\ Charged'
  BY <1>1 DEF ScoreInv, OneClass, Charged
<1> QED
  BY <1>2, <1>3, <1>4, <1>5 DEF ScoreInv

LEMMA StutterKeepsInv == ASSUME ScoreInv, UNCHANGED svars PROVE ScoreInv'
<1>1. UNCHANGED <<vars, given, left, rows, nmHit, cand, phase, byFinding>>
  BY DEF svars, report, vars, result
<1>2. ScoreTypeOK' /\ Silent' /\ OneClass'
  BY <1>1 DEF ScoreInv, ScoreTypeOK, Silent, OneClass
<1>3. (cand = Admitted)'
  BY <1>1, InputStays DEF ScoreInv
<1>4. Charged'
  BY <1>1, InputStays, ResultStays DEF ScoreInv, Charged
<1> QED
  BY <1>2, <1>3, <1>4 DEF ScoreInv

LEMMA ScoreInductive == ScoreSpec => []ScoreInv
<1>1. ScoreInv /\ [ScoreNext]_svars => ScoreInv'
  BY MatchKeepsInv, ClassifyKeepsInv, StutterKeepsInv DEF ScoreNext, Scored
<1> QED
  BY <1>1, ScoreInitInv, PTL DEF ScoreSpec

-----------------------------------------------------------------------------
(* What follows. *)

\* Whatever the report and the answer key, the state keeps its types.
THEOREM ScoreTypeCorrect == ScoreSpec => []ScoreTypeOK
<1>1. ScoreInv => ScoreTypeOK
  BY DEF ScoreInv
<1> QED
  BY <1>1, ScoreInductive, PTL

\* Once scoring is over every finding of both twins is in one class, and in no other.
THEOREM OneClassEach ==
  ScoreSpec => [](Finished => \A f \in AllFindings :
                    /\ \E c \in Classes : <<f, c>> \in rows
                    /\ \A c, d \in Classes : <<f, c>> \in rows /\ <<f, d>> \in rows => c = d)
<1>1. ScoreInv => (Finished => \A f \in AllFindings :
                    /\ \E c \in Classes : <<f, c>> \in rows
                    /\ \A c, d \in Classes : <<f, c>> \in rows /\ <<f, d>> \in rows => c = d)
  BY DEF ScoreInv, OneClass, Finished
<1> QED
  BY <1>1, ScoreInductive, PTL

\* Nothing that is true on both twins is charged, on either.
THEOREM TrueIsNoAlarm == ScoreSpec => []IncidentalNotCharged
<1>1. ScoreInv => IncidentalNotCharged
  <2> SUFFICES ASSUME ScoreInv, NEW f \in AllFindings, Incs(f) # {},
                      Pinned(f) => Excused(f), NEW c \in Alarms, <<f, c>> \in rows
               PROVE  FALSE
    BY DEF IncidentalNotCharged, Excused
  <2>1. c # "near-miss"
    BY DEF ScoreInv, Charged
  <2>2. ~Handled(f)
    BY <2>1 DEF ScoreInv, Charged, Alarms
  <2> QED
    BY <2>2 DEF Handled, IsIncident
<1> QED
  BY <1>1, ScoreInductive, PTL

\* The near-miss the veto asks is one the finding hits, and outranks all others it hits.
LEMMA HitIsFirst ==
  ASSUME ScoreTypeOK, NEW f \in AllFindings, Nears(f) # {}
  PROVE  /\ NearHit(f) \in Nears(f)
         /\ \A m \in Nears(f) \ {NearHit(f)} :
              Outranks(given.near[<<f, NearHit(f)>>].is, NearHit(f), given.near[<<f, m>>].is, m)
<1>1. \E n \in Nears(f) : \A m \in Nears(f) \ {n} :
        Outranks(given.near[<<f, n>>].is, n, given.near[<<f, m>>].is, m)
  BY DEF ScoreTypeOK, IsScoring, Nears
<1> QED
  BY <1>1 DEF NearHit

\* Whatever the report and however many near-misses it hits, a credited finding claims the
\* bug it is credited with, by name or by more than a route; a near-miss that fits it better
\* than all its bugs stands behind one that does not.
THEOREM CreditIsEarned == ScoreSpec => []CreditEarned
<1>1. ScoreInv /\ OneToOne => CreditEarned
  <2> SUFFICES ASSUME ScoreInv, OneToOne, NEW f \in DOMAIN byFinding
               PROVE  /\ byFinding[f] \in Claims(f)
                      /\ f \in given.vague => given.bug[<<f, byFinding[f]>>].tier # ROUTE
                      /\ \A n \in Nears(f) : Beats(f, n) =>
                           \E m \in Nears(f) \ {n} :
                             Outranks(given.near[<<f, m>>].is, m, given.near[<<f, n>>].is, n) /\ ~Beats(f, m)
    BY DEF CreditEarned
  <2>1. phase = "done"
    BY DEF ScoreInv, Silent
  <2>2. PICK b \in Bug : f = gtOwner[b] /\ gtOwner[b] # None /\ byFinding[f] = b
    BY <2>1 DEF OneToOne
  <2>3. <<f, b>> \in DOMAIN Admitted
    BY <2>2 DEF OneToOne, ScoreInv
  <2>4. <<f, b>> \in Unvetoed /\ ~Vague(<<f, b>>[1], <<f, b>>[2])
    BY <2>3 DEF Admitted
  <2>5. /\ <<f, b>> \in DOMAIN given.bug /\ f \in Finding
        /\ ~Vetoed(f) /\ ~Vague(f, b)
    BY <2>4 DEF Unvetoed
  <2>6. ASSUME NEW n \in Nears(f), Beats(f, n)
        PROVE  \E m \in Nears(f) \ {n} :
                 Outranks(given.near[<<f, m>>].is, m, given.near[<<f, n>>].is, n) /\ ~Beats(f, m)
    <3>1. /\ NearHit(f) \in Nears(f)
          /\ n # NearHit(f) => Outranks(given.near[<<f, NearHit(f)>>].is, NearHit(f), given.near[<<f, n>>].is, n)
      BY <2>5, HitIsFirst DEF ScoreInv, AllFindings
    <3>2. ~Beats(f, NearHit(f))
      BY <2>5, <3>1 DEF Vetoed, Pinned, NearSpec, Beats
    <3> QED
      BY <2>6, <3>1, <3>2
  <2> QED
    BY <2>2, <2>5, <2>6 DEF Claims, Vague
<1> QED
  BY <1>1, ScoreInductive, RunsAssign, CreditOnce, PTL

\* On any report, the charge "other" goes only to findings about nothing planted: a
\* claim the finding is not vetoed for takes part in the assignment, where it wins
\* or loses to a credited one (NobodyFallsThrough).
THEOREM OthersMeanNothing == ScoreSpec => []OtherIsAboutNothing
<1>1. ScoreInv /\ NoneLost => OtherIsAboutNothing
  <2> SUFFICES ASSUME ScoreInv, NoneLost, NEW f \in AllFindings, <<f, "other">> \in rows
               PROVE  Claims(f) = {} /\ Incs(f) = {} /\ ~Pinned(f)
    BY DEF OtherIsAboutNothing
  <2>1. ~Handled(f) /\ Idle(f) /\ phase = "done"
    BY DEF ScoreInv, Charged, Silent
  <2>2. Incs(f) = {} /\ ~Pinned(f)
    BY <2>1 DEF Handled, IsIncident, IsNearMiss, Excused
  <2>3. CASE f \in Finding \ DOMAIN duplicates /\ ~Located(f)
    <3>1. Adj(f) = {}
      BY <2>1, <2>3 DEF NoneLost, Handled, IsTrue
    <3>2. ASSUME NEW b \in Claims(f) PROVE FALSE
      <4>1. <<f, b>> \in DOMAIN given.bug /\ b \in Bug
        BY DEF Claims
      <4>2. <<f, b>> \in Unvetoed
        BY <2>2, <2>3, <4>1 DEF Unvetoed, Vetoed
      <4>3. ~Vague(f, b)
        BY <2>3, <4>1, <4>2 DEF Located
      <4>4. <<f, b>> \in DOMAIN Admitted
        BY <4>2, <4>3 DEF Admitted
      <4> QED
        BY <3>1, <4>1, <4>4 DEF ScoreInv, Adj
    <3> QED
      BY <2>2, <3>2
  <2>4. CASE f \in SafeFinding /\ Claims(f) = {}
    BY <2>2, <2>4
  <2> QED
    BY <2>1, <2>3, <2>4 DEF Idle
<1> QED
  BY <1>1, ScoreInductive, RunsAssign, NobodyFallsThrough, PTL

\* On any report a bug nobody is credited with was claimed by name only by findings
\* that have another bug or that a near-miss vetoed; the finding its row is explained by
\* names nothing or has another bug.
THEOREM MissesHaveReasons == ScoreSpec => []MissedForAReason
<1>1. ScoreInv /\ Beaten => MissedForAReason
  <2>a. SUFFICES ASSUME ScoreInv, Beaten, phase = "done", NEW b \in Misses, NEW f \in Finding
                 PROVE  /\ b \in Claims(f) /\ ~Vague(f, b) => f \in DOMAIN byFinding \/ Vetoed(f)
                        /\ Closest(f, b) => Vague(f, b) \/ (f \in DOMAIN byFinding /\ byFinding[f] # b)
    BY DEF MissedForAReason, Vetoed
  <2>b. b \in Bug /\ (f \in DOMAIN byFinding => byFinding[f] # b)
    BY DEF Misses, Won
  <2>c. Closest(f, b) => b \in Claims(f) /\ ~Vetoed(f)
    BY <2>b DEF Closest, Unvetoed, Claims
  <2>d. SUFFICES ASSUME b \in Claims(f), ~Vague(f, b), f \notin DOMAIN byFinding, ~Vetoed(f)
                 PROVE  FALSE
    BY <2>b, <2>c
  <2>1. <<f, b>> \in Unvetoed
    BY <2>d DEF Unvetoed, Claims
  <2>2. <<f, b>> \in DOMAIN Admitted
    BY <2>1, <2>d DEF Admitted
  <2>3. b \in Adj(f)
    BY <2>2, <2>a, <2>b DEF ScoreInv, Adj
  <2> QED
    BY <2>3, <2>a, <2>d DEF Beaten, Misses
<1> QED
  BY <1>1, ScoreInductive, RunsAssign, AlwaysBeaten, PTL
=============================================================================
