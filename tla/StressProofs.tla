----------------------------- MODULE StressProofs -----------------------------
(* For any durations, loads and faults: the variables of Stress keep their     *)
(* types, and a run that passes has seen what it claims.                        *)
EXTENDS Stress, TLAPS

Early == {"begin", "find", "baseline"}
Late  == {"recovery", "grade", "probe", "verdict", "finally", "end"}

\* Why the counters stay in range: what the clock has left of a phase or of the
\* recovery bounds what is still counted in it.
Clocked ==
  /\ pc \in Early => probes = 0 /\ oks = 0 /\ stable = 0
  /\ pc = "crawl" => probes + clock <= Seconds
  /\ InPhase => stable = 0
  /\ pc = "recovery" => stable + clock <= RecoverBudget

\* What each check rests on, from the step that reads it to the verdict.
Observed ==
  /\ idle => pc \in Late /\ last # None /\ last.cpu <= CpuCeil
  /\ passed => /\ pc \in {"finally", "end"} /\ probes > 0 /\ 20 * oks >= 19 * probes
            /\ container /\ state = "good" /\ idle /\ after

Flags ==
  /\ keep \in BOOLEAN /\ dosBugs \in BOOLEAN /\ mine \in BOOLEAN /\ container \in BOOLEAN /\ oom \in BOOLEAN
  /\ working \in BOOLEAN /\ idle \in BOOLEAN /\ after \in BOOLEAN /\ passed \in BOOLEAN

Values ==
  /\ stack \in {"absent", "up", "hung", "dead"} /\ deaths \in 0..MaxDeaths
  /\ pc \in Early \cup {"crawl", "dos"} \cup Late
  /\ base \in Loads \cup {Zero} /\ last \in Loads \cup {Zero, None}
  /\ clock \in 0..Max2(Seconds, RecoverBudget)
  /\ probes \in 0..Seconds /\ oks \in 0..probes /\ stable \in 0..RecoverBudget
  /\ state \in {"none", "good", "bad"} /\ exit \in {0, 1}

StressInv == Flags /\ Values /\ Clocked /\ Observed

LEMMA BudgetsAreNat ==
  /\ Seconds \in Nat \ {0} /\ RecoverBudget \in Nat /\ MaxDeaths \in Nat
  /\ Max2(Seconds, RecoverBudget) \in Nat
  /\ Seconds <= Max2(Seconds, RecoverBudget) /\ RecoverBudget <= Max2(Seconds, RecoverBudget)
BY StressAssumption DEF Max2

LEMMA SpendOne ==
  ASSUME NEW n \in Nat, NEW c \in Nat, NEW budget \in Nat, NEW m \in {0, n, n + 1}, c > 0, n + c <= budget
  PROVE  m + (c - 1) <= budget
OBVIOUS

LEMMA TypesSplit == StressTypeOK <=> Flags /\ Values
BY DEF StressTypeOK, Flags, Values, Early, Late

LEMMA StressInitInv == StressInit => StressInv
<1> SUFFICES ASSUME StressInit PROVE StressInv
  OBVIOUS
<1>1. Flags
  BY Zenon DEF StressInit, Flags
<1>2. Values
  BY BudgetsAreNat DEF StressInit, Values, Early
<1>3. Clocked
  BY DEF StressInit, Clocked, Early, InPhase
<1>4. Observed
  BY DEF StressInit, Observed
<1> QED
  BY <1>1, <1>2, <1>3, <1>4 DEF StressInv

\* What the app does is not the command's business.
LEMMA EnvKeepsInv ==
  ASSUME StressInv, Die \/ Restart \/ Hang \/ Answers
  PROVE  StressInv'
<1>1. Env
  BY DEF Die, Restart, Hang, Answers
<1>2. stack' \in {"absent", "up", "hung", "dead"} /\ deaths' \in 0..MaxDeaths
  BY BudgetsAreNat DEF StressInv, Values, Die, Restart, Hang, Answers
<1>3. oom' \in BOOLEAN
  BY Zenon DEF StressInv, Flags, Die, Restart, Hang, Answers
<1>4. Flags' /\ Values'
  BY <1>1, <1>2, <1>3 DEF StressInv, Flags, Values, Env, crawl, recov
<1>5. Clocked'
  BY <1>1 DEF StressInv, Clocked, Env, crawl, recov, Early, InPhase
<1>6. Observed'
  BY <1>1 DEF StressInv, Observed, Env, Late, CpuCeil, crawl, recov
<1> QED
  BY <1>4, <1>5, <1>6 DEF StressInv

LEMMA CommandKeepsInv ==
  ASSUME StressInv, Command
  PROVE  StressInv'
<1>1. CASE Begin
  <2>1. Flags'
    BY <1>1, Zenon DEF StressInv, Flags, Begin, machine, crawl, recov
  <2>2. Values'
    BY <1>1, BudgetsAreNat DEF StressInv, Values, Early, Late, Begin, machine, crawl, recov
  <2>3. Clocked'
    BY <1>1, BudgetsAreNat DEF StressInv, Values, Clocked, Early, InPhase, Begin, machine, crawl, recov
  <2>4. Observed'
    BY <1>1 DEF StressInv, Observed, Late, CpuCeil, Begin, machine, crawl, recov
  <2> QED
    BY <2>1, <2>2, <2>3, <2>4 DEF StressInv
<1>2. CASE Find
  <2>1. Flags'
    <3>1. container' = Alive \/ container' = FALSE
      BY <1>2 DEF Find
    <3>2. Alive = TRUE \/ Alive = FALSE
      BY DEF Alive
    <3> QED
      BY <1>2, <3>1, <3>2, Zenon DEF StressInv, Flags, Find, machine, crawl, recov
  <2>2. Values'
    BY <1>2, BudgetsAreNat DEF StressInv, Values, Early, Late, Find, machine, crawl, recov
  <2>3. Clocked'
    BY <1>2, BudgetsAreNat DEF StressInv, Values, Clocked, Early, InPhase, Find, machine, crawl, recov
  <2>4. Observed'
    BY <1>2 DEF StressInv, Observed, Late, CpuCeil, Find, machine, crawl, recov
  <2> QED
    BY <2>1, <2>2, <2>3, <2>4 DEF StressInv
<1>3. CASE Baseline
  <2>1. Flags'
    BY <1>3, Zenon DEF StressInv, Flags, Baseline, machine, crawl, recov
  <2>2. Values'
    BY <1>3, BudgetsAreNat DEF StressInv, Values, Early, Late, Baseline, Stats, Zero, machine, crawl, recov
  <2>3. Clocked'
    BY <1>3, BudgetsAreNat DEF StressInv, Values, Clocked, Early, InPhase, Baseline, machine, crawl, recov
  <2>4. Observed'
    BY <1>3 DEF StressInv, Observed, Late, CpuCeil, Baseline, machine, crawl, recov
  <2> QED
    BY <2>1, <2>2, <2>3, <2>4 DEF StressInv
<1>4. CASE Monitor
  <2>1. Flags'
    BY <1>4, Zenon DEF StressInv, Flags, Monitor, machine, recov, crawl
  <2>2. Values'
    BY <1>4, BudgetsAreNat DEF StressInv, Values, Early, Late, Monitor, Clocked, InPhase, machine, recov, crawl
  <2>3. Clocked'
    BY <1>4, BudgetsAreNat DEF StressInv, Values, Clocked, Early, InPhase, Monitor, machine, recov, crawl
  <2>4. Observed'
    BY <1>4 DEF StressInv, Observed, Late, CpuCeil, Monitor, machine, recov, crawl
  <2> QED
    BY <2>1, <2>2, <2>3, <2>4 DEF StressInv
<1>5. CASE LoadReturns
  <2>1. Flags'
    BY <1>5, Zenon DEF StressInv, Flags, LoadReturns, machine, crawl, recov
  <2>2. Values'
    BY <1>5, BudgetsAreNat DEF StressInv, Values, Early, Late, LoadReturns, machine, crawl, recov
  <2>3. Clocked'
    BY <1>5, BudgetsAreNat DEF StressInv, Values, Clocked, Early, InPhase, LoadReturns, machine, crawl, recov
  <2>4. Observed'
    BY <1>5 DEF StressInv, Observed, Late, CpuCeil, LoadReturns, machine, crawl, recov
  <2> QED
    BY <2>1, <2>2, <2>3, <2>4 DEF StressInv
<1>6. CASE PhaseEnds
  <2>1. Flags'
    BY <1>6, Zenon DEF StressInv, Flags, PhaseEnds, machine, crawl, recov
  <2>2. Values'
    BY <1>6, BudgetsAreNat DEF StressInv, Values, Early, Late, PhaseEnds, machine, crawl, recov
  <2>3. Clocked'
    BY <1>6, BudgetsAreNat DEF StressInv, Values, Clocked, Early, InPhase, PhaseEnds, machine, crawl, recov
  <2>4. Observed'
    BY <1>6 DEF StressInv, Observed, Late, InPhase, PhaseEnds, machine, crawl, recov
  <2> QED
    BY <2>1, <2>2, <2>3, <2>4 DEF StressInv
<1>7. CASE Recover
  <2> DEFINE Over == ~container \/ clock = 0 \/ idle
  <2>1. CASE Over
    <3>1. pc = "recovery" /\ pc' = "grade" /\ UNCHANGED <<clock, last, stable, idle>>
      BY <1>7, <2>1 DEF Recover, recov
    <3>2. Flags'
      BY <1>7, <3>1, Zenon DEF StressInv, Flags, Recover, machine
    <3>3. Values' /\ Clocked' /\ Observed'
      BY <1>7, <3>1 DEF StressInv, Values, Clocked, Observed, InPhase, Early, Late, CpuCeil, Recover, machine, crawl
    <3> QED
      BY <3>2, <3>3 DEF StressInv
  <2>2. CASE ~Over
    <3>1. pc = "recovery" /\ ~idle /\ clock > 0 /\ clock' = clock - 1 /\ pc' = pc
      BY <1>7, <2>2 DEF Recover, StressInv, Values
    <3>2. PICK s \in Stats :
            IF s = None THEN UNCHANGED recov
            ELSE /\ last' = s
                 /\ stable' = IF Settled(s) THEN stable + 1 ELSE 0
                 /\ idle' = (s.cpu <= CpuCeil /\ stable' >= 2)
      BY <1>7, <2>2 DEF Recover
    <3>3. s \in Loads \cup {Zero, None}
      BY DEF Stats
    <3>4. Flags'
      BY <1>7, <3>2, Zenon DEF StressInv, Flags, Recover, machine, recov
    <3>5. last' \in Loads \cup {Zero, None} /\ stable' \in {0, stable, stable + 1}
      BY <3>2, <3>3 DEF StressInv, Values, recov
    <3>6. Values'
      BY <1>7, <3>1, <3>5, BudgetsAreNat DEF StressInv, Values, Clocked, Late, Recover, machine, crawl
    <3>7. Clocked'
      <4>1. stable + clock <= RecoverBudget /\ stable \in Nat /\ clock \in Nat
        BY <3>1, BudgetsAreNat DEF StressInv, Values, Clocked
      <4>2. stable' + clock' <= RecoverBudget
        BY <3>1, <3>5, <4>1, BudgetsAreNat, SpendOne
      <4> QED
        BY <3>1, <4>2 DEF Clocked, Early, InPhase
    <3>8. idle' => last' # None /\ last'.cpu <= CpuCeil
      BY <3>1, <3>2 DEF recov
    <3>9. Observed'
      BY <1>7, <3>1, <3>8 DEF StressInv, Observed, Late, Recover, CpuCeil
    <3> QED
      BY <3>4, <3>6, <3>7, <3>9 DEF StressInv
  <2> QED
    BY <2>1, <2>2
<1>8. CASE ReadState
  <2>1. Flags'
    BY <1>8, Zenon DEF StressInv, Flags, ReadState, machine, crawl, recov
  <2>2. Values'
    BY <1>8, BudgetsAreNat DEF StressInv, Values, Early, Late, ReadState, machine, crawl, recov
  <2>3. Clocked'
    BY <1>8, BudgetsAreNat DEF StressInv, Values, Clocked, Early, InPhase, ReadState, machine, crawl, recov
  <2>4. Observed'
    BY <1>8 DEF StressInv, Observed, Late, CpuCeil, ReadState, machine, crawl, recov
  <2> QED
    BY <2>1, <2>2, <2>3, <2>4 DEF StressInv
<1>9. CASE ProbeAfter
  <2>1. Flags'
    BY <1>9, Zenon DEF StressInv, Flags, ProbeAfter, machine, crawl, recov
  <2>2. Values'
    BY <1>9, BudgetsAreNat DEF StressInv, Values, Early, Late, ProbeAfter, machine, crawl, recov
  <2>3. Clocked'
    BY <1>9, BudgetsAreNat DEF StressInv, Values, Clocked, Early, InPhase, ProbeAfter, machine, crawl, recov
  <2>4. Observed'
    BY <1>9 DEF StressInv, Observed, Late, CpuCeil, ProbeAfter, machine, crawl, recov
  <2> QED
    BY <2>1, <2>2, <2>3, <2>4 DEF StressInv
<1>10. CASE Grade
  <2>1. Flags'
    BY <1>10, Zenon DEF StressInv, Flags, Grade, machine, crawl, recov
  <2>2. Values'
    BY <1>10, BudgetsAreNat DEF StressInv, Values, Early, Late, Grade, machine, crawl, recov
  <2>3. Clocked'
    BY <1>10, BudgetsAreNat DEF StressInv, Values, Clocked, Early, InPhase, Grade, machine, crawl, recov
  <2>4. Observed'
    <3>1. passed' => Survived = "pass" /\ Contained = "pass" /\ Recovered = "pass"
      BY <1>10 DEF Grade
    <3>2. Survived = "pass" => probes > 0 /\ 20 * oks >= 19 * probes
      BY DEF StressInv, Values, Survived
    <3>3. Contained = "pass" => state = "good"
      BY DEF Contained
    <3>4. Recovered = "pass" => container /\ idle /\ after
      BY DEF Recovered, Sampled
    <3> QED
      BY <1>10, <3>1, <3>2, <3>3, <3>4 DEF StressInv, Observed, Late, CpuCeil, Grade, machine, crawl, recov
  <2> QED
    BY <2>1, <2>2, <2>3, <2>4 DEF StressInv
<1>11. CASE TearDown
  <2>1. Flags'
    BY <1>11, Zenon DEF StressInv, Flags, TearDown, crawl, recov
  <2>2. Values'
    BY <1>11, BudgetsAreNat DEF StressInv, Values, Early, Late, TearDown, crawl, recov
  <2>3. Clocked'
    BY <1>11, BudgetsAreNat DEF StressInv, Values, Clocked, Early, InPhase, TearDown, crawl, recov
  <2>4. Observed'
    BY <1>11 DEF StressInv, Observed, Late, CpuCeil, TearDown, crawl, recov
  <2> QED
    BY <2>1, <2>2, <2>3, <2>4 DEF StressInv
<1> QED
  BY <1>1, <1>2, <1>3, <1>4, <1>5, <1>6, <1>7, <1>8, <1>9, <1>10, <1>11 DEF Command

LEMMA StutterKeepsInv == StressInv /\ UNCHANGED svars => StressInv'
<1> SUFFICES ASSUME StressInv, UNCHANGED svars PROVE StressInv'
  OBVIOUS
<1>1. Flags'
  BY Zenon DEF StressInv, Flags, svars, machine, crawl, recov
<1>2. Values' /\ Clocked' /\ Observed'
  BY DEF StressInv, Values, Clocked, Observed, InPhase, CpuCeil, svars, machine, crawl, recov
<1> QED
  BY <1>1, <1>2 DEF StressInv

LEMMA StressInductive == StressSpec => []StressInv
<1>1. StressInv /\ [StressNext]_svars => StressInv'
  BY EnvKeepsInv, CommandKeepsInv, StutterKeepsInv DEF StressNext, Ended
<1> QED
  BY <1>1, StressInitInv, PTL DEF StressSpec

\* The variables keep their types for any durations: no counter runs past the time its
\* phase or the recovery has.
THEOREM StressTypeCorrect == StressSpec => []StressTypeOK
<1>1. StressInv => StressTypeOK
  BY TypesSplit DEF StressInv
<1> QED
  BY <1>1, StressInductive, PTL

\* However the app dies, hangs or comes back, and whatever docker does not tell: a run
\* that passes has had its crawl answered, a sample at rest, and after it the container's
\* state read as good and the app answering.
THEOREM PassIsObserved == StressSpec => []PassedWasObserved
<1>1. StressInv => PassedWasObserved
  BY DEF StressInv, Observed, PassedWasObserved
<1> QED
  BY <1>1, StressInductive, PTL
==============================================================================
