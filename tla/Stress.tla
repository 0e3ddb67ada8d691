------------------------------- MODULE Stress -------------------------------
(***************************************************************************)
(* `stress`: does an app keep answering while it is crawled, do its limits *)
(* hold, does it come back to idle?  A crawl phase, a phase that fires the *)
(* declared denial-of-service bugs, a wait for recovery, and three         *)
(* three-valued checks.  In a phase the load, a health monitor and a       *)
(* sampler run side by side until the phase's deadline.                    *)
(*                                                                         *)
(* The app may die under the load (docker may bring it back) or stop       *)
(* answering, and docker may have nothing to tell about it.                *)
(***************************************************************************)
EXTENDS Integers, FiniteSets

CONSTANTS
  Seconds,        \* --duration: how many probes a phase has time for
  RecoverBudget,  \* --recover: how many samples the recovery has time for
  Loads,          \* the samples docker stats can give: [cpu, rss]
  MaxDeaths,
  ComesBack,      \* restart: unless-stopped
  StatsFail,      \* docker stats or inspect may have no answer
  ListFails       \* docker ps may fail

Sample == [cpu : Nat, rss : Nat]
Zero   == [cpu |-> 0, rss |-> 0]       \* docker stats of a container that is stopped
None   == [cpu |-> 0 - 1, rss |-> 0]   \* no sample: docker stats failed, or had nothing to read

ASSUME StressAssumption ==
  /\ Seconds \in Nat \ {0} /\ RecoverBudget \in Nat /\ MaxDeaths \in Nat
  /\ Loads \subseteq Sample

VARIABLES
  keep, dosBugs,   \* --keep; whether the answer key declares such bugs
  stack,           \* the app's stack: absent, up, hung, dead
  oom,             \* what docker says of its last death; a start resets it
  deaths,          \* how often it has died since the baseline
  mine,            \* startedByUs
  container,       \* the app container was found
  pc,
  base,            \* the baseline's mean, 0 of no sample
  clock,           \* of the phase or the recovery
  working,         \* the load of the phase has not returned
  probes, oks,     \* of the crawl
  last, stable,    \* the recovery's last sample, and since when RSS stands still
  idle,            \* recoveredInS is not null
  state,           \* containerState: none, good, bad
  after,           \* healthAfter
  passed, exit

machine == <<stack, oom, deaths>>
crawl   == <<probes, oks>>
recov   == <<last, stable, idle>>
svars == <<keep, dosBugs, machine, mine, container, pc, base, clock, working, crawl, recov,
           state, after, passed, exit>>

Max2(a, b) == IF a >= b THEN a ELSE b
Alive == stack \in {"up", "hung"}

-----------------------------------------------------------------------------
\* Nothing up: the command starts the app itself, and lists the containers anew.
Begin ==
  /\ pc = "begin"
  /\ \/ Alive /\ UNCHANGED <<machine, mine>> /\ pc' = "find"
     \/ /\ ~Alive
        /\ \/ stack' = "up" /\ mine' = TRUE /\ pc' \in {"find"} \cup (IF ListFails THEN {"end"} ELSE {})
           \/ pc' = "end" /\ UNCHANGED <<stack, mine>>         \* startApp failed
        /\ oom' = FALSE /\ UNCHANGED deaths
  /\ exit' = IF pc' = "end" THEN 1 ELSE 0
  /\ UNCHANGED <<keep, dosBugs, container, base, clock, working, crawl, recov, state, after, passed>>

\* appContainerName: only what is running is listed.
Find ==
  /\ pc = "find" /\ pc' = "baseline"
  /\ container' \in {Alive} \cup (IF StatsFail THEN {FALSE} ELSE {})
  /\ UNCHANGED <<keep, dosBugs, machine, mine, base, clock, working, crawl, recov, state, after, passed, exit>>

\* statsOnce, as docker may answer now.  A stopped container has stats like any other:
\* no processor time and no memory.
Stats == (CASE container /\ Alive          -> Loads
            [] container /\ stack = "dead" -> {Zero}
            [] OTHER                       -> {None})
         \cup (IF StatsFail THEN {None} ELSE {})

Baseline ==
  /\ pc = "baseline" /\ pc' = "crawl"
  /\ \E s \in Stats : base' = IF s = None THEN Zero ELSE s
  /\ clock' = Seconds /\ working' = TRUE
  /\ UNCHANGED <<keep, dosBugs, machine, mine, container, crawl, recov, state, after, passed, exit>>

InPhase == pc \in {"crawl", "dos"}

\* stressPhase's monitor: one probe, then half a second's sleep.
Monitor ==
  /\ InPhase /\ clock > 0 /\ clock' = clock - 1
  /\ IF pc = "crawl" THEN probes' = probes + 1 /\ oks' = oks + (IF stack = "up" THEN 1 ELSE 0)
     ELSE UNCHANGED crawl
  /\ UNCHANGED <<keep, dosBugs, machine, mine, container, pc, base, working, recov, state, after, passed, exit>>

\* The workers return after the deadline.  A refused request of the crawl, or one that
\* times out, is a data point; a PoC of the second phase has no deadline of its own.
LoadReturns ==
  /\ InPhase /\ clock = 0 /\ working /\ working' = FALSE
  /\ pc = "dos" => stack # "hung"
  /\ UNCHANGED <<keep, dosBugs, machine, mine, container, pc, base, clock, crawl, recov, state, after, passed, exit>>

PhaseEnds ==
  /\ InPhase /\ clock = 0 /\ ~working
  /\ IF pc = "crawl" /\ dosBugs
     THEN pc' = "dos" /\ clock' = Seconds /\ working' = TRUE
     ELSE pc' = "recovery" /\ clock' = RecoverBudget /\ UNCHANGED working
  /\ UNCHANGED <<keep, dosBugs, machine, mine, container, base, crawl, recov, state, after, passed, exit>>

CpuCeil == Max2(base.cpu + 15, 25)
Settled(s) == last # None /\ 100 * (s.rss - last.rss) <= Max2(500, 3 * last.rss)

\* Mutant: the recovery ignores its budget.
Recover_NoBudget ==
  /\ pc = "recovery"
  /\ IF ~container \/ idle THEN pc' = "grade" /\ UNCHANGED <<clock, recov>>
     ELSE /\ UNCHANGED <<pc, clock>>
          /\ \E s \in Stats :
               IF s = None THEN UNCHANGED recov
               ELSE /\ last' = s
                    /\ stable' = IF Settled(s) /\ stable < 2 THEN stable + 1 ELSE 0
                    /\ idle' = (s.cpu <= CpuCeil /\ stable' >= 2)
  /\ UNCHANGED <<keep, dosBugs, machine, mine, container, base, working, crawl, state, after, passed, exit>>

\* One turn of the recovery loop; at rest is two samples in a row without a climb.
Recover ==
  /\ pc = "recovery"
  /\ IF ~container \/ clock = 0 \/ idle THEN pc' = "grade" /\ UNCHANGED <<clock, recov>>
     ELSE /\ clock' = clock - 1 /\ UNCHANGED pc
          /\ \E s \in Stats :
               IF s = None THEN UNCHANGED recov
               ELSE /\ last' = s
                    /\ stable' = IF Settled(s) THEN stable + 1 ELSE 0
                    /\ idle' = (s.cpu <= CpuCeil /\ stable' >= 2)
  /\ UNCHANGED <<keep, dosBugs, machine, mine, container, base, working, crawl, state, after, passed, exit>>

ReadState ==
  /\ pc = "grade" /\ pc' = "probe"
  /\ state' \in (IF container THEN {IF Alive /\ ~oom THEN "good" ELSE "bad"} ELSE {})
               \cup (IF StatsFail \/ ~container THEN {"none"} ELSE {})
  /\ UNCHANGED <<keep, dosBugs, machine, mine, container, base, clock, working, crawl, recov, after, passed, exit>>

ProbeAfter ==
  /\ pc = "probe" /\ pc' = "verdict" /\ after' = (stack = "up")
  /\ UNCHANGED <<keep, dosBugs, machine, mine, container, base, clock, working, crawl, recov, state, passed, exit>>

Survived == IF probes = 0 THEN "inconclusive" ELSE IF 20 * oks >= 19 * probes THEN "pass" ELSE "fail"

\* Mutant: what docker does not tell is taken for a pass.
Contained_Trusting == IF state = "bad" THEN "fail" ELSE "pass"

Contained == IF state = "none" THEN "inconclusive" ELSE IF state = "good" THEN "pass" ELSE "fail"

Sampled   == container /\ last # None
Recovered == IF ~Sampled THEN "inconclusive" ELSE IF idle /\ after THEN "pass" ELSE "fail"

Grade ==
  /\ pc = "verdict" /\ pc' = "finally"
  /\ passed' = ({Survived, Contained, Recovered} = {"pass"})
  /\ exit' = IF passed' THEN 0 ELSE 1
  /\ UNCHANGED <<keep, dosBugs, machine, mine, container, base, clock, working, crawl, recov, state, after>>

\* The finally: only what this command brought up.
TearDown ==
  /\ pc = "finally" /\ pc' = "end"
  /\ stack' = (IF mine /\ ~keep THEN "absent" ELSE stack)
  /\ UNCHANGED <<keep, dosBugs, oom, deaths, mine, container, base, clock, working, crawl, recov, state, after, passed, exit>>

Ended == pc = "end" /\ UNCHANGED svars

-----------------------------------------------------------------------------
(* The app. *)

Env == /\ pc \notin {"begin", "find", "end"}
       /\ UNCHANGED <<keep, dosBugs, mine, container, pc, base, clock, working, crawl, recov, state, after, passed, exit>>

Die      == Env /\ Alive /\ deaths < MaxDeaths
            /\ stack' = "dead" /\ oom' \in BOOLEAN /\ deaths' = deaths + 1
Restart  == Env /\ ComesBack /\ stack = "dead"
            /\ stack' = "up" /\ oom' = FALSE /\ UNCHANGED deaths
Hang     == Env /\ stack = "up" /\ stack' = "hung" /\ UNCHANGED <<oom, deaths>>
Answers  == Env /\ stack = "hung" /\ stack' = "up" /\ UNCHANGED <<oom, deaths>>

StressInit ==
  /\ keep \in BOOLEAN /\ dosBugs \in BOOLEAN
  /\ stack \in {"absent", "up"} /\ oom = FALSE /\ deaths = 0
  /\ mine = FALSE /\ container = FALSE /\ pc = "begin" /\ base = Zero
  /\ clock = 0 /\ working = FALSE /\ probes = 0 /\ oks = 0
  /\ last = None /\ stable = 0 /\ idle = FALSE
  /\ state = "none" /\ after = FALSE /\ passed = FALSE /\ exit = 0

Command ==
  \/ Begin \/ Find \/ Baseline \/ Monitor \/ LoadReturns \/ PhaseEnds \/ Recover
  \/ ReadState \/ ProbeAfter \/ Grade \/ TearDown

StressNext == Command \/ Die \/ Restart \/ Hang \/ Answers \/ Ended

StressSpec == StressInit /\ [][StressNext]_svars /\ WF_svars(Command) /\ SF_svars(LoadReturns)

-----------------------------------------------------------------------------
(* Properties. *)

StressTypeOK ==
  /\ keep \in BOOLEAN /\ dosBugs \in BOOLEAN /\ mine \in BOOLEAN /\ container \in BOOLEAN
  /\ stack \in {"absent", "up", "hung", "dead"} /\ oom \in BOOLEAN /\ deaths \in 0..MaxDeaths
  /\ pc \in {"begin", "find", "baseline", "crawl", "dos", "recovery", "grade", "probe", "verdict", "finally", "end"}
  /\ base \in Loads \cup {Zero} /\ last \in Loads \cup {Zero, None}
  /\ clock \in 0..Max2(Seconds, RecoverBudget) /\ working \in BOOLEAN
  /\ probes \in 0..Seconds /\ oks \in 0..probes /\ stable \in 0..RecoverBudget
  /\ idle \in BOOLEAN /\ after \in BOOLEAN /\ passed \in BOOLEAN
  /\ state \in {"none", "good", "bad"} /\ exit \in {0, 1}

\* A stress run that passes has seen what it claims: nineteen in twenty of the crawl's
\* probes answered; a sample at rest in the recovery; and, both read after that sample,
\* the container running and not killed for memory, and the app answering.  The last two
\* are what tells an app at rest from a stopped one, whose sample is at rest too.
PassedWasObserved ==
  passed => /\ probes > 0 /\ 20 * oks >= 19 * probes
            /\ container /\ last # None /\ last.cpu <= CpuCeil
            /\ state = "good" /\ after

\* The run ends, whatever the app does - but for one thing: an app that hangs under its
\* declared denial of service has to answer again or die, for nothing ends the PoC.
StressEnds == (pc = "dos" /\ stack = "hung" ~> stack # "hung") => <>(pc = "end")
=============================================================================
