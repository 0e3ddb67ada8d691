------------------------------- MODULE Verify -------------------------------
(***************************************************************************)
(* The commands that judge a running app: `verify` (one leg of PoCs),      *)
(* `validate` (a fresh vulnerable leg, a fresh patched leg, teardown), and *)
(* the other programs over the same start and stop: `run`, `reset` and     *)
(* `restart`.  The PoC runner (tools/poc-runner.sh) is modelled with them. *)
(*                                                                         *)
(* The app is not under the command's control.  At any moment its stack    *)
(* may crash - compose brings it back, a standalone container is gone -    *)
(* or stop answering.  bugs is what is really exploitable; the runner sees *)
(* exit codes and a health probe.                                          *)
(***************************************************************************)
EXTENDS Integers

CONSTANTS
  PoC,           \* the scripts of ground-truth/verify, in their order: 1..n
  Skip,          \* POC_SKIP
  Commands,      \* the command lines to consider
  Truths,        \* what the twins may really be open to
  Budget,        \* --timeout, in health probes
  MaxFaults,     \* how often the app may crash or hang
  Recovers,      \* TRUE: a hung stack may answer again at any time, not only while starting
  DockerFails    \* a listing, a start, a stop or an inspect may fail

Variant == {"vuln", "safe"}
NoTarget == "none"

Command == [cmd : {"verify", "validate", "run", "reset", "restart", "make"},
            mode : {"compose", "solo"},
            keep : BOOLEAN, keepFailed : BOOLEAN, takeover : BOOLEAN, volumes : BOOLEAN,
            variant : Variant,                      \* --variant
            target : Variant \cup {NoTarget},       \* the twin --target names
            expect : Variant \cup {NoTarget}]       \* --expect

ASSUME VerifyAssumption ==
  /\ PoC \subseteq Nat \ {0} /\ Skip \subseteq PoC
  /\ Commands \subseteq Command /\ Truths \subseteq [Variant -> SUBSET PoC]
  /\ \A c \in Commands : c.cmd = "validate" => c.mode = "compose"
  /\ \A c \in Commands : c.cmd = "make" => c.mode = "solo" /\ ~c.takeover
  /\ Budget \in Nat /\ MaxFaults \in Nat

VARIABLES
  opt,       \* the command line
  bugs,      \* what each twin is really open to
  stack,     \* each twin: absent, up, hung, or down (crashed, not yet back)
  born,      \* how often each stack has started: StartedAt
  data,      \* the volumes each stack's name still reaches
  loose,     \* the twins some of whose volumes nothing links to any more
  fresh,     \* the twins whose stack no PoC or earlier session has touched
  pc,
  leg,       \* the twin being started, judged or stopped
  clock,     \* probes made by waitHealthy
  aim,       \* the twin the PoCs reach
  watch,     \* the twins whose containers are watched for restarts
  before,    \* their StartedAt before the leg
  blind,     \* the twins of which this leg's watch has missed something (read by the properties only)
  poc,       \* the script under way, or the last one
  rc,        \* its exit status
  hit,       \* it met an app that did not answer
  verdict,   \* of each leg: ok, bad or harness, per script
  result,    \* of each leg: how runVerify reports it
  failed,    \* the twins whose last stop failed
  ups,       \* of each twin: whether this command's `up` was tried, and worked
  exit,      \* the command's exit status
  faults

sys  == <<stack, born, data, loose, fresh, failed, ups>>
judge == <<aim, watch, before, blind, poc, rc, hit, verdict, result>>
vvars == <<opt, bugs, sys, pc, leg, clock, judge, exit, faults>>

Other(v) == IF v = "vuln" THEN "safe" ELSE "vuln"
Up(v)    == stack[v] = "up"
Running(v) == stack[v] \in {"up", "hung"}

Compose == opt.mode = "compose"

Goto(l) == pc' = l

\* What a failure of the command does: validate has its `finally`, `run` one
\* around the measured command only.
Die == /\ Goto(IF opt.cmd = "validate" /\ pc # "build" THEN "finally" ELSE "end")
       /\ leg' = IF opt.cmd = "validate" THEN "safe" ELSE leg
       /\ exit' = 1

-----------------------------------------------------------------------------
(* Start and stop. *)

\* A stopped stack loses its containers, and with them the only link to its
\* anonymous volumes; with `volumes` what can still be reached goes too.
Removed(v, volumes) ==
  /\ stack' = [stack EXCEPT ![v] = "absent"]
  /\ data'  = [data EXCEPT ![v] = IF volumes THEN {} ELSE @ \ {"anonymous"}]
  /\ loose' = IF ~volumes /\ "anonymous" \in data[v] THEN loose \cup {v} ELSE loose

\* stopStack ignores the exit status of docker.
Stop(v, volumes) ==
  /\ \/ Removed(v, volumes) /\ failed' = failed \ {v}
     \/ /\ DockerFails /\ failed' = failed \cup {v}
        /\ UNCHANGED <<stack, data, loose>>
  /\ UNCHANGED <<born, fresh, ups>>

Build ==
  /\ pc = "build"
  /\ \/ Goto("stop") /\ leg' = "vuln" /\ UNCHANGED exit
     \/ DockerFails /\ Die
  /\ UNCHANGED <<opt, bugs, sys, clock, judge, faults>>

\* Mutant: only the vulnerable leg gets its `down -v`.
StopFirst_VulnOnly ==
  /\ pc = "stop"
  /\ IF leg = "vuln" THEN Stop(leg, TRUE) ELSE UNCHANGED sys
  /\ Goto("start")
  /\ UNCHANGED <<opt, bugs, leg, clock, judge, exit, faults>>

\* validate before each leg, reset and restart: stop what is there.
StopFirst ==
  /\ pc = "stop"
  /\ Stop(leg, opt.cmd # "restart")
  /\ Goto("start")
  /\ UNCHANGED <<opt, bugs, leg, clock, judge, exit, faults>>

\* Planning the ports: a takeover stops the twin that runs on them.
Takeover ==
  /\ pc = "start"
  /\ IF opt.takeover /\ Running(Other(leg)) THEN Stop(Other(leg), FALSE) ELSE UNCHANGED sys
  /\ Goto("up")
  /\ UNCHANGED <<opt, bugs, leg, clock, judge, exit, faults>>

\* `up` creates what is missing and leaves a running stack alone; a standalone
\* container is always replaced.
BringUp ==
  /\ pc = "up" /\ opt.cmd # "make"
  /\ IF Compose /\ Running(leg) THEN UNCHANGED <<stack, born, fresh, data>>
     ELSE /\ stack' = [stack EXCEPT ![leg] = "up"]
          /\ born'  = [born EXCEPT ![leg] = @ + 1]
          /\ fresh' = IF ~Compose \/ (stack[leg] = "absent" /\ data[leg] = {})
                      THEN fresh \cup {leg} ELSE fresh
          /\ data'  = [data EXCEPT ![leg] = {"named", "anonymous"}]
  /\ ups' = [ups EXCEPT ![leg] = "done"]
  /\ Goto("wait") /\ clock' = 0
  /\ UNCHANGED <<opt, bugs, loose, failed, leg, judge, exit, faults>>

\* A failing `up` leaves what it had created, serving nothing.
UpFails ==
  /\ pc = "up" /\ DockerFails /\ opt.cmd # "make"
  /\ \/ UNCHANGED <<stack, data>>
     \/ /\ stack' = [stack EXCEPT ![leg] = "hung"]
        /\ data'  = [data EXCEPT ![leg] = {"named", "anonymous"}]
  /\ ups' = [ups EXCEPT ![leg] = "failed"]
  /\ Die
  /\ UNCHANGED <<opt, bugs, born, loose, fresh, failed, clock, judge, faults>>

\* solo-run.sh (`make solo`): docker run refuses a name that is taken.
RunSolo ==
  /\ pc = "up" /\ opt.cmd = "make"
  /\ IF stack[leg] # "absent" THEN Die /\ UNCHANGED <<stack, born, fresh, data, ups, clock>>
     ELSE /\ stack' = [stack EXCEPT ![leg] = "up"]
          /\ born' = [born EXCEPT ![leg] = @ + 1]
          /\ fresh' = fresh \cup {leg}
          /\ data' = [data EXCEPT ![leg] = {"named", "anonymous"}]
          /\ ups' = [ups EXCEPT ![leg] = "done"]
          /\ Goto("wait") /\ clock' = 0
          /\ UNCHANGED <<leg, exit>>
  /\ UNCHANGED <<opt, bugs, loose, failed, judge, faults>>

\* wait-healthy.sh gives up at once on a container that is gone, and leaves what
\* never answered as it is.
WaitSolo ==
  /\ pc = "wait" /\ opt.cmd = "make"
  /\ \/ Up(leg) /\ Goto("end") /\ UNCHANGED <<leg, clock, exit>>
     \/ ~Up(leg) /\ (stack[leg] = "absent" \/ clock = Budget) /\ Die /\ UNCHANGED clock
     \/ Running(leg) /\ ~Up(leg) /\ clock < Budget /\ clock' = clock + 1 /\ UNCHANGED <<pc, leg, exit>>
  /\ UNCHANGED <<opt, bugs, sys, judge, faults>>

AfterStart == IF opt.cmd = "validate" THEN "list" ELSE IF opt.cmd = "run" THEN "command" ELSE "end"

\* Mutant: the deadline is not looked at.
WaitHealthy_NoDeadline ==
  /\ pc = "wait" /\ opt.cmd # "make"
  /\ \/ Up(leg) /\ Goto(AfterStart) /\ clock' = 0
     \/ ~Up(leg) /\ UNCHANGED <<pc, clock>>
  /\ UNCHANGED <<opt, bugs, sys, leg, judge, exit, faults>>

\* waitHealthy: one probe, then sleep and look again until the deadline.
WaitHealthy ==
  /\ pc = "wait" /\ opt.cmd # "make"
  /\ \/ Up(leg) /\ Goto(AfterStart) /\ clock' = 0
     \/ ~Up(leg) /\ clock < Budget /\ clock' = clock + 1 /\ UNCHANGED pc
     \/ ~Up(leg) /\ clock = Budget /\ Goto("rollback") /\ clock' = 0
  /\ UNCHANGED <<opt, bugs, sys, leg, judge, exit, faults>>

Rollback ==
  /\ pc = "rollback"
  /\ IF opt.keepFailed THEN UNCHANGED sys ELSE Stop(leg, FALSE)
  /\ Die
  /\ UNCHANGED <<opt, bugs, clock, judge, faults>>

-----------------------------------------------------------------------------
(* One leg: runVerify around poc_run. *)

\* stackContainerNames, or for verify the first stack that is live.
Live0 == IF Running("vuln") THEN "vuln" ELSE "safe"

\* cmdVerify: without a target or a live stack there is nothing to verify.
Resolve ==
  /\ pc = "resolve"
  /\ LET live == Running("vuln") \/ Running("safe") IN
     \/ /\ DockerFails \/ (~live /\ opt.target = NoTarget)
        /\ Goto("end") /\ exit' = 1 /\ UNCHANGED <<leg, aim, watch>>
     \/ /\ live \/ opt.target # NoTarget
        /\ aim' = IF opt.target # NoTarget THEN opt.target ELSE Live0
        /\ leg' = IF opt.expect # NoTarget THEN opt.expect
                  ELSE IF live THEN Live0 ELSE "vuln"
        /\ watch' = IF live THEN {Live0} ELSE {}
        /\ Goto("before") /\ UNCHANGED exit
  /\ UNCHANGED <<opt, bugs, sys, clock, before, blind, poc, rc, hit, verdict, result, faults>>

\* validate: docker's list of the leg's containers, running or not.
ListStack ==
  /\ pc = "list"
  /\ \/ /\ aim' = leg
        /\ watch' = IF stack[leg] = "absent" THEN {} ELSE {leg}
        /\ Goto("before") /\ UNCHANGED <<leg, exit>>
     \/ DockerFails /\ Die /\ UNCHANGED <<aim, watch>>
  /\ UNCHANGED <<opt, bugs, sys, clock, before, blind, poc, rc, hit, verdict, result, faults>>

\* startTimes inspects each name by itself and leaves out those it could not: of
\* the containers that are there, the ones on which docker failed.
Uninspected(names) ==
  {lost \in SUBSET {v \in names : stack[v] # "absent"} : lost = {} \/ DockerFails}

ReadBefore ==
  /\ pc = "before"
  /\ \E lost \in Uninspected(watch) :
       /\ before' = [v \in {w \in watch : stack[w] # "absent"} \ lost |-> born[v]]
       /\ blind' = lost
  /\ Goto("open")
  /\ UNCHANGED <<opt, bugs, sys, leg, clock, aim, watch, poc, rc, hit, verdict, result, exit, faults>>

\* The runner ends: runVerify believes its exit status.
RunnerEnds(ok) ==
  /\ Goto("after")
  /\ rc' = IF ok THEN 0 ELSE 1

Rest(p) == {q \in PoC \ Skip : q > p}
FirstOf(S) == CHOOSE p \in S : \A q \in S : p <= q

\* poc_run refuses when the app does not answer, there is no PoC at all or their
\* browser cannot be had; with nothing left to run it has nothing to complain of.
OpenRunner ==
  /\ pc = "open"
  /\ \/ /\ Up(aim) /\ Rest(0) # {}
        /\ poc' = FirstOf(Rest(0))
        /\ Goto("poc") /\ hit' = FALSE /\ UNCHANGED rc
        /\ fresh' = fresh \ {aim}
     \/ /\ \E ok \in BOOLEAN : RunnerEnds(ok) /\ (ok => Up(aim) /\ PoC # {} /\ Rest(0) = {})
        /\ UNCHANGED <<poc, hit, fresh>>
  /\ verdict' = [verdict EXCEPT ![leg] = [p \in PoC |-> "none"]]
  /\ UNCHANGED <<opt, bugs, stack, born, data, loose, failed, ups, leg, clock, aim, watch, before, blind,
                   result, exit, faults>>

\* _poc_run_one: killed reads as the deadline's 124.
ExitOf(raw) == IF raw \in {137, 143} THEN 124 ELSE raw

\* What a script can exit with: 0 only if it saw the bug; something else when it
\* is rejected or what it talks to goes away; and at any time because it cannot
\* run (2 stands for 126 and 127 too), because the deadline hits or it is killed.
Exits ==
  (IF poc \in bugs[aim] THEN {0} ELSE {}) \cup {2, 124, 137}
  \cup (IF poc \notin bugs[aim] \/ hit THEN {1} ELSE {})

RunPoc ==
  /\ pc = "poc"
  /\ \E raw \in Exits : rc' = ExitOf(raw)
  /\ Goto("probe")
  /\ UNCHANGED <<opt, bugs, sys, leg, clock, aim, watch, before, blind, poc, hit, verdict, result, exit,
                   faults>>

CouldNotRun == rc \in {2, 124}

\* Mutant: any answer to a nonzero exit is a rejection.
Verdict_NoProbe(answers) ==
  IF CouldNotRun THEN "harness"
  ELSE IF rc = 0 <=> leg = "vuln" THEN "ok" ELSE "bad"

\* The runner's oracle: a nonzero exit is a rejection only while the target answers.
Verdict(answers) ==
  IF CouldNotRun \/ (rc # 0 /\ ~answers) THEN "harness"
  ELSE IF rc = 0 <=> leg = "vuln" THEN "ok" ELSE "bad"

Judged(v) == [verdict EXCEPT ![leg][poc] = v]
AllOk(f)  == \A p \in PoC : f[leg][p] \notin {"bad", "harness"}

\* Mutant: only failures count at the end.
JudgePoc_HarnessPasses ==
  /\ pc = "probe"
  /\ LET v    == Verdict(Up(aim))
         dead == rc # 0 /\ ~CouldNotRun /\ ~Up(aim)
     IN  /\ verdict' = Judged(v)
         /\ IF dead \/ Rest(poc) = {}
            THEN RunnerEnds(\A p \in PoC : Judged(v)[leg][p] # "bad") /\ UNCHANGED <<poc, hit>>
            ELSE Goto("poc") /\ poc' = FirstOf(Rest(poc)) /\ hit' = ~Up(aim) /\ UNCHANGED rc
  /\ UNCHANGED <<opt, bugs, sys, leg, clock, aim, watch, before, blind, result, exit, faults>>

\* One verdict; a dead target ends the leg, for nothing after it can be trusted.
JudgePoc ==
  /\ pc = "probe"
  /\ LET v    == Verdict(Up(aim))
         dead == rc # 0 /\ ~CouldNotRun /\ ~Up(aim)
     IN  /\ verdict' = Judged(v)
         /\ IF dead \/ Rest(poc) = {}
            THEN RunnerEnds(AllOk(Judged(v))) /\ UNCHANGED <<poc, hit>>
            ELSE Goto("poc") /\ poc' = FirstOf(Rest(poc)) /\ hit' = ~Up(aim) /\ UNCHANGED rc
  /\ UNCHANGED <<opt, bugs, sys, leg, clock, aim, watch, before, blind, result, exit, faults>>

\* restartedDuring: StartedAt read both times and moved.
Restarted(lost) == {v \in DOMAIN before \ lost : stack[v] # "absent" /\ born[v] # before[v]}

ReadAfter ==
  /\ pc = "after"
  /\ \E lost \in Uninspected(DOMAIN before) :
       result' = [v \in DOMAIN result \cup {leg} |->
                    IF v = leg THEN [code |-> rc, restarted |-> Restarted(lost), blind |-> blind \cup lost]
                    ELSE result[v]]
  /\ \/ opt.cmd = "verify" /\ Goto("end") /\ exit' = rc /\ UNCHANGED leg
     \/ opt.cmd = "validate" /\ leg = "vuln" /\ Goto("stop") /\ leg' = "safe" /\ UNCHANGED exit
     \/ opt.cmd = "validate" /\ leg = "safe" /\ Goto("finally") /\ UNCHANGED <<leg, exit>>
  /\ before' = [v \in {} |-> 0] /\ blind' = {} /\ poc' = 0 /\ rc' = 0 /\ hit' = FALSE
  /\ UNCHANGED <<opt, bugs, sys, clock, aim, watch, verdict, faults>>

-----------------------------------------------------------------------------
(* The end of validate, and run's measured command. *)

\* run: somebody else's program, which may also be interrupted or not exist.
RunCommand ==
  /\ pc = "command"
  /\ \E code \in {0, 1} : exit' = code
  /\ Goto(IF opt.keep THEN "end" ELSE "cleanup")
  /\ fresh' = fresh \ {leg}
  /\ UNCHANGED <<opt, bugs, stack, born, data, loose, failed, ups, leg, clock, judge, faults>>

Cleanup ==
  /\ pc = "cleanup"
  /\ Stop(leg, opt.volumes)
  /\ Goto("end")
  /\ UNCHANGED <<opt, bugs, leg, clock, judge, exit, faults>>

\* Mutant: teardown in line, not in the `finally`.
Finally_OnlyIfJudged ==
  /\ pc = "finally"
  /\ IF opt.keep \/ exit = 1 THEN UNCHANGED sys ELSE Stop(leg, TRUE)
  /\ IF leg = "safe" THEN leg' = "vuln" /\ UNCHANGED pc ELSE Goto("report") /\ UNCHANGED leg
  /\ UNCHANGED <<opt, bugs, clock, judge, exit, faults>>

\* validate's `finally`: both twins go, safe first, whatever happened.
Finally ==
  /\ pc = "finally"
  /\ IF opt.keep THEN UNCHANGED sys ELSE Stop(leg, TRUE)
  /\ IF leg = "safe" THEN leg' = "vuln" /\ UNCHANGED pc ELSE Goto("report") /\ UNCHANGED leg
  /\ UNCHANGED <<opt, bugs, clock, judge, exit, faults>>

Report ==
  /\ pc = "report"
  /\ exit' = IF exit = 0 /\ \A v \in Variant : v \in DOMAIN result /\ result[v].code = 0 THEN 0 ELSE 1
  /\ Goto("end")
  /\ UNCHANGED <<opt, bugs, sys, leg, clock, judge, faults>>

Ended == pc = "end" /\ UNCHANGED vvars

-----------------------------------------------------------------------------
(* The app. *)

Fault(v, s) ==
  /\ pc # "end" /\ faults < MaxFaults /\ faults' = faults + 1
  /\ stack' = [stack EXCEPT ![v] = s]
  /\ hit' = (hit \/ (pc = "poc" /\ v = aim))
  /\ UNCHANGED <<opt, bugs, born, fresh, failed, ups, pc, leg, clock, aim, watch, before, blind, poc, rc,
                   verdict, result, exit>>

\* A standalone container runs with --rm: when it dies it and its volumes are gone.
Crash(v) ==
  /\ Running(v)
  /\ Fault(v, IF Compose THEN "down" ELSE "absent")
  /\ data' = IF Compose THEN data ELSE [data EXCEPT ![v] = {}]
  /\ UNCHANGED loose

Hang(v) == Up(v) /\ Fault(v, "hung") /\ UNCHANGED <<data, loose>>

\* restart: unless-stopped.
ComesBack(v) ==
  /\ pc # "end" /\ stack[v] = "down"
  /\ stack' = [stack EXCEPT ![v] = "up"]
  /\ born' = [born EXCEPT ![v] = @ + 1]
  /\ UNCHANGED <<opt, bugs, data, loose, fresh, failed, ups, pc, leg, clock, judge, exit, faults>>

\* Neither the probe nor StartedAt shows that a script met an app that hung.
AnswersAgain(v) ==
  /\ Recovers \/ pc = "wait"
  /\ pc # "end" /\ stack[v] = "hung"
  /\ stack' = [stack EXCEPT ![v] = "up"]
  /\ blind' = IF pc \in {"poc", "probe"} THEN blind \cup {v} ELSE blind
  /\ UNCHANGED <<opt, bugs, born, data, loose, fresh, failed, ups, pc, leg, clock, exit, faults>>
  /\ UNCHANGED <<aim, watch, before, poc, rc, hit, verdict, result>>

-----------------------------------------------------------------------------
FirstStep == [verify |-> "resolve", validate |-> "build", run |-> "start",
              reset |-> "stop", restart |-> "stop", make |-> "up"]

VerifyInit ==
  /\ opt \in Commands
  /\ bugs \in Truths
  /\ stack \in [Variant -> {"absent", "up"}]
  /\ born = [v \in Variant |-> 0]
  /\ data = [v \in Variant |-> IF stack[v] = "up" THEN {"named", "anonymous"} ELSE {}]
  /\ loose = {} /\ fresh = {} /\ failed = {} /\ ups = [v \in Variant |-> "never"]
  /\ pc = FirstStep[opt.cmd] /\ leg = opt.variant
  /\ clock = 0 /\ aim = "vuln" /\ watch = {} /\ before = [v \in {} |-> 0] /\ blind = {}
  /\ poc = 0 /\ rc = 0 /\ hit = FALSE
  /\ verdict = [v \in Variant |-> [p \in PoC |-> "none"]]
  /\ result = [v \in {} |-> 0]
  /\ exit = 0 /\ faults = 0

Command1 ==
  \/ Build \/ StopFirst \/ Takeover \/ BringUp \/ UpFails \/ RunSolo \/ WaitSolo
  \/ WaitHealthy \/ Rollback
  \/ Resolve \/ ListStack \/ ReadBefore \/ OpenRunner \/ RunPoc \/ JudgePoc \/ ReadAfter
  \/ RunCommand \/ Cleanup \/ Finally \/ Report

App(v) == Crash(v) \/ Hang(v) \/ ComesBack(v) \/ AnswersAgain(v)

VerifyNext == Command1 \/ (\E v \in Variant : App(v)) \/ Ended

VerifySpec == VerifyInit /\ [][VerifyNext]_vvars /\ WF_vvars(Command1)

-----------------------------------------------------------------------------
(* Properties. *)

VerifyTypeOK ==
  /\ opt \in Commands /\ bugs \in [Variant -> SUBSET PoC]
  /\ stack \in [Variant -> {"absent", "up", "hung", "down"}]
  /\ born \in [Variant -> Nat] /\ data \in [Variant -> SUBSET {"named", "anonymous"}]
  /\ loose \subseteq Variant /\ fresh \subseteq Variant /\ failed \subseteq Variant /\ watch \subseteq Variant
  /\ blind \subseteq Variant
  /\ ups \in [Variant -> {"never", "failed", "done"}]
  /\ pc \in {"build", "stop", "start", "up", "wait", "rollback", "resolve", "list", "before", "open", "poc",
             "probe", "after", "command", "cleanup", "finally", "report", "end"}
  /\ leg \in Variant /\ aim \in Variant /\ clock \in 0..Budget
  /\ DOMAIN before \subseteq Variant /\ \A v \in DOMAIN before : before[v] \in Nat
  /\ poc \in PoC \cup {0} /\ rc \in {0, 1, 2, 124} /\ hit \in BOOLEAN
  /\ verdict \in [Variant -> [PoC -> {"none", "ok", "bad", "harness"}]]
  /\ DOMAIN result \subseteq Variant
  /\ \A v \in DOMAIN result :
       result[v].code \in {0, 1} /\ result[v].restarted \subseteq Variant /\ result[v].blind \subseteq Variant
  /\ exit \in {0, 1} /\ faults \in 0..MaxFaults

\* The twin a leg's PoCs met.
Met(v) == IF opt.cmd = "validate" THEN v ELSE aim

\* What a leg says of a PoC is true of the app, or the leg says that a container
\* restarted under it: a crash, a dead target, a deadline or a missing command is
\* never taken for a fix, nor for a bug that is gone.  Two things only can make it
\* wrong in silence: docker could not inspect the target, before or after, or the
\* target hung and answered again by itself.
VerdictsHold ==
  \A v \in DOMAIN result : \A p \in PoC :
    verdict[v][p] \in {"ok", "bad"} /\ result[v].restarted = {} /\ Met(v) \notin result[v].blind =>
      (verdict[v][p] = "ok" <=> (p \in bugs[Met(v)] <=> v = "vuln"))

\* A verification that exits 0 has judged every PoC of every leg, each as expected.
ExitZeroIsEarned ==
  pc = "end" /\ exit = 0 /\ opt.cmd \in {"verify", "validate"} =>
    \A v \in (IF opt.cmd = "verify" THEN {leg} ELSE Variant) :
      v \in DOMAIN result /\ \A p \in PoC \ Skip : verdict[v][p] = "ok"

\* validate judges each twin on state no PoC and no earlier session has touched,
\* unless docker refused to take the old stack down.
FreshState ==
  opt.cmd = "validate" /\ pc = "open" => leg \in fresh \/ leg \in failed

\* Whatever fails, validate takes down the stacks it tried to start, and run the
\* stack it started, unless told to keep them or docker refuses.
TornDown ==
  pc = "end" /\ ~opt.keep =>
    \A v \in Variant :
      \/ stack[v] = "absent" \/ v \in failed
      \/ opt.cmd = "validate" /\ ups[v] = "never"
      \/ opt.cmd = "run" /\ (ups[v] # "done" \/ opt.keepFailed)
      \/ opt.cmd \in {"verify", "reset", "restart", "make"}

\* Every command ends: each PoC has a deadline, and so has the wait for health.
CommandEnds == <>(pc = "end")
=============================================================================
