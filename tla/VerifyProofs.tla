----------------------------- MODULE VerifyProofs -----------------------------
(* For any scripts, command lines, twins and faults: an exit status of 0 is     *)
(* earned, validate judges fresh state and tears down what it started, and -    *)
(* where the command finds its target itself - every verdict is true, or its    *)
(* leg reports a restart, could not inspect its target, or had it hang and      *)
(* answer again.                                                                *)
EXTENDS Verify, TLAPS, WellFoundedInduction

Judging == {"open", "poc", "probe", "after"}

\* The places each command passes.
Path ==
  /\ opt.cmd = "verify" => pc \in {"resolve", "before", "end"} \cup Judging
  /\ opt.cmd = "validate" =>
       pc \in {"build", "stop", "start", "up", "wait", "rollback", "list", "before", "finally", "report", "end"}
              \cup Judging
  /\ opt.cmd = "run" => pc \in {"start", "up", "wait", "rollback", "command", "cleanup", "end"}
  /\ opt.cmd \in {"reset", "restart"} => pc \in {"stop", "start", "up", "wait", "rollback", "end"}
  /\ opt.cmd = "make" => pc \in {"up", "wait", "end"}

\* A leg has no result while it is under way; validate's first one is the vulnerable.
Working == {"stop", "start", "up", "wait", "rollback", "list", "before"} \cup Judging
Legs ==
  /\ pc \in {"build", "resolve"} => DOMAIN result = {}
  /\ pc \in Working => leg \notin DOMAIN result /\ (leg = "vuln" => DOMAIN result = {})

\* What the runner has said so far of the scripts it does not skip.
Told ==
  /\ pc \in {"poc", "probe"} =>
       poc \in PoC \ Skip /\ \A q \in PoC \ Skip : q < poc => verdict[leg][q] # "none"
  /\ pc = "after" => rc \in {0, 1} /\ (rc = 0 => \A p \in PoC \ Skip : verdict[leg][p] = "ok")
  /\ \A v \in DOMAIN result : result[v].code = 0 => \A p \in PoC \ Skip : verdict[v][p] = "ok"
  /\ pc = "end" /\ exit = 0 =>
       /\ opt.cmd = "verify" => leg \in DOMAIN result /\ result[leg].code = 0
       /\ opt.cmd = "validate" => \A v \in Variant : v \in DOMAIN result /\ result[v].code = 0

\* From validate's `down -v` to the first script.
Fresh ==
  opt.cmd = "validate" /\ leg \notin failed =>
    /\ pc \in {"start", "up"} => stack[leg] = "absent" /\ data[leg] = {}
    /\ pc \in {"wait", "list", "before", "open"} => leg \in fresh

\* How far the teardown is.
Gone(v) == stack[v] = "absent" \/ v \in failed
Torn ==
  /\ opt.cmd = "validate" =>
       /\ pc = "build" => \A v \in Variant : ups[v] = "never"
       /\ ~opt.keep =>
            /\ pc = "finally" /\ leg = "vuln" => Gone("safe")
            /\ pc = "report" => \A v \in Variant : Gone(v)
            /\ pc = "end" => \A v \in Variant : Gone(v) \/ ups[v] = "never"
  /\ opt.cmd = "run" =>
       /\ \A v \in Variant : v # leg \/ pc \in {"start", "up"} => ups[v] = "never"
       /\ ~opt.keep /\ pc = "end" => Gone(leg) \/ ups[leg] # "done" \/ opt.keepFailed

\* What a leg knows of its target: the reading before it, and whether it moved.
Moved == aim \in DOMAIN before /\ born[aim] # before[aim]
Marked == Moved \/ aim \in blind
Seen ==
  /\ ~Compose => \A v \in Variant : stack[v] # "down"
  /\ opt.cmd = "validate" /\ pc \in {"before"} \cup Judging => aim = leg
  /\ pc = "before" => aim \in watch \/ stack[aim] = "absent"
  /\ pc \in Judging => aim \in DOMAIN before \/ stack[aim] = "absent" \/ aim \in blind
  /\ pc \in Judging /\ aim \in DOMAIN before =>
       /\ before[aim] <= born[aim]
       /\ Compose => stack[aim] # "absent"
       /\ ~Compose => ~Moved

Right(v, p, a) == verdict[v][p] \in {"ok", "bad"} => (verdict[v][p] = "ok" <=> (p \in bugs[a] <=> v = "vuln"))

\* A script that met a fault has a target that is not up, has moved, or was not seen; what it
\* exits with, what a leg has said so far and what it has reported are true of its target.
Noticed == pc \in {"poc", "probe"} /\ hit => ~Up(aim) \/ Marked
Honest  == pc = "probe" => (rc = 0 => poc \in bugs[aim]) /\ (rc = 1 => poc \notin bugs[aim] \/ hit)
SoFar   == pc \in {"poc", "probe", "after"} => Marked \/ \A p \in PoC : Right(leg, p, aim)
Reports ==
  \A v \in DOMAIN result :
    result[v].restarted # {} \/ Met(v) \in result[v].blind \/ \A p \in PoC : Right(v, p, Met(v))

-----------------------------------------------------------------------------
(* The helpers. *)

LEMMA NatHasMin ==
  ASSUME NEW S \in SUBSET Nat, S # {}
  PROVE  \E m \in S : \A n \in S : m <= n
<1> DEFINE Less == {ss \in Nat \X Nat : ss[1] < ss[2]}
<1>1. IsWellFoundedOn(Less, Nat)
  BY NatLessThanWellFounded DEF OpToRel
<1> HIDE DEF Less
<1>2. PICK m \in S : \A n \in S : ~(<<n, m>> \in Less)
  BY <1>1, WFMin
<1>3. \A n \in S : ~(n < m)
  BY <1>2 DEF Less
<1> QED
  BY <1>3

LEMMA ScriptsAreNat == PoC \subseteq Nat /\ (\A p \in PoC : p > 0) /\ Skip \subseteq PoC
BY VerifyAssumption

\* The script after p is the first of those left.
LEMMA FirstOfRest ==
  ASSUME NEW p \in Nat, Rest(p) # {}
  PROVE  FirstOf(Rest(p)) \in Rest(p) /\ \A q \in Rest(p) : FirstOf(Rest(p)) <= q
<1>1. Rest(p) \in SUBSET Nat
  BY VerifyAssumption DEF Rest
<1>2. \E m \in Rest(p) : \A n \in Rest(p) : m <= n
  BY <1>1, NatHasMin
<1> QED
  BY <1>2 DEF FirstOf

\* A stop touches one stack, and leaves it gone or on the list of failures.
LEMMA StopEffect ==
  ASSUME VerifyTypeOK, NEW v \in Variant, NEW volumes, Stop(v, volumes)
  PROVE  /\ stack' \in [Variant -> {"absent", "up", "hung", "down"}]
         /\ data' \in [Variant -> SUBSET {"named", "anonymous"}]
         /\ loose' \subseteq Variant /\ failed' \subseteq Variant
         /\ UNCHANGED <<born, fresh, ups>>
         /\ \A u \in Variant : stack'[u] = stack[u] \/ stack'[u] = "absent"
         /\ \A u \in Variant \ {v} : stack'[u] = stack[u] /\ data'[u] = data[u] /\ (u \in failed' <=> u \in failed)
         /\ v \notin failed' => stack'[v] = "absent" /\ (volumes => data'[v] = {})
<1>1. CASE Removed(v, volumes) /\ failed' = failed \ {v}
  BY <1>1 DEF Stop, Removed, VerifyTypeOK
<1>2. CASE failed' = failed \cup {v} /\ UNCHANGED <<stack, data, loose>>
  BY <1>2 DEF Stop, VerifyTypeOK
<1> QED
  BY <1>1, <1>2 DEF Stop

LEMMA OptTyped ==
  ASSUME VerifyTypeOK
  PROVE  /\ opt \in Command /\ opt.volumes \in BOOLEAN /\ opt.variant \in Variant
         /\ opt.target # NoTarget => opt.target \in Variant
         /\ opt.expect # NoTarget => opt.expect \in Variant
         /\ opt.cmd \in {"verify", "validate", "run", "reset", "restart", "make"}
         /\ opt.mode \in {"compose", "solo"}
         /\ opt.cmd = "validate" => Compose
<1>1. opt \in Command
  BY VerifyAssumption DEF VerifyTypeOK
<1>2. opt.cmd = "validate" => opt.mode = "compose"
  BY VerifyAssumption DEF VerifyTypeOK
<1> QED
  BY <1>1, <1>2 DEF Command, Compose, NoTarget

LEMMA OtherIsVariant == ASSUME NEW v \in Variant PROVE Other(v) \in Variant /\ Other(v) # v
BY DEF Other, Variant

SysTyped ==
  /\ stack \in [Variant -> {"absent", "up", "hung", "down"}] /\ born \in [Variant -> Nat]
  /\ data \in [Variant -> SUBSET {"named", "anonymous"}] /\ loose \subseteq Variant
  /\ fresh \subseteq Variant /\ failed \subseteq Variant /\ ups \in [Variant -> {"never", "failed", "done"}]

LEMMA StopTyped ==
  ASSUME VerifyTypeOK, NEW v \in Variant, NEW volumes, Stop(v, volumes) \/ UNCHANGED sys
  PROVE  SysTyped'
<1>1. CASE Stop(v, volumes)
  BY <1>1, StopEffect DEF VerifyTypeOK, SysTyped
<1>2. CASE UNCHANGED sys
  BY <1>2 DEF sys, VerifyTypeOK, SysTyped
<1> QED
  BY <1>1, <1>2

LEMMA BoundsAreNat == Budget \in Nat /\ MaxFaults \in Nat
BY VerifyAssumption

-----------------------------------------------------------------------------
(* Types; the exit status of a leg is 0 or 1 because of Told. *)

LEMMA TypeStep ==
  ASSUME VerifyTypeOK, Told, [VerifyNext]_vvars
  PROVE  VerifyTypeOK'
<1> USE BoundsAreNat DEF Variant, Goto
<1>1. CASE Build
  BY <1>1 DEF Build, Die, sys, judge, VerifyTypeOK
<1>2. CASE StopFirst
  <2>1. Stop(leg, opt.cmd # "restart") \/ UNCHANGED sys
    BY <1>2 DEF StopFirst
  <2>2. SysTyped'
    BY <2>1, StopTyped, OtherIsVariant DEF VerifyTypeOK
  <2> QED
    BY <1>2, <2>2 DEF StopFirst, Die, judge, SysTyped, VerifyTypeOK
<1>3. CASE Takeover
  <2>1. Stop(Other(leg), FALSE) \/ UNCHANGED sys
    BY <1>3 DEF Takeover
  <2>2. SysTyped'
    BY <2>1, StopTyped, OtherIsVariant DEF VerifyTypeOK
  <2> QED
    BY <1>3, <2>2 DEF Takeover, Die, judge, SysTyped, VerifyTypeOK
<1>4. CASE BringUp
  <2>1. /\ stack' \in [Variant -> {"absent", "up", "hung", "down"}]
        /\ born' \in [Variant -> Nat] /\ fresh' \subseteq Variant
        /\ data' \in [Variant -> SUBSET {"named", "anonymous"}]
    <3>1. CASE Compose /\ Running(leg)
      <4>1. UNCHANGED <<stack, born, fresh, data>>
        BY <1>4, <3>1 DEF BringUp
      <4> QED
        BY <4>1 DEF VerifyTypeOK
    <3>2. CASE ~(Compose /\ Running(leg))
      <4>1. stack' \in [Variant -> {"absent", "up", "hung", "down"}] /\ born' \in [Variant -> Nat]
        BY <1>4, <3>2 DEF BringUp, VerifyTypeOK
      <4>2. data' \in [Variant -> SUBSET {"named", "anonymous"}]
        BY <1>4, <3>2 DEF BringUp, VerifyTypeOK
      <4>3. fresh' = fresh \/ fresh' = fresh \cup {leg}
        BY <1>4, <3>2 DEF BringUp
      <4>4. leg \in Variant /\ fresh \subseteq Variant
        BY DEF VerifyTypeOK
      <4>5. fresh' \subseteq Variant
        BY <4>3, <4>4
      <4> QED
        BY <4>1, <4>2, <4>5
    <3> QED
      BY <3>1, <3>2
  <2>2. ups' \in [Variant -> {"never", "failed", "done"}]
    BY <1>4 DEF BringUp, VerifyTypeOK
  <2>3. UNCHANGED <<opt, bugs, loose, failed, leg, judge, exit, faults>> /\ pc' = "wait" /\ clock' = 0
    BY <1>4 DEF BringUp
  <2> QED
    BY <2>1, <2>2, <2>3 DEF judge, VerifyTypeOK
<1>5. CASE UpFails
  BY <1>5 DEF UpFails, Die, sys, judge, VerifyTypeOK
<1>6. CASE RunSolo
  <2>1. CASE stack[leg] # "absent"
    BY <1>6, <2>1 DEF RunSolo, Die, judge, VerifyTypeOK
  <2>2. CASE stack[leg] = "absent"
    <3>1. stack' \in [Variant -> {"absent", "up", "hung", "down"}] /\ born' \in [Variant -> Nat]
      BY <1>6, <2>2 DEF RunSolo, VerifyTypeOK
    <3>2. data' \in [Variant -> SUBSET {"named", "anonymous"}]
      BY <1>6, <2>2 DEF RunSolo, VerifyTypeOK
    <3>3. ups' \in [Variant -> {"never", "failed", "done"}]
      BY <1>6, <2>2 DEF RunSolo, VerifyTypeOK
    <3>4. fresh' = fresh \cup {leg}
      BY <1>6, <2>2 DEF RunSolo
    <3>5. fresh' \subseteq Variant
      BY <3>4 DEF VerifyTypeOK
    <3>6. UNCHANGED <<opt, bugs, loose, failed, leg, judge, exit, faults>> /\ pc' = "wait" /\ clock' = 0
      BY <1>6, <2>2 DEF RunSolo
    <3> QED
      BY <3>1, <3>2, <3>3, <3>5, <3>6 DEF judge, VerifyTypeOK
  <2> QED
    BY <2>1, <2>2
<1>7. CASE WaitSolo
  BY <1>7 DEF WaitSolo, Die, Up, Running, sys, judge, VerifyTypeOK
<1>8. CASE WaitHealthy
  BY <1>8 DEF WaitHealthy, AfterStart, Up, sys, judge, VerifyTypeOK
<1>9. CASE Rollback
  <2>1. Stop(leg, FALSE) \/ UNCHANGED sys
    BY <1>9 DEF Rollback
  <2>2. SysTyped'
    BY <2>1, StopTyped, OtherIsVariant DEF VerifyTypeOK
  <2> QED
    BY <1>9, <2>2 DEF Rollback, Die, judge, SysTyped, VerifyTypeOK
<1>10. CASE Resolve
  <2>1. Live0 \in Variant
    BY DEF Live0
  <2>2. leg' \in Variant
    BY <1>10, <2>1, OptTyped DEF Resolve, VerifyTypeOK
  <2>3. aim' \in Variant
    BY <1>10, <2>1, OptTyped DEF Resolve, VerifyTypeOK
  <2>4. watch' \subseteq Variant
    <3>1. watch' \in {watch, {Live0}, {}}
      BY <1>10 DEF Resolve
    <3>2. watch \subseteq Variant /\ {Live0} \subseteq Variant
      BY <2>1 DEF VerifyTypeOK
    <3> QED
      BY <3>1, <3>2
  <2>5. pc' \in {"end", "before"} /\ exit' \in {0, 1}
    BY <1>10 DEF Resolve, VerifyTypeOK
  <2> QED
    BY <1>10, <2>2, <2>3, <2>4, <2>5 DEF Resolve, sys, VerifyTypeOK
<1>11. CASE ListStack
  BY <1>11 DEF ListStack, Die, sys, judge, VerifyTypeOK
<1>12. CASE ReadBefore
  <2>1. PICK lost \in Uninspected(watch) :
          /\ before' = [v \in {w \in watch : stack[w] # "absent"} \ lost |-> born[v]]
          /\ blind' = lost
    BY <1>12 DEF ReadBefore
  <2>2. lost \subseteq Variant
    BY <2>1 DEF Uninspected, VerifyTypeOK
  <2>3. DOMAIN before' \subseteq Variant /\ \A v \in DOMAIN before' : before'[v] \in Nat
    BY <2>1 DEF VerifyTypeOK
  <2> QED
    BY <1>12, <2>1, <2>2, <2>3 DEF ReadBefore, sys, VerifyTypeOK
<1>13. CASE OpenRunner
  <2>1. verdict' \in [Variant -> [PoC -> {"none", "ok", "bad", "harness"}]]
    BY <1>13 DEF OpenRunner, VerifyTypeOK
  <2>2. rc' \in {0, 1, 2, 124} /\ pc' \in {"poc", "after"} /\ fresh' \subseteq Variant
    BY <1>13 DEF OpenRunner, RunnerEnds, VerifyTypeOK
  <2>3. poc' \in PoC \cup {0}
    <3>1. Rest(0) # {} => FirstOf(Rest(0)) \in PoC
      BY FirstOfRest, VerifyAssumption DEF Rest
    <3> QED
      BY <1>13, <3>1 DEF OpenRunner, RunnerEnds, VerifyTypeOK
  <2>4. hit' \in BOOLEAN
    BY <1>13 DEF OpenRunner, RunnerEnds, VerifyTypeOK
  <2> QED
    BY <1>13, <2>1, <2>2, <2>3, <2>4 DEF OpenRunner, VerifyTypeOK
<1>14. CASE RunPoc
  BY <1>14 DEF RunPoc, Exits, ExitOf, sys, judge, VerifyTypeOK
<1>15. CASE JudgePoc
  <2>1. verdict' \in [Variant -> [PoC -> {"none", "ok", "bad", "harness"}]]
    <3>1. Verdict(Up(aim)) \in {"ok", "bad", "harness"} /\ verdict' = Judged(Verdict(Up(aim)))
      BY <1>15 DEF JudgePoc, Verdict
    <3> QED
      BY <3>1 DEF Judged, VerifyTypeOK
  <2>2. poc' \in PoC \cup {0} /\ rc' \in {0, 1, 2, 124} /\ pc' \in {"poc", "after"}
    BY <1>15, FirstOfRest, VerifyAssumption DEF JudgePoc, RunnerEnds, Rest, VerifyTypeOK
  <2>3. hit' \in BOOLEAN
    BY <1>15 DEF JudgePoc, RunnerEnds, VerifyTypeOK
  <2> QED
    BY <1>15, <2>1, <2>2, <2>3 DEF JudgePoc, sys, VerifyTypeOK
<1>16. CASE ReadAfter
  <2>1. DOMAIN result' \subseteq Variant /\ \A v \in DOMAIN result' : result'[v].code \in {0, 1} /\
         result'[v].restarted \subseteq Variant /\ result'[v].blind \subseteq Variant
    <3>1. PICK lost \in Uninspected(DOMAIN before) :
            result' = [v \in DOMAIN result \cup {leg} |->
                         IF v = leg THEN [code |-> rc, restarted |-> Restarted(lost), blind |-> blind \cup lost]
                         ELSE result[v]]
      BY <1>16 DEF ReadAfter
    <3>2. lost \subseteq Variant /\ Restarted(lost) \subseteq Variant /\ blind \subseteq Variant
      BY <3>1 DEF Uninspected, Restarted, VerifyTypeOK
    <3>3. rc \in {0, 1}
      BY <1>16 DEF ReadAfter, Told
    <3> QED
      BY <3>1, <3>2, <3>3 DEF VerifyTypeOK
  <2>2. /\ before' = [v \in {} |-> 0] /\ blind' = {} /\ poc' = 0 /\ rc' = 0 /\ hit' = FALSE
        /\ UNCHANGED <<opt, bugs, sys, clock, aim, watch, verdict, faults>>
        /\ leg' \in Variant /\ exit' \in {0, 1} /\ pc' \in {"end", "stop", "finally"}
    BY <1>16 DEF ReadAfter, VerifyTypeOK, Told
  <2> QED
    BY <2>1, <2>2 DEF sys, VerifyTypeOK
<1>17. CASE RunCommand
  BY <1>17 DEF RunCommand, sys, judge, VerifyTypeOK
<1>18. CASE Cleanup
  <2>1. Stop(leg, opt.volumes) \/ UNCHANGED sys
    BY <1>18 DEF Cleanup
  <2>2. SysTyped'
    BY <2>1, StopTyped, OtherIsVariant DEF VerifyTypeOK
  <2> QED
    BY <1>18, <2>2 DEF Cleanup, Die, judge, SysTyped, VerifyTypeOK
<1>19. CASE Finally
  <2>1. Stop(leg, TRUE) \/ UNCHANGED sys
    BY <1>19 DEF Finally
  <2>2. SysTyped'
    BY <2>1, StopTyped, OtherIsVariant DEF VerifyTypeOK
  <2> QED
    BY <1>19, <2>2 DEF Finally, Die, judge, SysTyped, VerifyTypeOK
<1>20. CASE Report
  BY <1>20 DEF Report, sys, judge, VerifyTypeOK
<1>21. ASSUME NEW v \in Variant, Crash(v) PROVE VerifyTypeOK'
  BY <1>21 DEF Crash, Fault, Running, Up, judge, VerifyTypeOK
<1>22. ASSUME NEW v \in Variant, Hang(v) PROVE VerifyTypeOK'
  BY <1>22 DEF Hang, Fault, Running, Up, judge, VerifyTypeOK
<1>23. ASSUME NEW v \in Variant, ComesBack(v) PROVE VerifyTypeOK'
  BY <1>23 DEF ComesBack, Fault, Running, Up, judge, VerifyTypeOK
<1>24. ASSUME NEW v \in Variant, AnswersAgain(v) PROVE VerifyTypeOK'
  BY <1>24 DEF AnswersAgain, Fault, Running, Up, judge, VerifyTypeOK
<1>25. CASE UNCHANGED vvars
  BY <1>25 DEF vvars, sys, judge, VerifyTypeOK
<1> QED
  BY <1>1, <1>2, <1>3, <1>4, <1>5, <1>6, <1>7, <1>8, <1>9, <1>10, <1>11, <1>12, <1>13, <1>14, <1>15, <1>16,
     <1>17, <1>18, <1>19, <1>20, <1>21, <1>22, <1>23, <1>24, <1>25 DEF VerifyNext, Command1, App, Ended

-----------------------------------------------------------------------------
(* Where each command is, and which legs have a result. *)


LEMMA PathStep ==
  ASSUME VerifyTypeOK, Path, [VerifyNext]_vvars
  PROVE  Path'
<1> USE DEF Variant, Goto, Judging, Compose
<1>1. CASE Build \/ StopFirst \/ Takeover \/ BringUp \/ UpFails \/ RunSolo \/ WaitSolo \/ WaitHealthy
  BY <1>1 DEF Build, Die, sys, judge, Path, StopFirst, Stop, Removed, Takeover, Running, Other, BringUp,
         UpFails, RunSolo, WaitSolo, Up, WaitHealthy, AfterStart
<1>2. CASE Rollback \/ Resolve \/ ListStack \/ ReadBefore \/ OpenRunner \/ RunPoc \/ JudgePoc \/ ReadAfter
  BY <1>2 DEF Rollback, Die, Stop, Removed, sys, judge, Path, Resolve, Live0, Running, ListStack, ReadBefore,
         Uninspected,
         OpenRunner, RunnerEnds, Rest, Up, RunPoc, Exits, ExitOf, JudgePoc, CouldNotRun, Verdict, Judged,
         ReadAfter, Restarted
<1>3. CASE RunCommand \/ Cleanup \/ Finally \/ Report
  BY <1>3 DEF RunCommand, sys, judge, Path, Cleanup, Stop, Removed, Finally, Report
<1>4. ASSUME NEW v \in Variant, App(v) PROVE Path'
  BY <1>4 DEF App, Crash, Fault, Running, Up, judge, Path, Hang, ComesBack, AnswersAgain
<1>5. CASE UNCHANGED vvars
  BY <1>5 DEF vvars, sys, judge, Path
<1> QED
  BY <1>1, <1>2, <1>3, <1>4, <1>5 DEF VerifyNext, Command1, App, Ended

LEMMA LegsStep ==
  ASSUME VerifyTypeOK, Path, Legs, [VerifyNext]_vvars
  PROVE  Legs'
<1> USE DEF Variant, Goto, Judging, Working
<1> USE DEF Path
<1>1. CASE Build \/ StopFirst \/ Takeover \/ BringUp \/ UpFails \/ RunSolo \/ WaitSolo \/ WaitHealthy
  BY <1>1 DEF Build, Die, sys, judge, Legs, StopFirst, Stop, Removed, Takeover, Running, Other, BringUp,
         UpFails, RunSolo, WaitSolo, Up, WaitHealthy, AfterStart
<1>2. CASE Rollback \/ Resolve \/ ListStack \/ ReadBefore \/ OpenRunner \/ RunPoc \/ JudgePoc \/ ReadAfter
  BY <1>2 DEF Rollback, Die, Stop, Removed, sys, judge, Legs, Resolve, Live0, Running, ListStack, ReadBefore,
         Uninspected,
         OpenRunner, RunnerEnds, Rest, Up, RunPoc, Exits, ExitOf, JudgePoc, CouldNotRun, Verdict, Judged,
         ReadAfter, Restarted
<1>3. CASE RunCommand \/ Cleanup \/ Finally \/ Report
  BY <1>3 DEF RunCommand, sys, judge, Legs, Cleanup, Stop, Removed, Finally, Report
<1>4. ASSUME NEW v \in Variant, App(v) PROVE Legs'
  BY <1>4 DEF App, Crash, Fault, Running, Up, judge, Legs, Hang, ComesBack, AnswersAgain
<1>5. CASE UNCHANGED vvars
  BY <1>5 DEF vvars, sys, judge, Legs
<1> QED
  BY <1>1, <1>2, <1>3, <1>4, <1>5 DEF VerifyNext, Command1, App, Ended

-----------------------------------------------------------------------------
(* An exit status of 0. *)


LEMMA ToldStep ==
  ASSUME VerifyTypeOK, Path, Legs, Told, [VerifyNext]_vvars
  PROVE  Told'
<1> USE DEF Variant, Goto, Judging, Working
<1>1. CASE Build \/ StopFirst \/ Takeover \/ BringUp \/ UpFails \/ RunSolo \/ WaitSolo \/ WaitHealthy
  BY <1>1 DEF Build, Die, sys, judge, Told, StopFirst, Stop, Removed, Takeover, Running, Other, BringUp,
         UpFails, RunSolo, WaitSolo, Up, WaitHealthy, AfterStart, Path
<1>2. CASE Rollback \/ Resolve \/ ListStack \/ ReadBefore
  BY <1>2 DEF Rollback, Die, Stop, Removed, sys, judge, Told, Resolve, Live0, Running, ListStack, ReadBefore,
         Uninspected
<1>3. CASE OpenRunner
  <2>1. leg \in Variant /\ leg \notin DOMAIN result /\ DOMAIN result \subseteq Variant
        /\ verdict \in [Variant -> [PoC -> {"none", "ok", "bad", "harness"}]]
    BY <1>3 DEF OpenRunner, Legs, VerifyTypeOK
  <2>2. \A v \in DOMAIN result : verdict'[v] = verdict[v]
    BY <1>3, <2>1 DEF OpenRunner
  <2>3. pc' = "poc" => poc' \in PoC \ Skip /\ \A q \in PoC \ Skip : ~(q < poc')
    <3>1. Rest(0) # {} => FirstOf(Rest(0)) \in Rest(0) /\ \A q \in Rest(0) : FirstOf(Rest(0)) <= q
      BY FirstOfRest
    <3>2. Rest(0) = PoC \ Skip
      BY ScriptsAreNat DEF Rest
    <3>3. pc' = "poc" => Rest(0) # {} /\ poc' = FirstOf(Rest(0))
      BY <1>3 DEF OpenRunner, RunnerEnds
    <3>4. \A q, r \in PoC : r <= q => ~(q < r)
      BY ScriptsAreNat
    <3> QED
      BY <3>1, <3>2, <3>3, <3>4
  <2>4. pc' = "after" => rc' \in {0, 1} /\ (rc' = 0 => PoC \ Skip = {})
    <3>1. Rest(0) = {} => PoC \ Skip = {}
      BY ScriptsAreNat DEF Rest
    <3> QED
      BY <1>3, <3>1 DEF OpenRunner, RunnerEnds
  <2> QED
    BY <1>3, <2>2, <2>3, <2>4 DEF OpenRunner, RunnerEnds, Told
<1>4. CASE RunPoc
  BY <1>4 DEF RunPoc, Exits, ExitOf, sys, judge, Told
<1>5. CASE JudgePoc
  <2> DEFINE said == Verdict(Up(aim))
  <2>1. /\ leg \in Variant /\ leg \notin DOMAIN result /\ DOMAIN result \subseteq Variant
        /\ verdict \in [Variant -> [PoC -> {"none", "ok", "bad", "harness"}]]
        /\ poc \in PoC \ Skip /\ PoC \subseteq Nat /\ UNCHANGED <<opt, leg, result, exit>>
    BY <1>5, VerifyAssumption DEF JudgePoc, Legs, Told, VerifyTypeOK
  <2>2. said \in {"ok", "bad", "harness"}
    BY DEF Verdict
  <2>3. verdict' = [verdict EXCEPT ![leg][poc] = said]
    BY <1>5 DEF JudgePoc, Judged
  <2>4. \A v \in DOMAIN result : verdict'[v] = verdict[v]
    BY <2>1, <2>3
  <2>5. verdict'[leg][poc] = said /\ \A q \in PoC \ {poc} : verdict'[leg][q] = verdict[leg][q]
    BY <2>1, <2>3
  <2>6. \A q \in PoC \ Skip : q <= poc => verdict'[leg][q] \in {"ok", "bad", "harness"}
    <3>1. \A q \in PoC \ Skip : q < poc => verdict[leg][q] # "none"
      BY <1>5 DEF JudgePoc, Told
    <3>2. \A q \in PoC \ Skip : q < poc => verdict[leg][q] \in {"ok", "bad", "harness"}
      <4>1. verdict[leg] \in [PoC -> {"none", "ok", "bad", "harness"}]
        BY <2>1
      <4> QED
        BY <3>1, <4>1
    <3>3. \A q \in PoC \ Skip : q <= poc => q = poc \/ (q < poc /\ q \in PoC \ {poc})
      BY <2>1
    <3> QED
      BY <2>2, <2>5, <3>2, <3>3
  <2>7. CASE pc' = "poc"
    <3>1. Rest(poc) # {} /\ poc' = FirstOf(Rest(poc))
      BY <1>5, <2>7 DEF JudgePoc, RunnerEnds
    <3>2. poc' \in PoC \ Skip /\ \A q \in PoC \ Skip : q > poc => poc' <= q
      BY <2>1, <3>1, FirstOfRest DEF Rest
    <3>3. \A q \in PoC \ Skip : q < poc' => q <= poc
      BY <2>1, <3>2
    <3> QED
      BY <1>5, <2>1, <2>4, <2>6, <2>7, <3>2, <3>3 DEF JudgePoc, Told
  <2>8. CASE pc' # "poc"
    <3>1. pc' = "after" /\ rc' \in {0, 1}
      BY <1>5, <2>8 DEF JudgePoc, RunnerEnds
    <3>2. rc' = 0 => said \in {"ok", "bad"} /\ Rest(poc) = {}
                     /\ \A q \in PoC : verdict'[leg][q] \notin {"bad", "harness"}
      <4>1. rc' = 0 => AllOk(verdict') /\ (Rest(poc) = {} \/ (rc # 0 /\ ~CouldNotRun /\ ~Up(aim)))
        BY <1>5, <2>1, <2>8 DEF JudgePoc, RunnerEnds, AllOk
      <4>2. rc # 0 /\ ~Up(aim) => said = "harness"
        BY DEF Verdict
      <4> QED
        BY <2>1, <2>2, <2>5, <4>1, <4>2 DEF AllOk
    <3>3. Rest(poc) = {} => \A q \in PoC \ Skip : q <= poc
      BY <2>1 DEF Rest
    <3> QED
      BY <2>1, <2>4, <2>6, <3>1, <3>2, <3>3, <1>5 DEF JudgePoc, Told
  <2> QED
    BY <2>7, <2>8
<1>6. CASE ReadAfter \/ RunCommand \/ Cleanup \/ Finally \/ Report
  BY <1>6 DEF ReadAfter, Restarted, Uninspected, sys, judge, Told, RunCommand, Path, Cleanup, Stop, Removed,
         Finally, Report
<1>7. ASSUME NEW v \in Variant, App(v) PROVE Told'
  BY <1>7 DEF App, Crash, Fault, Running, Up, judge, Told, Hang, ComesBack, AnswersAgain
<1>8. CASE UNCHANGED vvars
  BY <1>8 DEF vvars, sys, judge, Told
<1> QED
  BY <1>1, <1>2, <1>3, <1>4, <1>5, <1>6, <1>7, <1>8 DEF VerifyNext, Command1, App, Ended

-----------------------------------------------------------------------------
(* Fresh state before, nothing left after. *)


LEMMA FreshStep ==
  ASSUME VerifyTypeOK, Path, Fresh, [VerifyNext]_vvars
  PROVE  Fresh'
<1> USE DEF Variant, Goto, Judging, Path
<1>1. CASE Build
  BY <1>1 DEF Build, Die, sys, judge, Fresh
<1>2. CASE StopFirst
  <2>1. leg \in Variant /\ Stop(leg, opt.cmd # "restart")
    BY <1>2 DEF StopFirst, VerifyTypeOK
  <2>2. leg \notin failed' /\ opt.cmd # "restart" => stack'[leg] = "absent" /\ data'[leg] = {}
    BY <2>1, StopEffect
  <2> QED
    BY <1>2, <2>2 DEF StopFirst, Fresh
<1>3. CASE Takeover
  <2>1. leg \in Variant /\ Other(leg) \in Variant /\ Other(leg) # leg
    BY OtherIsVariant DEF VerifyTypeOK
  <2>2. stack'[leg] = stack[leg] /\ data'[leg] = data[leg] /\ (leg \in failed' <=> leg \in failed)
    <3>1. CASE Stop(Other(leg), FALSE)
      BY <2>1, <3>1, StopEffect
    <3>2. CASE UNCHANGED sys
      BY <3>2 DEF sys
    <3> QED
      BY <1>3, <3>1, <3>2 DEF Takeover
  <2> QED
    BY <1>3, <2>2 DEF Takeover, Fresh
<1>4. CASE BringUp \/ UpFails \/ RunSolo \/ WaitSolo \/ WaitHealthy
  BY <1>4 DEF BringUp, Running, sys, judge, Fresh, UpFails, Die, RunSolo, WaitSolo, Up, WaitHealthy, AfterStart
<1>5. CASE Rollback
  <2>1. Stop(leg, FALSE) \/ UNCHANGED sys
    BY <1>5 DEF Rollback
  <2> QED
    BY <1>5, <2>1, StopEffect, OtherIsVariant DEF Rollback, Die, sys, VerifyTypeOK, Fresh
<1>6. CASE Resolve \/ ListStack \/ ReadBefore \/ OpenRunner \/ RunPoc \/ JudgePoc \/ ReadAfter \/ RunCommand
  BY <1>6 DEF Resolve, Live0, Running, sys, judge, Fresh, ListStack, Die, ReadBefore, Uninspected,
         OpenRunner, RunnerEnds, Rest, Up, RunPoc, Exits, ExitOf, JudgePoc, CouldNotRun, Verdict, Judged,
         ReadAfter, Restarted, RunCommand
<1>7. CASE Cleanup
  <2>1. Stop(leg, opt.volumes) \/ UNCHANGED sys
    BY <1>7 DEF Cleanup
  <2> QED
    BY <1>7, <2>1, StopEffect, OtherIsVariant DEF Cleanup, Die, sys, VerifyTypeOK, Fresh
<1>8. CASE Finally
  <2>1. Stop(leg, TRUE) \/ UNCHANGED sys
    BY <1>8 DEF Finally
  <2> QED
    BY <1>8, <2>1, StopEffect, OtherIsVariant DEF Finally, Die, sys, VerifyTypeOK, Fresh
<1>9. CASE Report
  BY <1>9 DEF Report, sys, judge, Fresh
<1>10. ASSUME NEW v \in Variant, Crash(v) PROVE Fresh'
  BY <1>10 DEF Crash, Fault, Running, Up, judge, Fresh
<1>11. ASSUME NEW v \in Variant, Hang(v) PROVE Fresh'
  BY <1>11 DEF Hang, Fault, Running, Up, judge, Fresh
<1>12. ASSUME NEW v \in Variant, ComesBack(v) PROVE Fresh'
  BY <1>12 DEF ComesBack, Fault, Running, Up, judge, Fresh
<1>13. ASSUME NEW v \in Variant, AnswersAgain(v) PROVE Fresh'
  BY <1>13 DEF AnswersAgain, Fault, Running, Up, judge, Fresh
<1>14. CASE UNCHANGED vvars
  BY <1>14 DEF vvars, sys, judge, Fresh
<1> QED
  BY <1>1, <1>2, <1>3, <1>4, <1>5, <1>6, <1>7, <1>8, <1>9, <1>10, <1>11, <1>12, <1>13, <1>14 DEF VerifyNext,
     Command1, App, Ended

LEMMA TornStep ==
  ASSUME VerifyTypeOK, Path, Torn, [VerifyNext]_vvars
  PROVE  Torn'
<1> USE DEF Variant, Goto, Judging, Path, Gone
<1>1. CASE Build
  BY <1>1 DEF Build, Die, sys, judge, Torn
<1>2. CASE StopFirst
  <2>1. Stop(leg, opt.cmd # "restart") \/ UNCHANGED sys
    BY <1>2 DEF StopFirst
  <2> QED
    BY <1>2, <2>1, StopEffect, OtherIsVariant DEF StopFirst, Die, sys, VerifyTypeOK, Torn
<1>3. CASE Takeover
  <2>1. ups' = ups
    BY <1>3 DEF Takeover, Stop, sys
  <2> QED
    BY <1>3, <2>1 DEF Takeover, Torn
<1>4. CASE BringUp \/ UpFails \/ RunSolo \/ WaitSolo \/ WaitHealthy
  BY <1>4 DEF BringUp, Running, sys, judge, Torn, UpFails, Die, VerifyTypeOK, RunSolo, WaitSolo, Up,
         WaitHealthy, AfterStart
<1>5. CASE Rollback
  <2>1. Stop(leg, FALSE) \/ UNCHANGED sys
    BY <1>5 DEF Rollback
  <2> QED
    BY <1>5, <2>1, StopEffect, OtherIsVariant DEF Rollback, Die, sys, VerifyTypeOK, Torn
<1>6. CASE Resolve \/ ListStack \/ ReadBefore \/ OpenRunner \/ RunPoc \/ JudgePoc \/ ReadAfter \/ RunCommand
  BY <1>6 DEF Resolve, Live0, Running, sys, judge, Torn, ListStack, Die, ReadBefore, Uninspected,
         OpenRunner, RunnerEnds, Rest, Up, RunPoc, Exits, ExitOf, JudgePoc, CouldNotRun, Verdict, Judged,
         ReadAfter, Restarted, RunCommand
<1>7. CASE Cleanup
  <2>1. Stop(leg, opt.volumes) \/ UNCHANGED sys
    BY <1>7 DEF Cleanup
  <2> QED
    BY <1>7, <2>1, StopEffect, OtherIsVariant DEF Cleanup, Die, sys, VerifyTypeOK, Torn
<1>8. CASE Finally
  <2>1. leg \in Variant
    BY DEF VerifyTypeOK
  <2>2. ~opt.keep => (leg \notin failed' => stack'[leg] = "absent")
    BY <1>8, <2>1, StopEffect DEF Finally
  <2>3. ~opt.keep => \A v \in Variant : v # leg => stack'[v] = stack[v] /\ (v \in failed' <=> v \in failed)
    BY <1>8, <2>1, StopEffect DEF Finally
  <2> QED
    BY <1>8, <2>1, <2>2, <2>3 DEF Finally, Torn
<1>9. CASE Report
  BY <1>9 DEF Report, sys, judge, Torn
<1>10. ASSUME NEW v \in Variant, Crash(v) PROVE Torn'
  BY <1>10 DEF Crash, Fault, Running, Up, judge, Torn
<1>11. ASSUME NEW v \in Variant, Hang(v) PROVE Torn'
  BY <1>11 DEF Hang, Fault, Running, Up, judge, Torn
<1>12. ASSUME NEW v \in Variant, ComesBack(v) PROVE Torn'
  BY <1>12 DEF ComesBack, Fault, Running, Up, judge, Torn
<1>13. ASSUME NEW v \in Variant, AnswersAgain(v) PROVE Torn'
  BY <1>13 DEF AnswersAgain, Fault, Running, Up, judge, Torn
<1>14. CASE UNCHANGED vvars
  BY <1>14 DEF vvars, sys, judge, Torn
<1> QED
  BY <1>1, <1>2, <1>3, <1>4, <1>5, <1>6, <1>7, <1>8, <1>9, <1>10, <1>11, <1>12, <1>13, <1>14 DEF VerifyNext,
     Command1, App, Ended

-----------------------------------------------------------------------------
(* What the verdicts rest on. *)


LEMMA SeenStep ==
  ASSUME VerifyTypeOK, Path, Seen, opt.target = NoTarget, [VerifyNext]_vvars
  PROVE  Seen'
<1> USE DEF Variant, Goto, Judging, Path, Compose, Moved
<1>1. CASE Build
  BY <1>1 DEF Build, Die, sys, judge, Seen
<1>2. CASE StopFirst
  <2>1. Stop(leg, opt.cmd # "restart") \/ UNCHANGED sys
    BY <1>2 DEF StopFirst
  <2> QED
    BY <1>2, <2>1, StopEffect, OtherIsVariant DEF StopFirst, Die, sys, VerifyTypeOK, Seen
<1>3. CASE Takeover
  <2>1. Stop(Other(leg), FALSE) \/ UNCHANGED sys
    BY <1>3 DEF Takeover
  <2>2. \A v \in Variant : stack'[v] = stack[v] \/ stack'[v] = "absent"
    BY <2>1, StopEffect, OtherIsVariant DEF sys, VerifyTypeOK
  <2> QED
    BY <1>3, <2>2 DEF Takeover, Seen
<1>4. CASE BringUp \/ UpFails \/ RunSolo \/ WaitSolo \/ WaitHealthy
  BY <1>4 DEF BringUp, Running, sys, judge, Seen, VerifyTypeOK, UpFails, Die, RunSolo, WaitSolo, Up,
         WaitHealthy, AfterStart
<1>5. CASE Rollback
  <2>1. Stop(leg, FALSE) \/ UNCHANGED sys
    BY <1>5 DEF Rollback
  <2> QED
    BY <1>5, <2>1, StopEffect, OtherIsVariant DEF Rollback, Die, sys, VerifyTypeOK, Seen
<1>6. CASE Resolve \/ ListStack
  BY <1>6 DEF Resolve, Live0, Running, sys, judge, Seen, ListStack, Die
<1>7. CASE ReadBefore
  <2>1. PICK lost \in Uninspected(watch) :
          /\ before' = [v \in {w \in watch : stack[w] # "absent"} \ lost |-> born[v]]
          /\ blind' = lost
    BY <1>7 DEF ReadBefore
  <2>2. aim \in Variant /\ born \in [Variant -> Nat] /\ UNCHANGED <<stack, born, aim, opt, leg>> /\ pc =
         "before" /\ pc' = "open"
    BY <1>7 DEF ReadBefore, Uninspected, sys, VerifyTypeOK
  <2> QED
    BY <2>1, <2>2 DEF Seen
<1>8. CASE OpenRunner \/ RunPoc \/ JudgePoc \/ ReadAfter \/ RunCommand
  BY <1>8 DEF OpenRunner, RunnerEnds, Rest, Up, sys, judge, Seen, RunPoc, Exits, ExitOf, JudgePoc, CouldNotRun,
         Verdict, Judged, ReadAfter, Restarted, RunCommand
<1>9. CASE Cleanup
  <2>1. Stop(leg, opt.volumes) \/ UNCHANGED sys
    BY <1>9 DEF Cleanup
  <2> QED
    BY <1>9, <2>1, StopEffect, OtherIsVariant DEF Cleanup, Die, sys, VerifyTypeOK, Seen
<1>10. CASE Finally
  <2>1. Stop(leg, TRUE) \/ UNCHANGED sys
    BY <1>10 DEF Finally
  <2>2. \A v \in Variant : stack'[v] = stack[v] \/ stack'[v] = "absent"
    BY <2>1, StopEffect, OtherIsVariant DEF sys, VerifyTypeOK
  <2> QED
    BY <1>10, <2>2 DEF Finally, Seen
<1>11. CASE Report
  BY <1>11 DEF Report, sys, judge, Seen
<1>12. ASSUME NEW v \in Variant, App(v) PROVE Seen'
  BY <1>12 DEF App, Crash, Fault, Running, Up, judge, Seen, VerifyTypeOK, Hang, ComesBack, AnswersAgain
<1>13. CASE UNCHANGED vvars
  BY <1>13 DEF vvars, sys, judge, Seen
<1> QED
  BY <1>1, <1>2, <1>3, <1>4, <1>5, <1>6, <1>7, <1>8, <1>9, <1>10, <1>11, <1>12, <1>13 DEF VerifyNext, Command1,
     App, Ended

LEMMA NoticedStep ==
  ASSUME VerifyTypeOK, Path, Legs, Seen, Noticed, Honest, SoFar, Reports,
         opt.target = NoTarget, [VerifyNext]_vvars
  PROVE  Noticed'
<1> USE DEF Variant, Goto, Judging, Path, Moved, Marked, Up
<1>1. CASE Build
  BY <1>1 DEF Build, Die, sys, judge, Noticed
<1>2. CASE StopFirst
  <2>1. Stop(leg, opt.cmd # "restart") \/ UNCHANGED sys
    BY <1>2 DEF StopFirst
  <2> QED
    BY <1>2, <2>1, StopEffect, OtherIsVariant DEF StopFirst, Die, sys, VerifyTypeOK, Noticed
<1>3. CASE Takeover
  <2>1. Stop(Other(leg), FALSE) \/ UNCHANGED sys
    BY <1>3 DEF Takeover
  <2> QED
    BY <1>3, <2>1, StopEffect, OtherIsVariant DEF Takeover, Die, sys, VerifyTypeOK, Noticed
<1>4. CASE BringUp \/ UpFails \/ RunSolo \/ WaitSolo \/ WaitHealthy
  BY <1>4 DEF BringUp, Running, sys, judge, Noticed, UpFails, Die, RunSolo, WaitSolo, Up, WaitHealthy,
         AfterStart
<1>5. CASE Rollback
  <2>1. Stop(leg, FALSE) \/ UNCHANGED sys
    BY <1>5 DEF Rollback
  <2> QED
    BY <1>5, <2>1, StopEffect, OtherIsVariant DEF Rollback, Die, sys, VerifyTypeOK, Noticed
<1>6. CASE Resolve \/ ListStack \/ ReadBefore \/ OpenRunner \/ RunPoc \/ JudgePoc \/ ReadAfter \/ RunCommand
  <2>1. CASE Resolve \/ ListStack \/ ReadBefore \/ ReadAfter \/ RunCommand
    BY <2>1 DEF Resolve, sys, judge, Noticed, ListStack, Die, ReadBefore, ReadAfter, RunCommand
  <2>2. CASE OpenRunner
    BY <2>2 DEF OpenRunner, RunnerEnds, Noticed
  <2>3. CASE RunPoc
    BY <2>3 DEF RunPoc, sys, Noticed
  <2>4. CASE JudgePoc
    BY <2>4 DEF JudgePoc, RunnerEnds, sys, Noticed
  <2> QED
    BY <1>6, <2>1, <2>2, <2>3, <2>4
<1>7. CASE Cleanup
  <2>1. Stop(leg, opt.volumes) \/ UNCHANGED sys
    BY <1>7 DEF Cleanup
  <2> QED
    BY <1>7, <2>1, StopEffect, OtherIsVariant DEF Cleanup, Die, sys, VerifyTypeOK, Noticed
<1>8. CASE Finally
  <2>1. Stop(leg, TRUE) \/ UNCHANGED sys
    BY <1>8 DEF Finally
  <2> QED
    BY <1>8, <2>1, StopEffect, OtherIsVariant DEF Finally, Die, sys, VerifyTypeOK, Noticed
<1>9. CASE Report
  BY <1>9 DEF Report, sys, judge, Noticed
<1>10. ASSUME NEW v \in Variant, Crash(v) PROVE Noticed'
  BY <1>10 DEF Crash, Fault, Running, Up, judge, Noticed, Seen, VerifyTypeOK
<1>11. ASSUME NEW v \in Variant, Hang(v) PROVE Noticed'
  BY <1>11 DEF Hang, Fault, Running, Up, judge, Noticed, Seen, VerifyTypeOK
<1>12. ASSUME NEW v \in Variant, ComesBack(v) PROVE Noticed'
  BY <1>12 DEF ComesBack, Fault, Running, Up, judge, Noticed, Seen, VerifyTypeOK
<1>13. ASSUME NEW v \in Variant, AnswersAgain(v) PROVE Noticed'
  BY <1>13 DEF AnswersAgain, Fault, Running, Up, judge, Noticed, Seen, VerifyTypeOK
<1>14. CASE UNCHANGED vvars
  BY <1>14 DEF vvars, sys, judge, Noticed
<1> QED
  BY <1>1, <1>2, <1>3, <1>4, <1>5, <1>6, <1>7, <1>8, <1>9, <1>10, <1>11, <1>12, <1>13, <1>14 DEF VerifyNext,
     Command1, App, Ended

LEMMA HonestStep ==
  ASSUME VerifyTypeOK, Path, Legs, Seen, Noticed, Honest, SoFar, Reports,
         opt.target = NoTarget, [VerifyNext]_vvars
  PROVE  Honest'
<1> USE DEF Variant, Goto, Judging, Path, Moved, Marked, Up
<1>1. CASE Build
  BY <1>1 DEF Build, Die, sys, judge, Honest
<1>2. CASE StopFirst
  <2>1. Stop(leg, opt.cmd # "restart") \/ UNCHANGED sys
    BY <1>2 DEF StopFirst
  <2> QED
    BY <1>2, <2>1, StopEffect, OtherIsVariant DEF StopFirst, Die, sys, VerifyTypeOK, Honest
<1>3. CASE Takeover
  <2>1. Stop(Other(leg), FALSE) \/ UNCHANGED sys
    BY <1>3 DEF Takeover
  <2> QED
    BY <1>3, <2>1, StopEffect, OtherIsVariant DEF Takeover, Die, sys, VerifyTypeOK, Honest
<1>4. CASE BringUp \/ UpFails \/ RunSolo \/ WaitSolo \/ WaitHealthy
  BY <1>4 DEF BringUp, Running, sys, judge, Honest, UpFails, Die, RunSolo, WaitSolo, Up, WaitHealthy, AfterStart
<1>5. CASE Rollback
  <2>1. Stop(leg, FALSE) \/ UNCHANGED sys
    BY <1>5 DEF Rollback
  <2> QED
    BY <1>5, <2>1, StopEffect, OtherIsVariant DEF Rollback, Die, sys, VerifyTypeOK, Honest
<1>6. CASE Resolve \/ ListStack \/ ReadBefore \/ OpenRunner \/ RunPoc \/ JudgePoc \/ ReadAfter \/ RunCommand
  BY <1>6 DEF Resolve, Live0, Running, sys, judge, Honest, ListStack, Die, ReadBefore, Uninspected,
         OpenRunner, RunnerEnds, Rest, Up, RunPoc, Exits, ExitOf, JudgePoc, CouldNotRun, Verdict, Judged,
         ReadAfter, Restarted, RunCommand
<1>7. CASE Cleanup
  <2>1. Stop(leg, opt.volumes) \/ UNCHANGED sys
    BY <1>7 DEF Cleanup
  <2> QED
    BY <1>7, <2>1, StopEffect, OtherIsVariant DEF Cleanup, Die, sys, VerifyTypeOK, Honest
<1>8. CASE Finally
  <2>1. Stop(leg, TRUE) \/ UNCHANGED sys
    BY <1>8 DEF Finally
  <2> QED
    BY <1>8, <2>1, StopEffect, OtherIsVariant DEF Finally, Die, sys, VerifyTypeOK, Honest
<1>9. CASE Report
  BY <1>9 DEF Report, sys, judge, Honest
<1>10. ASSUME NEW v \in Variant, App(v) PROVE Honest'
  BY <1>10 DEF App, Crash, Fault, Running, Up, judge, Honest, Hang, ComesBack, AnswersAgain
<1>11. CASE UNCHANGED vvars
  BY <1>11 DEF vvars, sys, judge, Honest
<1> QED
  BY <1>1, <1>2, <1>3, <1>4, <1>5, <1>6, <1>7, <1>8, <1>9, <1>10, <1>11 DEF VerifyNext, Command1, App, Ended

LEMMA SoFarStep ==
  ASSUME VerifyTypeOK, Path, Legs, Seen, Noticed, Honest, SoFar, Reports,
         opt.target = NoTarget, [VerifyNext]_vvars
  PROVE  SoFar'
<1> USE DEF Variant, Goto, Judging, Path, Moved, Marked, Up
<1> USE DEF Right
<1>1. CASE Build
  BY <1>1 DEF Build, Die, sys, judge, SoFar
<1>2. CASE StopFirst
  <2>1. Stop(leg, opt.cmd # "restart") \/ UNCHANGED sys
    BY <1>2 DEF StopFirst
  <2> QED
    BY <1>2, <2>1, StopEffect, OtherIsVariant DEF StopFirst, Die, sys, VerifyTypeOK, SoFar
<1>3. CASE Takeover
  <2>1. Stop(Other(leg), FALSE) \/ UNCHANGED sys
    BY <1>3 DEF Takeover
  <2> QED
    BY <1>3, <2>1, StopEffect, OtherIsVariant DEF Takeover, Die, sys, VerifyTypeOK, SoFar
<1>4. CASE BringUp \/ UpFails \/ RunSolo \/ WaitSolo \/ WaitHealthy
  BY <1>4 DEF BringUp, Running, sys, judge, SoFar, UpFails, Die, RunSolo, WaitSolo, Up, WaitHealthy, AfterStart
<1>5. CASE Rollback
  <2>1. Stop(leg, FALSE) \/ UNCHANGED sys
    BY <1>5 DEF Rollback
  <2> QED
    BY <1>5, <2>1, StopEffect, OtherIsVariant DEF Rollback, Die, sys, VerifyTypeOK, SoFar
<1>6. CASE Resolve \/ ListStack \/ ReadBefore
  BY <1>6 DEF Resolve, Live0, Running, sys, judge, SoFar, ListStack, Die, ReadBefore, Uninspected
<1>7. CASE OpenRunner
  <2>1. \A p \in PoC : verdict'[leg][p] = "none"
    BY <1>7 DEF OpenRunner, VerifyTypeOK
  <2> QED
    BY <1>7, <2>1 DEF OpenRunner, SoFar
<1>8. CASE RunPoc
  BY <1>8 DEF RunPoc, Exits, ExitOf, sys, judge, SoFar
<1>9. CASE JudgePoc
  <2> DEFINE said == Verdict(Up(aim))
  <2>1. poc \in PoC => verdict'[leg][poc] = said
    BY <1>9 DEF JudgePoc, Judged, VerifyTypeOK
  <2>2. \A p \in PoC \ {poc} : verdict'[leg][p] = verdict[leg][p]
    BY <1>9 DEF JudgePoc, Judged, VerifyTypeOK
  <2>3. UNCHANGED <<bugs, born, aim, leg, before, blind>> /\ pc = "probe"
    BY <1>9 DEF JudgePoc, sys
  <2>4. ~Marked /\ said \in {"ok", "bad"} => (said = "ok" <=> (poc \in bugs[aim] <=> leg = "vuln"))
    <3>1. said \in {"ok", "bad"} => rc \in {0, 1} /\ (rc # 0 => Up(aim)) /\ (said = "ok" <=> (rc = 0 <=> leg =
           "vuln"))
      BY DEF Verdict, CouldNotRun, VerifyTypeOK
    <3>2. ~Marked /\ Up(aim) => ~hit
      BY <2>3 DEF Noticed
    <3>3. (rc = 0 => poc \in bugs[aim]) /\ (rc = 1 => poc \notin bugs[aim] \/ hit)
      BY <2>3 DEF Honest
    <3> QED
      BY <3>1, <3>2, <3>3
  <2>5. Marked' <=> Marked
    BY <2>3
  <2>6. Marked \/ \A p \in PoC : Right(leg, p, aim)'
    BY <2>1, <2>2, <2>3, <2>4 DEF SoFar
  <2> QED
    BY <2>5, <2>6 DEF SoFar
<1>10. CASE ReadAfter \/ RunCommand
  BY <1>10 DEF ReadAfter, Restarted, Uninspected, sys, judge, SoFar, RunCommand
<1>11. CASE Cleanup
  <2>1. Stop(leg, opt.volumes) \/ UNCHANGED sys
    BY <1>11 DEF Cleanup
  <2> QED
    BY <1>11, <2>1, StopEffect, OtherIsVariant DEF Cleanup, Die, sys, VerifyTypeOK, SoFar
<1>12. CASE Finally
  <2>1. Stop(leg, TRUE) \/ UNCHANGED sys
    BY <1>12 DEF Finally
  <2> QED
    BY <1>12, <2>1, StopEffect, OtherIsVariant DEF Finally, Die, sys, VerifyTypeOK, SoFar
<1>13. CASE Report
  BY <1>13 DEF Report, sys, judge, SoFar
<1>14. ASSUME NEW v \in Variant, App(v) PROVE SoFar'
  BY <1>14 DEF App, Crash, Fault, Running, Up, judge, SoFar, Seen, VerifyTypeOK, Hang, ComesBack, AnswersAgain
<1>15. CASE UNCHANGED vvars
  BY <1>15 DEF vvars, sys, judge, SoFar
<1> QED
  BY <1>1, <1>2, <1>3, <1>4, <1>5, <1>6, <1>7, <1>8, <1>9, <1>10, <1>11, <1>12, <1>13, <1>14, <1>15 DEF
     VerifyNext, Command1, App, Ended

LEMMA ReportsStep ==
  ASSUME VerifyTypeOK, Path, Legs, Seen, Noticed, Honest, SoFar, Reports,
         opt.target = NoTarget, [VerifyNext]_vvars
  PROVE  Reports'
<1> USE DEF Variant, Goto, Judging, Path, Moved, Marked, Up
<1> USE DEF Right, Met, Legs, Working
<1>1. CASE Build
  <2>1. UNCHANGED <<opt, bugs, aim, verdict, result>>
    BY <1>1 DEF Build, Die, judge
  <2> QED
    BY <2>1 DEF Reports
<1>2. CASE StopFirst
  <2>1. UNCHANGED <<opt, bugs, aim, verdict, result>>
    BY <1>2 DEF StopFirst, Stop, Removed, judge
  <2> QED
    BY <2>1 DEF Reports
<1>3. CASE Takeover
  <2>1. UNCHANGED <<opt, bugs, aim, verdict, result>>
    BY <1>3 DEF Takeover, Stop, Removed, Running, Other, judge
  <2> QED
    BY <2>1 DEF Reports
<1>4. CASE BringUp
  <2>1. UNCHANGED <<opt, bugs, aim, verdict, result>>
    BY <1>4 DEF BringUp, Running, judge
  <2> QED
    BY <2>1 DEF Reports
<1>5. CASE UpFails
  <2>1. UNCHANGED <<opt, bugs, aim, verdict, result>>
    BY <1>5 DEF UpFails, Die, judge
  <2> QED
    BY <2>1 DEF Reports
<1>6. CASE RunSolo
  <2>1. UNCHANGED <<opt, bugs, aim, verdict, result>>
    BY <1>6 DEF RunSolo, Die, judge
  <2> QED
    BY <2>1 DEF Reports
<1>7. CASE WaitSolo
  <2>1. UNCHANGED <<opt, bugs, aim, verdict, result>>
    BY <1>7 DEF WaitSolo, Die, Up, Running, judge
  <2> QED
    BY <2>1 DEF Reports
<1>8. CASE WaitHealthy
  <2>1. UNCHANGED <<opt, bugs, aim, verdict, result>>
    BY <1>8 DEF WaitHealthy, AfterStart, Up, judge
  <2> QED
    BY <2>1 DEF Reports
<1>9. CASE Rollback
  <2>1. UNCHANGED <<opt, bugs, aim, verdict, result>>
    BY <1>9 DEF Rollback, Die, Stop, Removed, judge
  <2> QED
    BY <2>1 DEF Reports
<1>10. CASE Resolve
  BY <1>10 DEF Resolve, Live0, Running, sys, judge, Reports
<1>11. CASE ListStack
  <2>1. UNCHANGED <<opt, bugs, verdict, result>> /\ pc = "list"
    BY <1>11 DEF ListStack
  <2>2. opt.cmd = "validate"
    BY <2>1, OptTyped DEF Path
  <2> QED
    BY <2>1, <2>2 DEF Reports
<1>12. CASE ReadBefore
  <2>1. UNCHANGED <<opt, bugs, aim, verdict, result>>
    BY <1>12 DEF ReadBefore, Uninspected, judge
  <2> QED
    BY <2>1 DEF Reports
<1>13. CASE OpenRunner
  BY <1>13 DEF OpenRunner, RunnerEnds, Rest, Up, sys, judge, Reports, VerifyTypeOK
<1>14. CASE RunPoc
  <2>1. UNCHANGED <<opt, bugs, aim, verdict, result>>
    BY <1>14 DEF RunPoc, Exits, ExitOf, judge
  <2> QED
    BY <2>1 DEF Reports
<1>15. CASE JudgePoc
  BY <1>15 DEF JudgePoc, RunnerEnds, CouldNotRun, Verdict, Judged, Rest, Up, sys, judge, Reports, VerifyTypeOK
<1>16. CASE ReadAfter
  <2>1. UNCHANGED <<opt, bugs, aim, verdict>> /\ leg \notin DOMAIN result
    BY <1>16 DEF ReadAfter, Legs, Working
  <2>2. PICK lost \in Uninspected(DOMAIN before) :
          result' = [v \in DOMAIN result \cup {leg} |->
                       IF v = leg THEN [code |-> rc, restarted |-> Restarted(lost), blind |-> blind \cup lost]
                       ELSE result[v]]
    BY <1>16 DEF ReadAfter
  <2>6. DOMAIN result' = DOMAIN result \cup {leg} /\ (\A v \in DOMAIN result : result'[v] = result[v])
        /\ result'[leg].restarted = Restarted(lost) /\ result'[leg].blind = blind \cup lost
    BY <2>1, <2>2
  <2>3. Met(leg) = aim
    BY <1>16 DEF ReadAfter, Seen, Met
  <2>4. Marked => Restarted(lost) # {} \/ aim \in blind \cup lost
    <3>1. Moved => stack[aim] # "absent"
      BY <1>16 DEF ReadAfter, Seen, Compose
    <3> QED
      BY <3>1 DEF Restarted
  <2>5. Marked \/ \A p \in PoC : Right(leg, p, aim)
    BY <1>16 DEF ReadAfter, SoFar
  <2> QED
    BY <2>1, <2>3, <2>4, <2>5, <2>6 DEF Reports
<1>17. CASE RunCommand
  <2>1. UNCHANGED <<opt, bugs, aim, verdict, result>>
    BY <1>17 DEF RunCommand, judge
  <2> QED
    BY <2>1 DEF Reports
<1>18. CASE Cleanup
  <2>1. UNCHANGED <<opt, bugs, aim, verdict, result>>
    BY <1>18 DEF Cleanup, Stop, Removed, judge
  <2> QED
    BY <2>1 DEF Reports
<1>19. CASE Finally
  <2>1. UNCHANGED <<opt, bugs, aim, verdict, result>>
    BY <1>19 DEF Finally, Stop, Removed, judge
  <2> QED
    BY <2>1 DEF Reports
<1>20. CASE Report
  <2>1. UNCHANGED <<opt, bugs, aim, verdict, result>>
    BY <1>20 DEF Report, judge
  <2> QED
    BY <2>1 DEF Reports
<1>21. ASSUME NEW v \in Variant, App(v) PROVE Reports'
  BY <1>21 DEF App, Crash, Fault, Running, Up, judge, Reports, Hang, ComesBack, AnswersAgain
<1>22. CASE UNCHANGED vvars
  BY <1>22 DEF vvars, sys, judge, Reports
<1> QED
  BY <1>1, <1>2, <1>3, <1>4, <1>5, <1>6, <1>7, <1>8, <1>9, <1>10, <1>11, <1>12, <1>13, <1>14, <1>15, <1>16,
     <1>17, <1>18, <1>19, <1>20, <1>21, <1>22 DEF VerifyNext, Command1, App, Ended


-----------------------------------------------------------------------------
(* The invariants and the theorems. *)

VerifyInv == VerifyTypeOK /\ Path /\ Legs /\ Told /\ Fresh /\ Torn
VerdictInv == opt.target = NoTarget /\ Seen /\ Noticed /\ Honest /\ SoFar /\ Reports

LEMMA InitInv == VerifyInit => VerifyInv
<1> SUFFICES ASSUME VerifyInit PROVE VerifyInv
  OBVIOUS
<1>1. opt \in Command
  BY VerifyAssumption DEF VerifyInit
<1>2. opt.variant \in Variant /\ opt.cmd \in {"verify", "validate", "run", "reset", "restart", "make"}
  BY <1>1 DEF Command
<1>3. /\ opt.cmd = "verify" => pc = "resolve"
      /\ opt.cmd = "validate" => pc = "build"
      /\ opt.cmd = "run" => pc = "start"
      /\ opt.cmd \in {"reset", "restart"} => pc = "stop"
      /\ opt.cmd = "make" => pc = "up"
  BY DEF VerifyInit, FirstStep
<1>4. pc \in {"resolve", "build", "start", "stop", "up"}
  BY <1>2, <1>3
<1>5. bugs \in [Variant -> SUBSET PoC]
  BY VerifyAssumption DEF VerifyInit
<1>6. data \in [Variant -> SUBSET {"named", "anonymous"}]
  BY DEF VerifyInit
<1>7. VerifyTypeOK
  <2>1. /\ stack \in [Variant -> {"absent", "up", "hung", "down"}] /\ born \in [Variant -> Nat]
        /\ ups \in [Variant -> {"never", "failed", "done"}]
        /\ verdict \in [Variant -> [PoC -> {"none", "ok", "bad", "harness"}]]
    BY DEF VerifyInit
  <2>2. opt \in Commands /\ leg \in Variant /\ aim \in Variant /\ DOMAIN before = {} /\ DOMAIN result = {}
    BY <1>2 DEF VerifyInit, Variant
  <2>3. hit \in BOOLEAN
    BY DEF VerifyInit
  <2>4. clock \in 0..Budget /\ faults \in 0..MaxFaults
    BY BoundsAreNat DEF VerifyInit
  <2> QED
    BY <1>4, <1>5, <1>6, <2>1, <2>2, <2>3, <2>4 DEF VerifyInit, VerifyTypeOK
<1>8. Path /\ Legs
  BY <1>2, <1>3 DEF VerifyInit, Path, Legs
<1>9. Told /\ Fresh /\ Torn
  BY <1>3, <1>4 DEF VerifyInit, Told, Fresh, Torn, Variant
<1> QED
  BY <1>7, <1>8, <1>9 DEF VerifyInv

LEMMA VerifyInductive == VerifySpec => []VerifyInv
<1>1. VerifyInv /\ [VerifyNext]_vvars => VerifyInv'
  BY TypeStep, PathStep, LegsStep, ToldStep, FreshStep, TornStep DEF VerifyInv
<1> QED
  BY <1>1, InitInv, PTL DEF VerifySpec

\* The variables keep their types, for any scripts and command lines.
THEOREM VerifyTypeCorrect == VerifySpec => []VerifyTypeOK
<1>1. VerifyInv => VerifyTypeOK
  BY DEF VerifyInv
<1> QED
  BY <1>1, VerifyInductive, PTL

\* Whatever crashes, hangs or fails, `verify` and `validate` exit 0 only after every PoC
\* they do not skip was judged, on every leg, as expected.
THEOREM ExitZeroEarned == VerifySpec => []ExitZeroIsEarned
<1>1. VerifyInv => ExitZeroIsEarned
  <2> SUFFICES ASSUME VerifyInv, pc = "end", exit = 0, opt.cmd \in {"verify", "validate"},
                      NEW v \in (IF opt.cmd = "verify" THEN {leg} ELSE Variant)
               PROVE  v \in DOMAIN result /\ \A p \in PoC \ Skip : verdict[v][p] = "ok"
    BY DEF ExitZeroIsEarned
  <2>1. v \in DOMAIN result /\ result[v].code = 0
    BY DEF VerifyInv, Told
  <2> QED
    BY <2>1 DEF VerifyInv, Told
<1> QED
  BY <1>1, VerifyInductive, PTL

\* Unless docker refuses to take the old stack down, validate's first script of a leg
\* meets a stack nothing has touched.
THEOREM StateIsFresh == VerifySpec => []FreshState
<1>1. VerifyInv => FreshState
  BY DEF VerifyInv, FreshState, Fresh
<1> QED
  BY <1>1, VerifyInductive, PTL

\* However validate or run ends, what it started is taken down, unless it was told to keep
\* it or docker refuses.
THEOREM StacksTornDown == VerifySpec => []TornDown
<1>1. VerifyInv => TornDown
  <2> SUFFICES ASSUME VerifyInv, pc = "end", ~opt.keep, NEW v \in Variant
               PROVE  \/ stack[v] = "absent" \/ v \in failed
                      \/ opt.cmd = "validate" /\ ups[v] = "never"
                      \/ opt.cmd = "run" /\ (ups[v] # "done" \/ opt.keepFailed)
                      \/ opt.cmd \in {"verify", "reset", "restart", "make"}
    BY DEF TornDown
  <2>1. opt.cmd \in {"verify", "validate", "run", "reset", "restart", "make"}
    BY OptTyped DEF VerifyInv
  <2>2. CASE opt.cmd = "validate"
    BY <2>2 DEF VerifyInv, Torn, Gone
  <2>3. CASE opt.cmd = "run"
    BY <2>3 DEF VerifyInv, Torn, Gone
  <2> QED
    BY <2>1, <2>2, <2>3
<1> QED
  BY <1>1, VerifyInductive, PTL

LEMMA InitVerdictInv ==
  ASSUME \A c \in Commands : c.target = NoTarget, VerifyInit
  PROVE  VerdictInv
<1>1. opt.target = NoTarget
  BY DEF VerifyInit
<1>2. pc \in {"resolve", "build", "start", "stop", "up"}
  BY InitInv, OptTyped DEF VerifyInit, VerifyInv, FirstStep
<1>3. Seen
  BY <1>2 DEF VerifyInit, Seen, Judging, Variant
<1>4. Noticed /\ Honest /\ SoFar /\ Reports
  BY <1>2 DEF VerifyInit, Noticed, Honest, SoFar, Reports
<1> QED
  BY <1>1, <1>3, <1>4 DEF VerdictInv

LEMMA OptStays == ASSUME VerifyTypeOK, [VerifyNext]_vvars PROVE UNCHANGED opt
BY DEF VerifyNext, Command1, App, Ended, vvars, Build, StopFirst, Takeover, BringUp, UpFails, RunSolo, WaitSolo,
       WaitHealthy, Rollback, Resolve, ListStack, ReadBefore, Uninspected, OpenRunner, RunPoc, JudgePoc,
         ReadAfter, RunCommand,
       Cleanup, Finally, Report, Crash, Hang, ComesBack, AnswersAgain, Fault

\* Where the command finds its target itself, every verdict says what is true of the
\* app, or its leg says that a container restarted - unless docker failed to inspect the
\* target, or the target hung and answered again, which nothing the code reads shows.
THEOREM VerdictsAreTrue ==
  ASSUME \A c \in Commands : c.target = NoTarget
  PROVE  VerifySpec => []VerdictsHold
<1>1. VerifyInit => VerdictInv
  BY InitVerdictInv
<1>2. VerifyInv /\ VerdictInv /\ [VerifyNext]_vvars => VerdictInv'
  BY SeenStep, NoticedStep, HonestStep, SoFarStep, ReportsStep, OptStays DEF VerifyInv, VerdictInv
<1>3. VerdictInv => VerdictsHold
  BY DEF VerdictInv, Reports, VerdictsHold, Right
<1> QED
  BY <1>1, <1>2, <1>3, VerifyInductive, PTL DEF VerifySpec
==============================================================================
