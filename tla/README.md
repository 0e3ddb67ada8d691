# A TLA+ verification of dynast-bench

dynast-bench starts intentionally vulnerable web applications (each as a `vuln` twin and
a patched `safe` twin), checks them with proof-of-concept scripts, puts them under load,
and scores the reports of scanners against an answer key.  Its numbers are only worth
something if two quite different kinds of code are right: the commands, which work on a
docker daemon and a machine they do not control, and the rules, which decide what a
finding, an endpoint or an answer key means.  This directory models both, model-checks
them with TLC and proves the central properties with TLAPS.

Paths are relative to `dynast-bench/` in the repository unless they begin with `../`;
bare line numbers are those of `dynast-bench.ts`.

## 1. Inventory

| part | source | state it keeps | operations | what is hard | model |
|---|---|---|---|---|---|
| port planning and start | 404-583, 615-662, 813-875, 1050-1067, 1220-1669, 2080-2137 | `RESERVED_PORTS`, the lock `portQueue`, the plan of each start; docker's containers, the host's listeners | `startApp`, `withPortLock`, `pickSoloPort`, `planPorts`, `waitHealthy`, rollback | parallel starts; listings older than what they justify; half-failed `up`; other software on the ports | `PortPlan` |
| discovery and teardown | 665-811, 1083-1218, 2150-2228, 3480-3648 | none of its own; containers, volumes, networks, images in docker | `stop`, `clean`, `stopStack`, `forceStopStack`, `reapVolumes` | volumes that lose their only link when containers go; failing docker calls that read as "nothing there" | `Volumes` |
| verification and lifecycle | `tools/poc-runner.sh`, `tools/wait-healthy.sh`, `tools/solo-run.sh`, 2318-2560, 3650-3700 | verdict counters, container start times | `poc_run`, `runVerify`, `verify`, `validate`, `run`, `reset`, `restart`, an app's `make solo` | an app that stops, hangs or restarts between a PoC and the probe that judges it; teardown after any failure | `Verify` |
| stress | 2585-3115 | probes, samples, three checks | `stress` | crash or restart under load; readings that have no answer | `Stress` |
| assignment | `src/scorer/match.ts` 542-621 | `gtOwner`, `chosen` | `assign` | augmenting paths that change two maps in many steps | `Assign` |
| classification | `src/scorer/score.ts` | the rows of a report | `scoreApp` | the order of seven classes; two twins | `Score` |
| pair matching | `src/scorer/match.ts` 1-540, `anchors.ts`, `src/schema/{keys,cwe}.ts`, `src/normalize/guess.ts` | none | `pairFor`, `weigh`, `RoutedPathMatch`, anchors | tiers, gates and penalties that interact | `Keys`, `Pair` |
| coverage, discovery | `src/scorer/{coverage,tracks,metrics}.ts`, `src/schema/{operations,surface,endpoints}.ts`, `cmdCoverage` | none | the coverage track, what a catalog may hold, what an endpoint list says | which templated route an observed path reaches; shapes that are "all equivalent" | `Coverage`, `Endpoints` |
| report normalisation | `src/normalize/{index,adapters}.ts`, `src/schema/{envelope,findings}.ts`, `readFindings` | none | sniff, adapt, coerce, rename ids | what is dropped silently | `Report` |
| stripper, image check | `tools/annotations/strip.mjs`, `src/check/annotations.ts` | the text being rewritten | strip, check a Dockerfile and a compose file | comments that share a line with code; two stages that copy | `Strip`, `Image` |
| derivation tools | `tools/derive-{match,surface}.ts`, `src/twin-diff.ts` | the answer key, the catalog | work out anchors, draft and merge the catalog | ranges that must not overlap; edits in between | `Derive`, `Catalog` |
| answer-key checks | `src/check/*.ts`, `src/schema/ground-truth.ts` | none | the gate of `make check` | relations between bugs, near-misses, twins and catalog | `AnswerKey` |
| report text, inspection, browser, schemas | the rest of `dynast-bench.ts`, `src/schema`, `tools/browser` | none | print, parse | - | not modelled (section 9) |
| applications, plans, examples | `../vulnerable-apps`, `../benchmark-plans`, `../examples` | - | payload of the bench | not bench logic | not modelled |

How they interact.  A command loads the catalog, asks docker what runs
(`listContainers`), and works on that answer; `start` also asks the kernel about single
ports.  `validate`, `run`, `reset` and `restart` are sequences of teardown, `startApp`
and, for `validate`, the PoC runner.  All share docker's state with each other, with other
CLI processes and with whatever else the user runs; inside one process the starts of a
batch share only `RESERVED_PORTS` and the lock.  `score` is a pure function: normalised
findings and the answer key go through `pairFor` to `assign`, and its result, with the
near-miss and incidental candidates, becomes a report.  `coverage` compares endpoint lists
with the catalog that `derive-surface` drafts from the key; the same keys and path
matching serve the scorer, the track, the checks and the derivation.

What makes each part correct:

- *start*: no host port has two owners; a port is never promised while somebody has it; a
  reservation ends with the start that made it; only the app's own stacks are stopped; the
  app's own twin is no reason to change the URL; a relocated app does not drift; every start ends.
- *teardown*: what was not selected is not touched; what is reported deleted is gone;
  nothing of what was selected is left; it ends.
- *verification*: "fixed" is never said of a PoC that could not run; exit 0 is earned; each
  twin is judged on fresh state; what was started is torn down whatever failed.
- *stress*: a pass has seen what it claims; the run ends.
- *assignment*: one to one, maximal, strongest findings first, nobody lost, ends.
- *classification*: credit is earned, a miss has a reason, a charge goes to whom it should.
- *rules*: case-sensitive paths stay apart; a placeholder yields to a listed static route;
  the split of the misses follows from what was reported, not from its order or spelling;
  a report loses nothing in silence; stripping takes the labels and nothing else.
- *answer key*: what the gate lets through has one owner per line; nothing a person put
  in the catalog is lost.

`PROJECT.json` lists the hazards one by one, at the line where each bites, with the
properties that cover it.

## 2. How the project is built

State machines, one per part that runs next to something else: `PortPlan` (with the
abstract `PortLease`), `Volumes`, `Verify`, `Stress`; and one, `Assign` (abstract:
`Matching`), for an algorithm whose steps matter.  `Score` composes with `Assign`, whose
variables and actions it shares.  The pure rules are operators in layers, each module
extending the one before: `Keys` - `Pair` - `Report`, `Keys` - `Coverage`, both joined in
`Endpoints`; `Strip` - `Image`; `Pair` - `Derive` - `Catalog`.  Two modules put them to
use: `Rules` asks them one question at a time, and `AnswerKey` is the state machine of the
people and tools that edit source, key and catalog.  The `MC` modules hold the instances.

No module that is proved about reaches a RECURSIVE operator; recursion in the rules is by
a recursive function over the indices of a sequence, or a fold where nothing is proved of what
it computes.  That such a function has a value at every index, and that what each step keeps holds at
the last one, is shown without a scheme of induction, by the first index where it would fail (`Least`,
`Upwards`, `UpFrom`).  A loop that keeps some elements of a list is `Among`, a function of the list.  The proofs are in modules
of their own: `PortPlanProofs` (with the lease), `AssignProofs`, `ScoreProofs`, `VolumesProofs`,
`VerifyProofs`, `StressProofs`, `StripProofs` and `RulesProofs` (of `Rules` and `AnswerKey`).

| run | module | what it asks | distinct states |
|---|---|---|---|
| `plan_batch` | `MCPortPlan` | ports of a parallel batch among comers and goers, pool full, docker failing | 222,752 |
| `plan_faults` | `MCPortPlan` | every start ends, whatever fails | 113,406 |
| `score` | `MCScore` | reports on both twins, and all candidate lists of three findings and three bugs | 815,449 |
| `verify` | `MCVerify` | six commands against an app and a docker that fail | 3,158,352 |
| `teardown` | `MCVolumes` | stop and clean among other users of a docker that fails | 2,993,191 |
| `stress` | `MCStress` | a run over an app that dies and hangs | 198,266 |
| `rules` | `MCRules` | the pure rules over small universes | 110,394 |
| `answer_key` | `MCAnswerKey` | three edits and the tools between them | 244,594 |
| `flat_report` | `MCRules` | counterexample: section 8 | |
| `clean_checkout` | `MCVolumes` | counterexample: section 8 | |
| `plan_leak` | `MCPortPlan` | counterexample: section 8 | |
| `teardown_blind` | `MCVolumes` | counterexample: section 8 | |

Every passing run also evaluates the ASSUMEs on its constants.  Deadlock is checked except
in `rules` (a question is answered once) and `answer_key` (after three edits and a check
nothing is left to do).

Done in the order in which the parts decide what a user is told: planning, assignment and
classification first, then verification, teardown and stress, then the rules and the key.
What is left is in section 10.

## 3. Port planning: `PortPlan`, `PortLease`

One `dynast-bench start` process.  Each start of the batch is a program counter `pc[j]`; the
other variables are the state of the code by its own name or as said in the module.

| variable | code |
|---|---|
| `next` | the worker pool's counter (`pooled`) |
| `queue` | the promise chain `portQueue`; its head holds the lock |
| `reserved` | `RESERVED_PORTS` |
| `claims[j]` | `plan.claimed` of a start |
| `target` | the app port asked of `planPorts` |
| `snap` | the planner's `containers`, one `docker ps` answer |
| `claimed` | the planner's copy of `RESERVED_PORTS` plus its claims |
| `cursor` | where the walk over slot and pool stands |
| `pub`, `foreign` | what docker and the kernel would say: publishes of the bench's stacks, other listeners |

| action | code |
|---|---|
| `Begin` | `pooled` hands out an app; `startApp`'s refusal without a standalone image |
| `List` | `listContainers` under the lock, or docker failing |
| `Pick`, `NothingToPick` | `pickSoloPort`, one candidate per step |
| `Open` | `planPorts` copies `RESERVED_PORTS` |
| `TakeWanted`, `StopTwin`, `Relist`, `Recheck`, `LeaveWanted` | the wanted port: free or own, takeover, neither |
| `ScanPool`, `PoolIsFull` | relocation |
| `Up` | `compose up` or `rm` + `run`, and the `finally` |
| `Healthy`, `Unhealthy`, `Rollback` | `waitHealthy` and what follows |
| `ForeignArrives`, `ForeignLeaves`, `StackDies` | the rest of the machine |

Every `await` is a place where another start or the machine may move: each look at a port
is a step of its own, judged by the listing the plan holds and by the machine as it is at
that moment.  Reading a port and claiming it are one step because `Claim` follows the last
`await` without another.

Abstractions.  A stack is the one a command starts (`self`) or another of the same app
(`twin`).  The constants of the port map are parameters.  `ProbeSees` says whether the bind
test and `lsof` see a port docker publishes: the doc of `portStatus` says that this depends
on the platform.  Every publish of the compose files goes through a `DYNAST_PORT` variable,
so a relocation always takes effect.  What a failed `up` leaves behind is any mix docker can
leave (`Leftover`).

`PortLease` is the promise with the planning left out: a port has at most one tenant, is
granted only while nobody else has it, and a tenant gives up only its own.  `LeasesPorts` is
the refinement, under the mapping "a stack has what it publishes and what is promised to a
start of it".

### Runs

Two apps suffice for everything that happens between apps: a promise has a holder and a
rival.  App `x` has a sidecar, so a plan can fail after a claim; ports 1 and 2 are the apps'
own, 3 and 4 their sidecars', 5 and up the pool.  `AnyPlacement` is every way the stacks of
two apps can be up at the start without sharing a port, relocated ones and a `make up` on
the compose default included.

- `plan_batch`: both apps in parallel, anything coming and going on both app ports and one
  pool port, a pool of two, docker calls failing.  Two relocations fit, a third or a foreigner in the
  pool finds it full; a planner dies with a port reserved where `docker ps` fails after a takeover.
- `plan_leak`: a pool of one, the app port and the sidecar port of one app taken by others; docker
  answers.  It ends in a counterexample (section 8).
- `plan_faults`: three solo starts, two of them of one app (`start x x`), the third past the
  slot range and without a standalone image, a pool of one, docker failing, stacks dying.

Fairness (`FairSpec`, used by `plan_faults` only): weak fairness of each start.  Every docker
call is a child process that ends, `waitHealthy` has a deadline, and the lock is a promise
chain that moves on success and failure alike.  Nothing is assumed of other listeners.

### Proved (`PortPlanProofs`)

For every catalog, batch - the same app twice included -, width, mode, port map and
behaviour of the machine:

- `TypeCorrect` and `NoPortPromisedTwice`: `Spec => []TypeOK`, `Spec => []PromisesDisjoint`.
- `OwnPortsAreOwn`: home ports of different apps differ and avoid the pool, while the
  catalog fits its range (13311 + 29 <= 13340, 13340 + 29 * 5 <= 13500).
- `PromisesHold` and `PlanningLeases`, assuming `ProbeSees`: `Spec => []PromiseNotTaken`, and
  `Spec => LeasesPorts`, the refinement of `PortLease`.
- `OnlyOwnStacks`, assuming no stack dies by itself: `Spec => OthersLeftAlone`.
- `ReservationsAreAccountedFor`, without assumptions: `Spec => []ReservationsAccounted`.
- `SameUrlEveryRun`, assuming `MachineToItself`: `Spec => []SameUrl`.

`PromisesDisjoint` is not inductive: it says nothing of the planner's private copy.  The
invariant `IInv` adds that jobs not begun and plans not decided hold nothing (`NotBegun`,
`NothingClaimedYet`), that only the head of the queue plans (`LockHeld`), that open promises
are in `reserved` (`PromisesReserved`), that the planner's `claimed` contains every one of
them (`PlannerKnows`), and that the port a takeover is about is not claimed
(`TakeoverUnclaimed`).  `PlannerKnows` is what the lock is for: `reserved` grows only under
it, and what leaves it in the meantime belongs to a start that is past its promise.

The lease needs what the listing knows.  `Machine`: no port is published by two stacks, now
or in the listing, and a twin can only have gone since (`TwinSnap`).  `Sight`: a promise is
not taken, and what the listing shows as the planner's own stack's nobody has taken
(`OwnSince`), because it was promised to nobody (`OwnUnpromised`).  The steps fall into four
kinds - nothing, a listing, something given up, a promise - plus `Up`, and each conjunct and
the refinement are shown once per kind.

`MachineToItself` says: no foreign listener, docker does what it is told, takeover allowed,
compose mode without `--port`, each app once, home ports that differ, no stack on a home
port of another app.  It does not say that stacks stay up: they may die, fail to start
and be rolled back.  The invariant `Still` follows the walk: it never leaves the wanted port
(`Aimed`), because whoever holds that port is a stack of the app (`Owned`, `SelfSnap`), and
after a takeover it is free in the new listing and in truth (`TakenOver`, `RecheckIsFree`).

`NoServiceDriftsUp`, `Spec => []NoUpwardDrift`, assumes `OnePortEach`: each app once in the batch,
home ports and `--port` outside the pool, no port published for two services of a stack at the
start, and in solo mode one service per app, because there `ours` does not ask which service of
the stack has the port and the service behind another may move up.  The invariant is `Drift`.
A service that sits in the pool keeps what it has against everybody (`KeptForIt`: nobody
claims its port), the planner's listing shows at least what its stack still publishes
(`Listed`), so the walk over the pool, which starts at its foot, stops at the latest where the
service sits (`Climbs`); `Aims` is that only the solo picker asks for a port of the pool.

`ReservationsAccounted` is what is true of `RESERVED_PORTS`: a port stays in it only for a start that is
still to bind it, or for one whose planner died between two of its declarations.  The second is the leak of
section 8; the comment's own claim, `ReservationsAreLive`, is what `plan_leak` refutes.  The theorem counts, for
each action, what joins the set and what leaves it, along with the invariant that a plan has at most a claim
per declaration (`Within`).

`LeavesForOthers` says that a start leaves the port it wants only to somebody who is there: that docker's
listing still shows the twin just taken down is no reason to publish another URL.  It is checked with anything
on the machine; `SameUrlEveryRun` says of a machine without other software that the URL is the map's.

Only model-checked: `AllSettle`, which is liveness, and `LeavesForOthers`.

## 4. The other commands

### Teardown: `Volumes`

`cmdStop` (four stacks at a time) and `cmdClean` (one by one, then the orphans).  A teardown
is a program counter per stack: `Hand` (the pool), `ReadLabels` and `ReadMounts` (the two
sources of `stackVolumes`), `TakeDown` (`compose down`, or `rm -f` for `--force` and for apps
that left the disk), and `reapVolumes` in three steps, `ListAlive`, `Reap`, `ListAfter`.
`Choose` is discovery, the prompt and the orphans.  `OtherDown` and `OtherUp` are somebody
else at the same docker.  `held`, `alive` and `told` are what the command knows, `vols`,
`linked` and `gone` what is true.

`teardown` has the four kinds of stack there are: compose, standalone, one whose app left the
catalog, one of another checkout with a name of the catalog; an earlier `stop` has left an
orphan.  One disturbance by others, two stacks at a time (the width matters only in that
teardowns overlap).  Every docker call may fail: the listings behind discovery (each reads as empty),
`volume ls`, and the removals.  `NothingLeft` speaks of stacks that nobody disturbed and docker served (`hurt`
remembers the rest), and `ToldIsGone` of teardowns that docker told which volumes exist: one that it
did not (`deaf`) reports all it held, or nothing.  `teardown_blind` is the first of these two against the comment
of `stopStack` (section 8).  Fairness: the command takes a step while it can; every docker
call ends.

Proved (`VolumesProofs`), whatever docker answers: `SelectedOnly` and `ReportedIsGone`.  The invariant adds that only targets are worked on (`Chosen`), that
what was found for a stack is that stack's and for the orphans was an orphan (`OwnHeld`), and
that a volume that has been is there or gone (`Remembered`).

`NothingIsLeft` shows `NothingLeft`, without assumptions too.  Its invariant follows one stack that
nobody disturbed: untouched it is as it was at the start (`Standing`), the labels and then the
mounts find every volume of it that is not loose (`Found`), and once its containers are gone what
remains was found and has no link, so that the reaper may and does take it (`TakenDown`).  All
other teardowns and the other users of docker leave that alone (`Spares`).  Only model-checked:
`TeardownEnds`.

### Verification and lifecycle: `Verify`

The six command lines over the same start and stop: `verify`, `validate`, `run`, `reset`,
`restart` and an app's `make solo`.  A leg is `Resolve` or `ListStack`,
`ReadBefore` (`startTimes`), `OpenRunner`, then `RunPoc` and `JudgePoc` per script, `ReadAfter`
(`restartedDuring`).  `bugs` is what each twin is really open to; the runner sees an exit
status and a health probe.  The app crashes, hangs, comes back (`restart: unless-stopped`) or
answers again between any two steps; a script met by such a fault may exit as if rejected.
`Finally` is validate's teardown, `Cleanup` run's.

`verify` has two scripts, so that one can die and the next be judged; the first one's truth is
open on either twin; one fault of the app per command, which is what the restart watch and the probe are
each there to catch, in any combination with docker failing - listings, starts, stops and each `docker
inspect` by itself.  A container that could not be inspected is not in the snapshot and never counts as
restarted (2326-2327, 2350), and an app that hangs and answers again by itself leaves no trace the runner could
see.  `blind` remembers on which leg either happened, for `VerdictsHold` to say that these are the only two ways
for a verdict to be silently wrong.  A runner whose PoCs are all skipped exits 0 with nothing judged.

Fairness: `WF(Command1)`: each PoC runs under `timeout` or `gtimeout`, or where neither is installed under
the runner's own watchdog (`poc-runner.sh` 91-110), and each wait has a deadline.

Proved (`VerifyProofs`): `ExitZeroEarned`, `StateIsFresh`, `StacksTornDown` for any scripts,
command lines and faults; `VerdictsAreTrue` where no `--target` is given (the watch then covers
what the PoCs reach).  The invariant follows the program: where each
command can be (`Path`), which legs have a result (`Legs`), what has been said so far (`Told`),
from `down -v` to the first script (`Fresh`), how far the teardown is (`Torn`); for verdicts,
that a script that met a fault has a target that is not up, has moved or could not be watched (`Noticed`,
`Marked`), so that
`Honest` exit codes become `Right` verdicts (`SoFar`, `Reports`).  Only model-checked:
`CommandEnds`.

### Stress: `Stress`

Baseline, crawl, the phase of declared denial-of-service bugs, recovery, three three-valued
checks, teardown.  In a phase the monitor (`Monitor`) and the load (`LoadReturns`) run side by
side until the clock is out.  The app dies, is restarted, hangs, answers again; `docker stats`
and `inspect` may have no answer.  CPU and memory are samples from a small set: idle, busy, a
growing heap; the thresholds are the code's.  A container that has stopped still has `docker stats`, of zeros
(`Zero`, 2603-2615), and so reads as at rest in the recovery; only a failing call gives no sample
(`None`).  `PassedWasObserved` says why no pass comes of that: the container's state and the app's answer are
read after the sample.

Fairness: `WF(Command)`, and `SF(LoadReturns)`: requests of the crawl have a deadline, and a
PoC of the second phase returns once its app answers it or is gone.  That phase sets none of
its own (2936), which is why `StressEnds` is conditional: an app that hangs under its declared
bug for ever keeps the command for ever.

Proved (`StressProofs`): `StressTypeCorrect`, `PassIsObserved`.  What the clock has left bounds
what is still counted (`Clocked`), and each check rests on a reading that was had (`Observed`).

## 5. From findings to a score

### Assignment: `Assign`, `Matching`

`assign()` call by call.  The recursion of `tryAssign` is an explicit stack: `path` holds the
findings of the calls in progress, `via` the bug each is looking at, `seen` the set they share.
A step looks at one bug (`VisitFree`, `VisitHeld`), finds none left (`DeadEnd`), or, once some
call returns true, lets one call write the two maps (`Take`); `Finish` is the read-off and the
duplicates.  A candidate is what it scored and its tier's weight, which is all the order of
`candidatesFor` compares; the order is total because the bug's index breaks ties.  The read-off
of `byGt` and of re-homed findings is any the loops could produce, so the invariants, not the
model, show that there is only one.

`Matching` is the abstract specification: one more bug held by one more finding at a time,
nobody who held one left without.  `Pending`, the refinement mapping, takes the writes of the
calls that are returning true as done: the writes happen deepest call first, and in between
one finding owns two bugs.

The run `score`, in which `scoreApp` calls it, has among its inputs all 39,366 candidate lists over three
findings and three bugs with two kinds of pair.  Three and three is the least size at which an augmenting path has two re-homings and
at which a failed branch is followed by a successful one.  `MostBugs` and `StrongestWin`
quantify over all matchings of the instance.  `Returns` needs no more than that the steps of `scoreApp` and
`assign` are taken while there are any (`ScoreFairSpec`): the functions are synchronous.

Proved (`AssignProofs`) for any findings, bugs and lists: `TypeCorrect`, `CreditOnce`,
`NothingToRehome` (the loop of `assign` that gives a re-homed finding "whichever bug it actually
owns" never has one to handle), `Implements` (the refinement of `Matching`), `NobodyFallsThrough`.
The invariant says what the stack is: each call is the holder of the bug its caller looks at
(`Asks`), no bug is looked at twice (`Once`, from `Saw`), the first call's finding and those still
to be tried own nothing (`Root`, `Untried`), and ownership and choice agree except at the bug
about to change hands (`OwnedChosen`, `FreeToTake`).  The refinement rests on two lemmas about
`Applied`: a `Take` leaves it alone (`TakeOne`), and reaching a free bug at the end of such a
chain augments (`ChainAugments`).  `NobodyFallsThrough` layers on that invariant that a finding
which was tried and owns nothing found every candidate held (`Served`, `SeenHeld`), and that
holders only grow in number, because whoever is about to lose a bug has chosen another
(`HolderRehomed`).

`NoneCreditsMore` (`MostBugs`) and `StrongestFirst` (`StrongestWin`) compare with every one-to-one
assignment.  Neither needs paths in the graph: a search that fails leaves behind the set it has seen,
in which every bug has a holder all of whose candidates are in the set again (`ClosedFor`), and
later searches, which move only findings that find a free bug, never enter it (`Exhausted`).  A
rival assignment can credit findings with bugs of that set only as often as the set has bugs,
and each of those has a holder already (`CreditedWithin`, `HoldersMany`); counting the two sides
of the set gives maximality, and with the order of the search (`SoonerIsStronger`) the rest.
`AssignAssumption` says for this that findings and bugs are finitely many.  Only model-checked:
`Returns`, which is liveness.

### Classification: `Score`

`scoreApp` from the matcher's answers to the rows.  The input `given` says for every finding of
both twins which bug, near-miss and incidental entry it could stand for, with score, tier and
specificity, and which findings name no weakness or only report a closed port.  `ScoreInit` is
the code up to the call of `assign`: the first near-miss of each finding (`NearHit`), the veto
(`Vetoed`), the list without vetoed and unclassified pairs (`Admitted`).  `Match` is a step of
`Assign`; then the findings are classified one by one, an action per outcome, in the order in
which the code tries them: `TruePositive`, `Informational`, `NearMissCharge`, `IncidentalRow`,
`Duplicate`, `Unclassified`, `FixedBug`, `OtherCharge`.  Every guard but the first negates those
before it, as the returns in the code do.

Bounds of `score`, next to those lists: two findings that compete for two bugs next to two near-misses and
one incidental entry - two, so that the one with the best score need not be the one that fits best; one of them next to a finding on the patched twin that may claim anything; closed ports.
The strengths are those `weigh` gives to a route, a symbol, a line within the tolerance, a loose
path and a marker, so that near-misses are less, equally and more precise than claims.  There is
one behaviour per input: what varies is the input.

Proved (`ScoreProofs`) for any report, key and strengths: `ScoreTypeCorrect`, `OneClassEach`,
`TrueIsNoAlarm`, `CreditIsEarned`, `OthersMeanNothing`, `MissesHaveReasons` (which also says that
the finding a missed bug's row is explained by, `Closest`, did fail for the reason it gives).  The proofs are
compositional: `RunsAssign` shows that scoring is a run of `Assign` on `Admitted` whose result is
left alone afterwards, so that what `AssignProofs` shows holds of it.  `IsScoring` assumes that a
finding with near-misses has a first one in the order of `candidatesFor`: the list is finite and
the order total.  `CreditEarned` asks more than the veto's own question: a near-miss that fits a credited
finding better than every bug it claims can only be one that another outranks by score, and that one fits no
better than some bug.  That is how far `score.ts` 300 falls short of 339-341.

## 6. The rules: `Keys`, `Pair`, `Coverage`, `Endpoints`, `Report`, `Strip`, `Image`, `Rules`

Pure functions, so the modules define operators and `Rules` is a machine of two states per
question: a question of one of eight kinds is asked and answered, and the properties relate
question and answer.  `MCRules` holds the 55,197 questions, built from the cases the code tells apart.

| module | stands for | data abstracted to |
|---|---|---|
| `Keys` | `schema/keys.ts` | a path is its segments, each a literal (in either case), id-shaped, a placeholder, a glob or empty |
| `Pair` | `match.ts`, `anchors.ts`, `cwe.ts`, `guess.ts` | anchors by kind; weights in quarters |
| `Coverage` | `operations.ts`, `surface.ts`, `coverage.ts`, `tracks.ts` | an operation or report is the record of the fields both have |
| `Endpoints` | `endpoints.ts`, `readEndpoints`, `cmdCoverage` | an entry is what it says, where |
| `Report` | `normalize`, `envelope.ts`, `findings.ts`, `readFindings` | a text is how it starts, its marks, its items |
| `Strip` | `strip.mjs` | a line is a sequence of quotes, comment openers and closers, markers, pragmas, words |
| `Image` | `check/annotations.ts` | a Dockerfile is its FROM, COPY and strip instructions |

- `StrictNeverFolds`, `StaticRouteOwnsPath`: the two passes and the router's own routes, against
  plain equality and the route table.
- `Distinguishable`: the check of catalogs compares keys, the track compares with `OpMatches`;
  of what the first accepts some report tells apart by the second all but operations that differ only in
  the case of a query value.
- `MissSplit`, `OrderFree`: the track's split against its definition on sets of reports; the
  order of files, and an endpoint written in another of the accepted shapes.
- `LabelsOnly`: a reference reader (`Reading`) that takes a file as a compiler would is compared
  with itself before and after the strip; and an image that passes the check is built.
- `ReportKept`: reading is stable under writing and rereading, no ids collide but where an item already has
  the id a later duplicate is renamed to (`Forestalled`), every finding has an anchor the scorer can compare
  (`FindingAnchors`), whatever is left out is told of but nuclei's matches with no place and nmap's ports with no
  number (`Given`), and the report's twin decides what it is scored against.

The conditions in `LabelsOnly` are limits of the stripper that its header owns up to (what the
text alone cannot tell) and those of section 8.  Two of them, an escaped sign in code and a comment
behind the end of another, show only on rows the run did not have at first; it has them now.

Proved (`RulesProofs`; what is said of one stripped file in `StripProofs`), for every set of
questions rather than the universes of `MCRules`:

- `VerbatimStaysVerbatim` (`StrictNeverFolds`) and `RouterKeepsItsPaths` (`StaticRouteOwnsPath`), where
  paths are sequences of segments, of any length.  The first follows the segments one by one: with no
  placeholder on either side a strict match is equality.  For the second, a finding at a path
  its own table routes verbatim gets no http hit from an entry whose keys reach it only by a
  placeholder (`Owned`), and an entry with which nothing lines up is not admitted whatever it says
  (`NothingLinesUp`, `NothingAdmitted`).
- `TrackForgetsOrder` (the track's half of `OrderFree`, `TrackOrderFree`) and `EveryMissIsSplit`
  (`MissSplit`), where a trace is a sequence.  Both rest on `TrackIsSaidBySet`: all the track says
  but how many reports matched follows from the set of the reports.  `PassOf`, the ledger of passes,
  is a recursive function over the trace; that it has one value per prefix (`LedgerExists`) and that
  the last is the best pass any report got (`PassIsBest`) are shown by the least number for
  which it would fail (`Least`), which the provers can do where they cannot instantiate a
  scheme of induction.

- `AcceptedIsDistinguishable` (`Distinguishable`): of two operations of any of the five kinds, one said back
  as a report reaches itself and not the other.  `OperationsApart` goes through the kinds: where the keys
  differ other than in the case of a query value, they differ in something `OpMatches` looks at; where they
  differ in that only, their folded keys are equal (`HttpFoldedKey`, `OtherFoldedKey`).
- `ReadReportKeeps` (`ReportKept`), for a text of any format and length.  `FreshId` has to find a number
  no earlier finding has, which it does since they are finitely many.  The second reading finds the ids
  taken by nobody else (`FindingsReadAgain`), because those of the first differ, unless one was `Forestalled`; and
  whatever the ids become, nothing else of a finding changes (`Renamed`).  It also says that a native format
  names no twin, as none of the adapters reads one.
- `WritingDoesNotTell` (`OrderFree`): with `TrackForgetsOrder`, that two lists of files told of one after the other
  are told the same where the files correspond (`AlikeFiles`): the same envelopes, entries that are the same or
  two shapes of one endpoint, or texts with the same findings.
- `CheckedImageIsStripped` (`ImageStripped`, the half of `LabelsOnly` about images), for a Dockerfile of any
  length that docker can read.  While the first stage is built, what it holds of the context is under `/src`
  and stripped as soon as the strip has run; a later stage copies from a stage that is over, and those hold
  nothing raw.
- `StrippingKeepsTheCode` (`LabelsOnly`; `CodeStripped` of one file), for a file of any number of rows and symbols, in any syntax whose
  marks can be told apart (`IsSyntax`: one closer to an opener, no mark that is two things; true of
  every syntax of `strip.mjs` 117-141).  It goes in three steps.
  *The reader*: on a row that is not odd a comment is opened at most once (`OneOpening`), stays open
  until its closer (`StaysOpen`, `NotClosed`), and what the stripper takes for openers is what opens (`OpenersAre`); so
  a row cut behind its opener (`TailCut`), between opener and closer (`MiddleCut`), before its closer
  (`HeadCut`) or altogether (`AllCut`) reads as before, without a label: `Rewritten`.
  *The stripper*: the inductive invariant of its loop is `Midway`: the rows that are done are rewritten, the
  others are as they were, and a row that carries a comment over is done exactly when the next one is.  The
  last part is what makes it inductive: without it a block could be blanked that another call
  had already cut the opener of.  Every call of `StripRow` keeps it (`LineStep`, `BlockStep`), and the rewritten file
  carries the same from row to row (`FileKeeps`), so its code is the same.
  *The labels*: a marker the reader sees in a comment is on a row that opens the comment before it,
  or has it from the row above; in the second case its opener is the only one `EnclosingBlock`
  finds (`Opener`, `FoundIs`) and its closer is at this row or below (`ClosesSomewhere`), so the row is done by
  the time it has been gone through (`LabelGoes`).

## 7. Editing an answer key: `Derive`, `Catalog`, `AnswerKey`

`Derive` is `derive-match`: hunks of the twin diff, the symbol's line, the end of a body, ranges
claimed one entry after the other, near-miss lines, markers from a PoC.  `Catalog` is
`derive-surface`: routes read from source by framework, seeds from the key, collapse, merge with
what was reviewed, tiers, stable ids.  `AnswerKey` puts a person next to them: the source is
edited, a bug planted or taken out, an operation added, mapped or tiered by hand, and the tools
run with `--write` at any time; `Check` is the gate of `make check`, `Green` what it asks.

`answer_key`: four versions of a source tree of two files, seven bugs of all kinds of anchor, two
near-misses, an incidental entry, three edits.  Three is what it takes to plant, move and map
against a catalog drafted in between.  `GreenLinesApart` is about the claims of `derive-match`: in a key the
gate lets through, a line of the source is in the range of one bug or near-miss at most, so that a finding on
it has one owner.  `CatalogKeeps` is an action property.

Proved (`RulesProofs`):

`NothingLeavesTheCatalog`, `ASpec => CatalogKeeps`, for any app, edits and order of the tools.  The inductive
invariant is `CatalogIsCatalog`: every operation has the fields of one and a kind that is known, no two have
one key, and every entry of the key can be read as a route.  What it is needed for is `--write`: the merge
goes through the drafted operations and those of the old catalog by key (`MergeKeeps`), so it loses an entry whose kind
nobody knows, and of two entries with one key all but the last.  The hypotheses say that of the catalog
and the hand-made operations one starts from; the instance of `answer_key` meets them.  The drafted list has each
key once (`Firsts`), which the merge keeps, stage by stage.

`GreenLinesHaveOneOwner`, `ASpec => []GreenLinesApart`, for any app, tree, key, edits and order of the tools.
The inductive invariant has two parts.  `GreenIsGreen`: while the state says "green", `Green` holds of the tree,
key and catalog as they are, because every step that changes one of them takes the word back.  `KeyIsKey`: tree
and key are lists of entries that have a `match:`.  The argument: a green key is what derive-match makes of it,
so every range is one its entry asked for and was let have; the claims only grow
(`ClaimsGrow`, by induction over the entries), the near-misses' starting from the bugs', so an entry that claims later
is refused a range that overlaps (`claim`, derive-match.ts 182).  What is compared are integers whatever the
entry and the source (`BugAsksForRange`, `BodyIsRange`).  Green states in which three entries have lines are
within the three edits of `answer_key`.

Not claimed is that a perfect scan of what is green gets full credit, for it does not: a range may contain a
near-miss it was not told from, and a near-miss declared on a bug's second route is not seen to collide
(section 8).  Nor that the gate's question about unmapped bugs settles the split of the misses: `invariants.ts`
190 asks for any operation of a bug, `coverage.ts` 112 for one the scanned twin has.

## 8. Where code and comments part

Four have runs that end in a counterexample, which is their point:

| run | what it shows |
|---|---|
| `flat_report` | `{url, param, file, line}` is a shape README 473 and `findings.ts` 95 promise to lift; `file` is the name of a location kind too, nothing is lifted and the finding is dropped, its URL with it (97) |
| `clean_checkout` | `clean` goes by the catalog's names and takes down a stack of another checkout, volumes included (3525), against the doc of `ownedByThisRepo` (756-760) |
| `plan_leak` | a planner that finds the pool full has reserved ports already, and nobody gives them back (1360); the comment of the `finally` says that the reservation ends, bound or dead (1634) |
| `teardown_blind` | where `docker volume ls` fails every held volume is reported deleted (1085); the comment of `stopStack` says it returns "the volumes that actually disappeared" (1143) |

The rest were met while modelling and have no run.  They are in the models as the code has
them, and the properties are stated so as to hold of the code.

*Starting.*  Where the probes do not see
docker's publishes a bind between the listing and the copy of `RESERVED_PORTS` goes unseen
(1238).  A solo start never takes a port over from its twin, because `pickSoloPort` has walked
around it already (README, Ports, and 1578 say it does).  A takeover stops a stack of another
checkout (756).  When `compose up` fails half-way the services it did start stay up (1598), although
1643 says that only `--keep-failed` leaves a half-started stack behind.

*Teardown.*  A failing listing before the teardown leaves volumes nobody looks for (1096-1101,
1139-1142), and makes `clean` miss what is left (3509-3516), so that validate's "fresh" state may reuse one (2531).

*Verification.*  The browser probe: if chromium dies after the page has loaded, every later step is
caught and noted, the probe exits 0 with no marker seen, the helper exits 1 and the runner records
"rejected = fixed" (`tools/browser/drive.mjs` 141), against its header, "a dead browser must never
be able to prove a bug is patched" (41-42).  With `--target` the restart watch may look at another
stack than the PoCs reach.  A container that docker could not inspect, before or after, does not count as
restarted (2326-2327, 2350).

*Stress.*  PoCs of the denial-of-service phase have no deadline (2936).  The check of the container
looks at it once, after the fact: one that died and came back passes it ("only a container that
dies ..."), and shows only in the crawl's probes.  The comment at 2989-2992 reckons with a dead container that gives no
sample; `docker stats` gives one of zeros, which ends the recovery wait as if the app were idle (2972-2988).

*Scoring.*  The veto looks at the first near-miss by score, not the most precise (`score.ts` 300, 354,
against 339-341).  A finding that lost its bug is charged for a near-miss that did not veto it
(`score.ts` 436, against `match.ts` 550-551).  `readFindings` makes every error but one at `$` a
warning: a findings/v1 file without a `findings` array scores as an empty run, another app's report is
scored.

*Reading reports.*  A ZAP `cweid` of "-1" reads as CWE-1 (`adapters.ts` 76); nuclei results with no place
are skipped in silence (206); `--format nmap` or `burp` on anything else gives an empty run.  A renamed
duplicate can take an id another finding has ("a#3", `findings.ts` 218-222).  `readEndpoints` ignores
envelope errors of a file that lists endpoints (1760-1776, against `envelope.ts` 4-12);
`endpointsFromFindings` counts closed ports (`endpoints.ts` 186, against 167), takes a bare array of
findings for a list of endpoints, loses nested `graphql.kind` and `llm.channel`; an entry with a kind and
nothing else is kept and counted as unknown (117); `refUrl` ignores the port inside a URL
(`operations.ts` 61-66).  Query values are folded by `opMatches` and kept apart by `opKey`
(`surface.ts` 190).

*Answer key.*  `validateMatch` copies a quoted `net.port` as it is, drops unknown `cwe_aliases` and
non-string `method` and `symbol` without a word, and gives a graphql entry without an operation no
anchor (`ground-truth.ts` 112-127).  A near-miss with the id of a bug is accepted (264-267).  A bug's
range may contain a near-miss, a near-miss on a bug's alternate route is not seen to collide, equal
fingerprints only warn, `mapped` ignores an operation's `variant`, and a multi-step route's header
binds to its first key only (`anchors.ts` 94-98, 136-139).

*Derivation.*  `derive-surface` removes a method-less operation even when its only sibling with a method
needs a query, and its bugs with it (526-551); `StableIds` can rename or duplicate an id (850-856,
against 19-21); a typo in `kind` makes `--write` erase the entry (22-26); unparseable YAML loses the
review; a tie left blank is settled by a second run (564-568); a new bug of an existing operation is
not attached; of two
entries with one key `--write` keeps the last (783); `--check` looks only at operations added; unknown fields and comments do not survive
`--write` (472-520).

*Labels.*  The stripper looks at the first opener before the first mark of a row (`strip.mjs` 355-363,
389-396, against 20-22), accepts an embedded block's opener anywhere when it looks upwards (290-310,
against 43-48), and is misled by an opener or a quote inside a comment (28-30), and by an escaped one in code: in
`x.replace(/\//, label)` what follows the backslash reads as a comment (201-217).  A label in a
second comment on the row where a blanked block ends stays, because the whole row is done (395-396,
against "the image never has one", 20-22).  The Dockerfile check
does not look at the order of the strip and a later COPY into the same stage, at other copy targets, or
at `RUN --mount=type=bind` (`annotations.ts` 205-233).

## 9. Not modelled, and why

- *Report text and breakdowns* (`report.ts`, `metrics.ts` beyond the tracks): ratios and wording over rows
  whose classes are checked.
- *Inspection commands* (list, info, status, target, logs, doctor, schema): they read and print.
- *Schemas and loaders*: parsing and coercion of each field by itself.  What findings, endpoints, catalogs
  and key entries coerce is in `Report`, `Endpoints`, `Catalog`, `AnswerKey`.
- *Browser sidecar*: one probe in a container; to `Verify` it is a PoC like another.  What it gets wrong is
  in section 8.
- *Applications, plans, examples*: the payload.  None of it is logic of the bench.
- *Inside modelled parts*: argument parsing, `admissionCheck`, build steps other than their failure,
  diagnostics, latency percentiles, YAML text and comments, regular expressions character by character,
  checks of prose, `diff`'s rendering; two CLI processes at once, for which the code makes no promise.

## 10. What is left of the plan

Proofs: every invariant the passing runs check is a theorem, and every action property but `LeavesForOthers`.
Models: two CLI processes over one docker, as a composition of two `PortPlan`s; the
browser probe as a script of its own inside `Verify`.

## 11. Running it

    tlc -config <run>.cfg <module>.tla       module and run as in section 2
    tlapm PortPlanProofs.tla                 and AssignProofs, ScoreProofs, StressProofs,
                                             VolumesProofs, VerifyProofs, StripProofs, RulesProofs

All runs end without error but `flat_report`, `clean_checkout`, `plan_leak` and `teardown_blind`.  Liveness under fairness, what a fold of
the community modules computes for every input, and ENABLED are out of the prover's reach and stay with TLC.
