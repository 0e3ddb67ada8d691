------------------------------ MODULE PortPlan ------------------------------
(***************************************************************************)
(* `dynast-bench start`: one CLI process brings a batch of apps up, at     *)
(* most Width at a time (pooled), each through startApp: plan the host     *)
(* ports under the port lock (withPortLock, pickSoloPort, planPorts), hand *)
(* them to docker, release the reservation, wait for health, roll back.    *)
(*                                                                         *)
(* Two things the planner reads are remembered here separately from what   *)
(* is true: snap, the `docker ps` answer one plan works from, and claimed, *)
(* its copy of RESERVED_PORTS.  Foreign listeners come and go and other    *)
(* starts bind and release between any two steps.                          *)
(*                                                                         *)
(* A stack is <<app, "self">>, the one this command starts, or             *)
(* <<app, "twin">>, another stack of the same app (the other variant, or   *)
(* the same variant in the other mode).  Declaration 1 of an app is its    *)
(* app port, the others are its sidecars in compose-file order.            *)
(***************************************************************************)
EXTENDS Integers, Sequences, FiniteSets

CONSTANTS
  App,                 \* the apps of the catalog
  Batch,               \* the apps to start, in the order given (Seq of App)
  Width,               \* --parallel: how many starts are in flight at once
  Mode,                \* "compose" or "solo"
  Takeover,            \* FALSE under --no-takeover
  KeepFailed,          \* TRUE under --keep-failed
  Requested, NoPort,   \* --port, or NoPort
  Index,               \* [App -> position in the catalog, from 0]
  Decls,               \* [App -> number of published ports]
  HasSolo,             \* the apps with a Dockerfile.standalone
  APP_PORT, APP_SLOT_SPAN, SIDECAR_BASE, SIDECAR_STRIDE,
  PORT_FALLBACK_BASE, PORT_FALLBACK_SPAN,
  ForeignPorts,        \* where listeners that are not bench stacks may appear
  InitialStacks,       \* what the bench stacks may publish when the CLI starts
  ProbeSees,           \* bind test or lsof sees a docker publish snap missed
  DockerFails,         \* docker ps, compose down and rm may fail
  Crashes              \* a stack this command brought up may die by itself

Jobs   == 1..Len(Batch)
Stacks == App \X {"self", "twin"}
Publishes == SUBSET (Nat \X Nat)     \* <<declaration, host port>>

VARIABLES
  next,       \* pooled: index of the next job to hand out
  pc,         \* where each start is
  queue,      \* portQueue: the starts in line for the port lock, its holder first
  reserved,   \* RESERVED_PORTS
  claims,     \* per start: plan.claimed, one host port per declaration so far
  target,     \* the planner's requestedAppPort ?? slotPort
  snap,       \* the planner's `containers`
  claimed,    \* the planner's copy of RESERVED_PORTS plus its own claims
  cursor,     \* 0: the wanted port is tried; k: the k-th port of the pool
  pub,        \* what every bench stack publishes, in truth
  foreign     \* what else listens: nothing, a process, another container

vars == <<next, pc, queue, reserved, claims, target, snap, claimed, cursor,
          pub, foreign>>
planner == <<target, snap, claimed, cursor>>
world == <<pub, foreign>>

-----------------------------------------------------------------------------
(* The port map. *)

AppOf(j) == Batch[j]
Self(j)  == <<AppOf(j), "self">>
Twin(j)  == <<AppOf(j), "twin">>

\* An app's slot is its place in the catalog; past the range it is the first.
Slot(a) == IF Index[a] < APP_SLOT_SPAN THEN Index[a] ELSE 0

SlotPort(a) == APP_PORT + Slot(a)

\* A block holds SIDECAR_STRIDE sidecars; anything past that starts in the pool.
SidecarPort(a, nth) ==
  IF nth < SIDECAR_STRIDE
  THEN SIDECAR_BASE + Slot(a) * SIDECAR_STRIDE + nth
  ELSE PORT_FALLBACK_BASE + nth - SIDECAR_STRIDE

PoolPort(k) == PORT_FALLBACK_BASE + k - 1
Pool == {PoolPort(k) : k \in 1..PORT_FALLBACK_SPAN}

HomePort(a, i) == IF i = 1 THEN SlotPort(a) ELSE SidecarPort(a, i - 2)

\* Every port this module can be about.
AllPorts == (UNION {{HomePort(a, i) : i \in 1..Decls[a]} : a \in App})
            \cup Pool \cup ({Requested} \ {NoPort})

ASSUME PortMapAssumption ==
  /\ {APP_PORT, APP_SLOT_SPAN, SIDECAR_BASE, SIDECAR_STRIDE,
      PORT_FALLBACK_BASE, PORT_FALLBACK_SPAN} \subseteq Nat
  /\ Index \in [App -> Nat] /\ Decls \in [App -> Nat \ {0}]
  /\ Requested \in Nat \cup {NoPort}

ASSUME BatchAssumption ==
  /\ Batch \in Seq(App) /\ Width \in Nat \ {0}
  /\ Requested # NoPort => Len(Batch) = 1    \* cmdStart: --port is for a single app
  /\ ForeignPorts \subseteq Nat

\* No port is published twice when the command starts, none outside the map.
ASSUME StacksAssumption ==
  /\ InitialStacks \subseteq [Stacks -> SUBSET (Nat \X AllPorts)]
  /\ \A m \in InitialStacks : \A s, t \in Stacks : \A d \in m[s], e \in m[t] :
       d[2] = e[2] => s = t

\* The declaration j is planning, and the port it would rather have.
Decl(j)   == Len(claims[j]) + 1
Wanted(j) == IF Decl(j) = 1 THEN target ELSE SidecarPort(AppOf(j), Decl(j) - 2)

-----------------------------------------------------------------------------
(* What the planner can see of a port. *)

PortsOf(publishes) == {e[2] : e \in publishes}
ForeignAt(p) == p \in ForeignPorts /\ foreign[p] # "none"

\* What docker would refuse to bind over, for a stack s.
Blocked(s, p) == ForeignAt(p) \/ \E t \in Stacks \ {s} : p \in PortsOf(pub[t])

\* portStatus(p).dockerHolders: from the snapshot, however old it is.
Holders(p)    == {s \in Stacks : p \in PortsOf(snap.stacks[s])}
DockerHeld(p) == Holders(p) # {} \/ p \in snap.others

\* The bind test and lsof look at the machine as it is now.
Answers(p) ==
  \/ p \in ForeignPorts /\ foreign[p] = "process"
  \/ ProbeSees /\ (ForeignAt(p) \/ \E s \in Stacks : p \in PortsOf(pub[s]))

\* Mutant: trusts the snapshot and skips the bind test and lsof.
Free_SnapshotOnly(p) == ~DockerHeld(p)

Free(p) == ~DockerHeld(p) /\ ~Answers(p)

\* dockerHolders is not empty and every holder is one of S.
HeldOnlyBy(p, S) == Holders(p) # {} /\ Holders(p) \subseteq S /\ p \notin snap.others

OwnHeld(j, p)     == HeldOnlyBy(p, {Self(j)})
\* Mutant: any bench stack counts as a stack of this app.
SameAppHeld_AnyApp(j, p) == HeldOnlyBy(p, Stacks)

SameAppHeld(j, p) == HeldOnlyBy(p, {Self(j), Twin(j)})

\* Where this very service already sits (a solo container is one service).
Ours(j, p) ==
  /\ OwnHeld(j, p)
  /\ Mode = "solo" \/ \A e \in snap.stacks[Self(j)] : e[2] = p => e[1] = Decl(j)

-----------------------------------------------------------------------------
PlanningAt == {"picking", "listed", "planning", "relist", "recheck"}
Settled    == {"ok", "failed"}
Stage == {"idle", "queued", "up", "waiting", "rollback"} \cup PlanningAt \cup Settled

InFlight == {j \in Jobs : pc[j] \notin {"idle"} \cup Settled}
Claims(j) == {claims[j][i] : i \in DOMAIN claims[j]}

\* A start whose claims docker has not bound yet.
Promised(j) == pc[j] \in PlanningAt \cup {"up"}

Init ==
  /\ next = 1
  /\ pc = [j \in Jobs |-> "idle"]
  /\ queue = <<>>
  /\ reserved = {}
  /\ claims = [j \in Jobs |-> <<>>]
  /\ target = 0
  /\ pub \in InitialStacks
  /\ snap = [stacks |-> pub, others |-> {}]
  /\ claimed = {}
  /\ cursor = 0
  /\ foreign \in [ForeignPorts -> {"none", "process", "container"}]
  /\ \A p \in ForeignPorts : foreign[p] # "none" =>
       \A s \in Stacks : p \notin PortsOf(pub[s])

\* pooled hands the next app to a worker that is free; startApp refuses an app
\* without a standalone image, or joins the queue for the port lock.
Begin(j) ==
  /\ next = j
  /\ Cardinality(InFlight) < Width
  /\ next' = next + 1
  /\ IF Mode = "solo" /\ AppOf(j) \notin HasSolo
     THEN /\ pc' = [pc EXCEPT ![j] = "failed"]
          /\ UNCHANGED queue
     ELSE /\ pc' = [pc EXCEPT ![j] = "queued"]
          /\ queue' = Append(queue, j)
  /\ UNCHANGED <<reserved, claims, planner, world>>

\* Mutant: a planner that dies keeps the lock.
Die_KeepsLock(j) ==
  /\ pc' = [pc EXCEPT ![j] = "failed"]
  /\ UNCHANGED <<queue, reserved, claims, planner, next, world>>

\* die() while holding the port lock: the queue moves on whatever happened
\* (portQueue.then(fn, fn)); what the plan had reserved stays reserved, for the
\* `finally` that releases it belongs to a try entered only after planning.
Die(j) ==
  /\ pc' = [pc EXCEPT ![j] = "failed"]
  /\ queue' = Tail(queue)
  /\ UNCHANGED <<reserved, claims, planner, next, world>>

\* One `docker ps`: every bench stack and every foreign container.
TakeSnapshot ==
  snap' = [stacks |-> pub,
           others |-> {p \in ForeignPorts : foreign[p] = "container"}]

\* Mutant: requestedAppPort without the fallback to the app's slot.
List_NoDefault(j) ==
  /\ pc[j] = "queued"
  /\ queue # <<>> /\ Head(queue) = j
  /\ TakeSnapshot
  /\ cursor' = 0
  /\ target' = Requested
  /\ pc' = [pc EXCEPT ![j] = "listed"]
  /\ UNCHANGED <<next, queue, reserved, claims, claimed, world>>

List(j) ==
  /\ pc[j] = "queued"
  /\ queue # <<>> /\ Head(queue) = j
  /\ \/ /\ TakeSnapshot
        /\ cursor' = 0
        /\ target' = IF Requested = NoPort THEN SlotPort(AppOf(j)) ELSE Requested
        /\ pc' = [pc EXCEPT ![j] = IF Mode = "solo" /\ Requested = NoPort
                                   THEN "picking" ELSE "listed"]
        /\ UNCHANGED <<next, queue, reserved, claims, claimed, world>>
     \/ DockerFails /\ Die(j)

\* pickSoloPort: the app's slot, then the pool; a port promised to another
\* start is passed over, our own container does not count as an obstacle.
Candidate(j) == IF cursor = 0 THEN SlotPort(AppOf(j)) ELSE PoolPort(cursor)
PickFits(j) ==
  /\ Candidate(j) \notin reserved
  /\ Free(Candidate(j)) \/ OwnHeld(j, Candidate(j))

Pick(j) ==
  /\ pc[j] = "picking"
  /\ cursor <= PORT_FALLBACK_SPAN
  /\ \/ /\ PickFits(j)
        /\ target' = Candidate(j)
        /\ cursor' = 0
        /\ pc' = [pc EXCEPT ![j] = "listed"]
     \/ /\ ~PickFits(j)
        /\ cursor' = cursor + 1
        /\ UNCHANGED <<target, pc>>
  /\ UNCHANGED <<next, queue, reserved, claims, snap, claimed, world>>

NothingToPick(j) ==
  /\ pc[j] = "picking"
  /\ cursor > PORT_FALLBACK_SPAN
  /\ Die(j)

\* Mutant: planPorts starts from an empty set of claims.
Open_IgnoresReserved(j) ==
  /\ pc[j] = "listed"
  /\ claimed' = {}
  /\ pc' = [pc EXCEPT ![j] = "planning"]
  /\ UNCHANGED <<next, queue, reserved, claims, target, snap, cursor, world>>

\* planPorts starts from the reservations as they are now, the containers as
\* they were when docker answered.
Open(j) ==
  /\ pc[j] = "listed"
  /\ claimed' = reserved
  /\ pc' = [pc EXCEPT ![j] = "planning"]
  /\ UNCHANGED <<next, queue, reserved, claims, target, snap, cursor, world>>

\* The tail of planPorts' loop; after the last declaration the lock is passed on.
Claim(j, p) ==
  /\ claims' = [claims EXCEPT ![j] = Append(@, p)]
  /\ claimed' = claimed \cup {p}
  /\ reserved' = reserved \cup {p}
  /\ cursor' = 0
  /\ IF Decl(j) = Decls[AppOf(j)]
     THEN /\ pc' = [pc EXCEPT ![j] = "up"]
          /\ queue' = Tail(queue)
     ELSE /\ pc' = [pc EXCEPT ![j] = "planning"]
          /\ UNCHANGED queue
  /\ UNCHANGED <<next, target, snap, world>>

MayTake(j)     == Wanted(j) \notin claimed /\ (Free(Wanted(j)) \/ OwnHeld(j, Wanted(j)))
MayTakeOver(j) == /\ Wanted(j) \notin claimed
                  /\ ~MayTake(j)
                  /\ Takeover /\ SameAppHeld(j, Wanted(j))

TakeWanted(j) ==
  /\ pc[j] = "planning" /\ cursor = 0
  /\ MayTake(j)
  /\ Claim(j, Wanted(j))

\* stopStack on every stack of this app that holds the port; a failing `down`
\* goes unnoticed.
StopTwin(j) ==
  /\ pc[j] = "planning" /\ cursor = 0
  /\ MayTakeOver(j)
  /\ \/ pub' = [s \in Stacks |-> IF s \in Holders(Wanted(j)) THEN {} ELSE pub[s]]
     \/ DockerFails /\ UNCHANGED pub
  /\ pc' = [pc EXCEPT ![j] = "relist"]
  /\ UNCHANGED <<next, queue, reserved, claims, planner, foreign>>

\* Mutant: the port is judged again by the snapshot from before the takeover.
Relist_Stale(j) ==
  /\ pc[j] = "relist"
  /\ pc' = [pc EXCEPT ![j] = "recheck"]
  /\ UNCHANGED <<next, queue, reserved, claims, planner, world>>

Relist(j) ==
  /\ pc[j] = "relist"
  /\ \/ /\ TakeSnapshot
        /\ pc' = [pc EXCEPT ![j] = "recheck"]
        /\ UNCHANGED <<next, queue, reserved, claims, target, claimed, cursor, world>>
     \/ DockerFails /\ Die(j)

Recheck(j) ==
  /\ pc[j] = "recheck"
  /\ \/ Free(Wanted(j)) /\ Claim(j, Wanted(j))
     \/ /\ ~Free(Wanted(j))
        /\ cursor' = 1
        /\ pc' = [pc EXCEPT ![j] = "planning"]
        /\ UNCHANGED <<next, queue, reserved, claims, target, snap, claimed, world>>

LeaveWanted(j) ==
  /\ pc[j] = "planning" /\ cursor = 0
  /\ ~MayTake(j) /\ ~MayTakeOver(j)
  /\ cursor' = 1
  /\ UNCHANGED <<next, pc, queue, reserved, claims, target, snap, claimed, world>>

\* Mutant: a relocated service does not recognise its own port.
PoolFits_NotOurs(j, p) == p \notin claimed /\ Free(p)

PoolFits(j, p) == p \notin claimed /\ (Free(p) \/ Ours(j, p))

ScanPool(j) ==
  /\ pc[j] = "planning"
  /\ cursor \in 1..PORT_FALLBACK_SPAN
  /\ \/ PoolFits(j, PoolPort(cursor)) /\ Claim(j, PoolPort(cursor))
     \/ /\ ~PoolFits(j, PoolPort(cursor))
        /\ cursor' = cursor + 1
        /\ UNCHANGED <<next, pc, queue, reserved, claims, target, snap, claimed, world>>

PoolIsFull(j) ==
  /\ pc[j] = "planning"
  /\ cursor > PORT_FALLBACK_SPAN
  /\ Die(j)

-----------------------------------------------------------------------------
(* docker up, and what follows it. *)

Planned(j) == {<<i, claims[j][i]>> : i \in DOMAIN claims[j]}

\* What a failed bring-up may leave running: `docker run` all or nothing (the old
\* container is removed first, unless the build failed before that), compose any
\* mix of services on their old or their new port.
Leftover(j) ==
  IF Mode = "solo" THEN {pub[Self(j)], {}}
  ELSE {S \in SUBSET (pub[Self(j)] \cup {e \in Planned(j) : ~Blocked(Self(j), e[2])}) :
          \A d, e \in S : (d[1] = e[1] \/ d[2] = e[2]) => d = e}

\* Mutant: the release is not in a `finally`.
Up_ReleasesOnSuccess(j) ==
  /\ pc[j] = "up"
  /\ \/ /\ \A p \in Claims(j) : ~Blocked(Self(j), p)
        /\ reserved' = reserved \ Claims(j)
        /\ pub' = [pub EXCEPT ![Self(j)] = Planned(j)]
        /\ pc' = [pc EXCEPT ![j] = "waiting"]
     \/ /\ \E S \in Leftover(j) : pub' = [pub EXCEPT ![Self(j)] = S]
        /\ pc' = [pc EXCEPT ![j] = "failed"]
        /\ UNCHANGED reserved
  /\ UNCHANGED <<next, queue, claims, planner, foreign>>

\* `compose up` / `docker run` returns; either way the `finally` drops the
\* reservation.
Up(j) ==
  /\ pc[j] = "up"
  /\ reserved' = reserved \ Claims(j)
  /\ \/ /\ \A p \in Claims(j) : ~Blocked(Self(j), p)
        /\ pub' = [pub EXCEPT ![Self(j)] = Planned(j)]
        /\ pc' = [pc EXCEPT ![j] = "waiting"]
     \/ /\ \E S \in Leftover(j) : pub' = [pub EXCEPT ![Self(j)] = S]
        /\ pc' = [pc EXCEPT ![j] = "failed"]
  /\ UNCHANGED <<next, queue, claims, planner, foreign>>

\* waitHealthy: the app answers on its port before the deadline, or does not.
Healthy(j) ==
  /\ pc[j] = "waiting"
  /\ claims[j][1] \in PortsOf(pub[Self(j)])
  /\ pc' = [pc EXCEPT ![j] = "ok"]
  /\ UNCHANGED <<next, queue, reserved, claims, planner, world>>

Unhealthy(j) ==
  /\ pc[j] = "waiting"
  /\ pc' = [pc EXCEPT ![j] = IF KeepFailed THEN "failed" ELSE "rollback"]
  /\ UNCHANGED <<next, queue, reserved, claims, planner, world>>

Rollback(j) ==
  /\ pc[j] = "rollback"
  /\ \/ pub' = [pub EXCEPT ![Self(j)] = {}]
     \/ DockerFails /\ UNCHANGED pub
  /\ pc' = [pc EXCEPT ![j] = "failed"]
  /\ UNCHANGED <<next, queue, reserved, claims, planner, foreign>>

-----------------------------------------------------------------------------
(* Everything else on the machine. *)

ForeignArrives(p) ==
  /\ foreign[p] = "none"
  /\ \A s \in Stacks : p \notin PortsOf(pub[s])
  /\ \E k \in {"process", "container"} : foreign' = [foreign EXCEPT ![p] = k]
  /\ UNCHANGED <<next, pc, queue, reserved, claims, planner, pub>>

ForeignLeaves(p) ==
  /\ foreign[p] # "none"
  /\ foreign' = [foreign EXCEPT ![p] = "none"]
  /\ UNCHANGED <<next, pc, queue, reserved, claims, planner, pub>>

StackDies(a) ==
  /\ Crashes
  /\ pub[<<a, "self">>] # {}
  /\ pub' = [pub EXCEPT ![<<a, "self">>] = {}]
  /\ UNCHANGED <<next, pc, queue, reserved, claims, planner, foreign>>

BatchDone ==
  /\ \A j \in Jobs : pc[j] \in Settled
  /\ UNCHANGED vars

Plan(j) == \/ List(j) \/ Pick(j) \/ NothingToPick(j) \/ Open(j) \/ TakeWanted(j)
           \/ StopTwin(j) \/ Relist(j) \/ Recheck(j) \/ LeaveWanted(j)
           \/ ScanPool(j) \/ PoolIsFull(j)

Start(j) == Begin(j) \/ Plan(j) \/ Up(j) \/ Healthy(j) \/ Unhealthy(j) \/ Rollback(j)

Next ==
  \/ \E j \in Jobs : Start(j)
  \/ \E p \in ForeignPorts : ForeignArrives(p) \/ ForeignLeaves(p)
  \/ \E a \in App : StackDies(a)
  \/ BatchDone

Spec == Init /\ [][Next]_vars

\* Every docker call returns and waitHealthy has a deadline: a start that can
\* take a step eventually does.
FairSpec == Spec /\ \A j \in Jobs : WF_vars(Start(j))

-----------------------------------------------------------------------------
(* Properties. *)

TypeOK ==
  /\ next \in 1..Len(Batch) + 1
  /\ pc \in [Jobs -> Stage]
  /\ queue \in Seq(Jobs)
  /\ reserved \in SUBSET Nat
  /\ claims \in [Jobs -> Seq(Nat)]
  /\ target \in Nat
  /\ snap \in [stacks : [Stacks -> Publishes], others : SUBSET ForeignPorts]
  /\ claimed \in SUBSET Nat
  /\ cursor \in Nat
  /\ pub \in [Stacks -> Publishes]
  /\ foreign \in [ForeignPorts -> {"none", "process", "container"}]

\* Two starts that have not bound their ports yet were never promised the same
\* one: withPortLock serialises the planners and RESERVED_PORTS carries what one
\* took to the next.
PromisesDisjoint ==
  \A j, k \in Jobs : j # k /\ Promised(j) /\ Promised(k) => Claims(j) \cap Claims(k) = {}

\* A port promised to a start is not published by any other bench stack in the
\* meantime: what a start releases from RESERVED_PORTS, portStatus sees bound.
PromiseNotTaken ==
  \A j \in Jobs : Promised(j) =>
    \A s \in Stacks \ {Self(j)} : Claims(j) \cap PortsOf(pub[s]) = {}

\* A planner that died with declarations still to plan.
DiedPlanning(j) == pc[j] = "failed" /\ Len(claims[j]) < Decls[AppOf(j)]

\* A reservation outlives the start it was made for in one case only: its planner died
\* between two declarations (a full pool, a failing docker ps).  Whatever becomes of a start
\* that got a whole plan, the `finally` of startApp has dropped its ports.
ReservationsAccounted ==
  reserved \subseteq UNION {Claims(j) : j \in {k \in Jobs : Promised(k) \/ DiedPlanning(k)}}

\* What the comment on that `finally` says (dynast-bench.ts:1634): bound or dead, the
\* reservation has done its job, and a later start in the same process does not relocate
\* for no reason.  The dying planner of ReservationsAccounted never gets that far.
ReservationsAreLive ==
  reserved \subseteq UNION {Claims(j) : j \in {k \in Jobs : Promised(k)}}

\* With takeover on, a start leaves the port it wants only to somebody else: a promise to
\* another start, something that is no bench stack, another app's stack as docker listed it
\* or as it is now, or a stack of its own app that is really still there.  That a stack it
\* has just taken down was listed on the port is no reason to publish another URL.
LeavesForOthers ==
  [][\A j \in Jobs : pc[j] \in {"planning", "recheck"} /\ cursor = 0 /\ cursor' = 1 =>
       \/ Wanted(j) \in claimed \cup snap.others \/ ForeignAt(Wanted(j))
       \/ \E s \in Stacks \ {Self(j), Twin(j)} : Wanted(j) \in PortsOf(snap.stacks[s])
       \/ \E s \in Stacks \ {Self(j)} : Wanted(j) \in PortsOf(pub[s])]_vars

\* With nothing but bench stacks on the machine, every app of a batch gets its
\* own ports, twin up or not: the same app lands on the same URL every run.
SameUrl ==
  \A j \in Jobs : \A i \in DOMAIN claims[j] : claims[j][i] = HomePort(AppOf(j), i)

\* A service that sits in the pool is never moved further up the pool by
\* planning its stack again.
NoUpwardDrift ==
  \A j \in Jobs : Promised(j) => \A e \in pub[Self(j)] :
    (e[2] \in Pool /\ e[1] \in DOMAIN claims[j] /\ claims[j][e[1]] \in Pool)
      => claims[j][e[1]] <= e[2]

\* The only stacks a start takes anything from are its own and, for a port it
\* wants and may take over, its app's other one; all others are left alone.
OthersLeftAlone ==
  [][\A s \in Stacks : pub'[s] # pub[s] =>
       \E j \in Jobs : \/ s = Self(j) /\ pc[j] \in {"up", "rollback"}
                       \/ s = Twin(j) /\ pc[j] = "planning" /\ Takeover
                          /\ Wanted(j) \in PortsOf(pub[s])]_vars

\* Planning implements the lease: a stack has the ports it publishes and those
\* promised to a start of it.
Leases == {l \in Stacks \X AllPorts :
             \/ l[2] \in PortsOf(pub[l[1]])
             \/ \E j \in Jobs : l[1] = Self(j) /\ Promised(j) /\ l[2] \in Claims(j)}
Lease == INSTANCE PortLease WITH Tenant <- Stacks, Port <- AllPorts, leases <- Leases
LeasesPorts == Lease!Spec

\* Every start of the batch succeeds or fails in the end: no planner that dies
\* wedges the port lock for those behind it.
AllSettle == \A j \in Jobs : <>(pc[j] \in Settled)
=============================================================================
