--------------------------- MODULE PortPlanProofs ---------------------------
(* For any batch, any machine and any behaviour of docker: the variables   *)
(* of PortPlan keep their types, and no host port is ever promised to two  *)
(* starts.                                                                 *)
(*                                                                         *)
(* Then what planning promises the rest of the machine.  While the probes  *)
(* see what docker publishes, a promised port is published by nobody else  *)
(* and PortPlan implements PortLease; whatever the probes see, a start     *)
(* takes something only from its own stacks; and on a machine to itself a  *)
(* batch gets the ports of the map.                                        *)
EXTENDS PortPlan, FiniteSetTheorems, TLAPS

(***************************************************************************)
(* The port map.                                                           *)
(***************************************************************************)

LEMMA SlotIsNat == \A a \in App : Slot(a) \in Nat
BY PortMapAssumption DEF Slot

\* What a start asks for is a port number (no sidecar index is negative).
LEMMA HomePortIsNat ==
  ASSUME NEW a \in App, NEW i \in Nat \ {0}
  PROVE  HomePort(a, i) \in Nat
<1>1. CASE i = 1
  BY <1>1, SlotIsNat, PortMapAssumption DEF HomePort, SlotPort
<1>2. CASE i # 1
  <2>1. i - 2 \in Nat /\ Slot(a) \in Nat /\ Slot(a) * SIDECAR_STRIDE \in Nat
    BY <1>2, SlotIsNat, PortMapAssumption
  <2>2. SidecarPort(a, i - 2) \in Nat
    BY <2>1, PortMapAssumption DEF SidecarPort
  <2> QED
    BY <1>2, <2>2 DEF HomePort
<1> QED
  BY <1>1, <1>2

LEMMA PoolPortIsNat == \A k \in Nat \ {0} : PoolPort(k) \in Nat
BY PortMapAssumption DEF PoolPort

LEMMA AllPortsAreNat == AllPorts \subseteq Nat
<1>1. \A a \in App : \A i \in 1..Decls[a] : HomePort(a, i) \in Nat
  BY HomePortIsNat, PortMapAssumption
<1>2. Pool \subseteq Nat
  BY PoolPortIsNat, PortMapAssumption DEF Pool
<1>3. {Requested} \ {NoPort} \subseteq Nat
  BY PortMapAssumption
<1>4. (UNION {{HomePort(a, i) : i \in 1..Decls[a]} : a \in App}) \subseteq Nat
  BY <1>1
<1> QED
  BY <1>2, <1>3, <1>4 DEF AllPorts

LEMMA WantedIsNat ==
  ASSUME TypeOK, NEW j \in Jobs
  PROVE  Wanted(j) \in Nat
<1>1. claims[j] \in Seq(Nat) /\ AppOf(j) \in App
  BY BatchAssumption DEF TypeOK, Jobs, AppOf
<1>2. Decl(j) \in Nat \ {0}
  BY <1>1 DEF Decl
<1>3. Decl(j) # 1 => Wanted(j) = HomePort(AppOf(j), Decl(j))
  BY DEF Wanted, HomePort
<1> QED
  BY <1>1, <1>2, <1>3, HomePortIsNat DEF Wanted, TypeOK

LEMMA BlocksDisjoint ==
  ASSUME NEW s \in Nat, NEW t \in Nat, NEW n \in Nat, NEW c \in Nat, NEW d \in Nat,
         s < t, c < n
  PROVE  s * n + c < t * n + d
<1>1. PICK e \in Nat : t = s + 1 + e
  <2>1. t - s - 1 \in Nat /\ t = s + 1 + (t - s - 1)
    OBVIOUS
  <2> QED
    BY <2>1
<1>2. t * n = s * n + n + e * n /\ e * n \in Nat /\ s * n \in Nat
  BY <1>1
<1> QED
  BY <1>2

\* Where the sidecars of one app go: its own block, below the pool.
LEMMA SidecarInBlock ==
  ASSUME NEW a \in App, Slot(a) < APP_SLOT_SPAN, NEW c \in Nat, c < SIDECAR_STRIDE,
         SIDECAR_BASE + APP_SLOT_SPAN * SIDECAR_STRIDE <= PORT_FALLBACK_BASE
  PROVE  /\ SidecarPort(a, c) = SIDECAR_BASE + Slot(a) * SIDECAR_STRIDE + c
         /\ SidecarPort(a, c) \in SIDECAR_BASE..PORT_FALLBACK_BASE - 1
<1>1. Slot(a) \in Nat /\ APP_SLOT_SPAN \in Nat /\ SIDECAR_STRIDE \in Nat
      /\ SIDECAR_BASE \in Nat /\ PORT_FALLBACK_BASE \in Nat
  BY SlotIsNat, PortMapAssumption
<1>2. Slot(a) * SIDECAR_STRIDE + c < APP_SLOT_SPAN * SIDECAR_STRIDE + 0
  BY <1>1, BlocksDisjoint
<1>3. Slot(a) * SIDECAR_STRIDE \in Nat /\ APP_SLOT_SPAN * SIDECAR_STRIDE \in Nat
  BY <1>1
<1> QED
  BY <1>1, <1>2, <1>3 DEF SidecarPort

\* Every app owns its ports: while the catalog fits APP_SLOT_SPAN and no app has
\* more sidecars than its block holds, no two apps want the same host port, and
\* none wants one of the relocation pool (README, Ports).
THEOREM OwnPortsAreOwn ==
  ASSUME NEW a \in App, NEW b \in App, Index[a] # Index[b],
         Index[a] < APP_SLOT_SPAN, Index[b] < APP_SLOT_SPAN,
         APP_PORT + APP_SLOT_SPAN <= SIDECAR_BASE,
         SIDECAR_BASE + APP_SLOT_SPAN * SIDECAR_STRIDE <= PORT_FALLBACK_BASE,
         Decls[a] <= SIDECAR_STRIDE + 1, Decls[b] <= SIDECAR_STRIDE + 1,
         NEW i \in 1..Decls[a], NEW k \in 1..Decls[b]
  PROVE  HomePort(a, i) # HomePort(b, k) /\ HomePort(a, i) \notin Pool
<1>1. /\ Slot(a) \in Nat /\ Slot(b) \in Nat /\ SIDECAR_STRIDE \in Nat /\ APP_PORT \in Nat
      /\ SIDECAR_BASE \in Nat /\ PORT_FALLBACK_BASE \in Nat /\ PORT_FALLBACK_SPAN \in Nat
      /\ Decls[a] \in Nat /\ Decls[b] \in Nat /\ APP_SLOT_SPAN \in Nat
      /\ APP_SLOT_SPAN * SIDECAR_STRIDE \in Nat
  BY SlotIsNat, PortMapAssumption
<1>0. Slot(a) # Slot(b) /\ Slot(a) < APP_SLOT_SPAN /\ Slot(b) < APP_SLOT_SPAN
  BY DEF Slot
<1>2. ASSUME NEW p \in Pool PROVE p \in Nat /\ p >= PORT_FALLBACK_BASE
  BY <1>1 DEF Pool, PoolPort
<1>3. SlotPort(a) \in APP_PORT..SIDECAR_BASE - 1 /\ SlotPort(b) \in APP_PORT..SIDECAR_BASE - 1
      /\ SlotPort(a) # SlotPort(b)
  BY <1>0, <1>1 DEF SlotPort
<1>4. CASE i = 1 /\ k = 1
  BY <1>1, <1>2, <1>3, <1>4 DEF HomePort
<1>5. CASE i = 1 /\ k # 1
  <2>1. SidecarPort(b, k - 2) \in SIDECAR_BASE..PORT_FALLBACK_BASE - 1
    BY <1>0, <1>1, <1>5, SidecarInBlock
  <2> QED
    BY <1>1, <1>2, <1>3, <1>5, <2>1 DEF HomePort
<1>6. CASE i # 1 /\ k = 1
  <2>1. SidecarPort(a, i - 2) \in SIDECAR_BASE..PORT_FALLBACK_BASE - 1
    BY <1>0, <1>1, <1>6, SidecarInBlock
  <2> QED
    BY <1>1, <1>2, <1>3, <1>6, <2>1 DEF HomePort
<1>7. CASE i # 1 /\ k # 1
  <2>1. i - 2 \in Nat /\ i - 2 < SIDECAR_STRIDE /\ k - 2 \in Nat /\ k - 2 < SIDECAR_STRIDE
    BY <1>1, <1>7
  <2>2. /\ SidecarPort(a, i - 2) \in SIDECAR_BASE..PORT_FALLBACK_BASE - 1
        /\ SidecarPort(a, i - 2) = SIDECAR_BASE + Slot(a) * SIDECAR_STRIDE + (i - 2)
        /\ SidecarPort(b, k - 2) = SIDECAR_BASE + Slot(b) * SIDECAR_STRIDE + (k - 2)
    BY <1>0, <2>1, SidecarInBlock
  <2>3. Slot(a) * SIDECAR_STRIDE + (i - 2) # Slot(b) * SIDECAR_STRIDE + (k - 2)
    <3>1. Slot(a) * SIDECAR_STRIDE \in Nat /\ Slot(b) * SIDECAR_STRIDE \in Nat
      BY <1>1
    <3>2. CASE Slot(a) < Slot(b)
      <4>1. Slot(a) * SIDECAR_STRIDE + (i - 2) < Slot(b) * SIDECAR_STRIDE + (k - 2)
        BY <1>1, <2>1, <3>2, BlocksDisjoint
      <4> QED
        BY <2>1, <3>1, <4>1
    <3>3. CASE Slot(b) < Slot(a)
      <4>1. Slot(b) * SIDECAR_STRIDE + (k - 2) < Slot(a) * SIDECAR_STRIDE + (i - 2)
        BY <1>1, <2>1, <3>3, BlocksDisjoint
      <4> QED
        BY <2>1, <3>1, <4>1
    <3>4. Slot(a) < Slot(b) \/ Slot(b) < Slot(a)
      <4>1. Slot(a) \in Nat /\ Slot(b) \in Nat /\ Slot(a) # Slot(b)
        BY <1>0, <1>1
      <4> QED
        BY ONLY <4>1
    <3> QED
      BY ONLY <3>2, <3>3, <3>4, Zenon
  <2>4. Slot(a) * SIDECAR_STRIDE \in Nat /\ Slot(b) * SIDECAR_STRIDE \in Nat
    BY <1>1
  <2>5. SidecarPort(a, i - 2) # SidecarPort(b, k - 2)
    <3> DEFINE x == Slot(a) * SIDECAR_STRIDE + (i - 2)
               y == Slot(b) * SIDECAR_STRIDE + (k - 2)
    <3>1. x \in Nat /\ y \in Nat /\ x # y
      BY <2>1, <2>3, <2>4
    <3>2. SidecarPort(a, i - 2) = SIDECAR_BASE + x /\ SidecarPort(b, k - 2) = SIDECAR_BASE + y
      BY <1>1, <2>1, <2>2, <2>4
    <3> HIDE DEF x, y
    <3> QED
      BY <1>1, <3>1, <3>2
  <2>6. SidecarPort(a, i - 2) \notin Pool
    BY <1>1, <1>2, <2>2
  <2> QED
    BY <1>7, <2>5, <2>6 DEF HomePort
<1> QED
  BY <1>4, <1>5, <1>6, <1>7

(***************************************************************************)
(* Type correctness.                                                       *)
(***************************************************************************)

LEMMA InitTyped == Init => TypeOK
<1> SUFFICES ASSUME Init PROVE TypeOK
  OBVIOUS
<1>1. pub \in [Stacks -> Publishes]
  <2>1. pub \in [Stacks -> SUBSET (Nat \X AllPorts)]
    BY StacksAssumption DEF Init
  <2>2. SUBSET (Nat \X AllPorts) \subseteq Publishes
    BY AllPortsAreNat DEF Publishes
  <2> QED
    BY <2>1, <2>2
<1>2. snap \in [stacks : [Stacks -> Publishes], others : SUBSET ForeignPorts]
  BY <1>1 DEF Init
<1>3. next \in 1..Len(Batch) + 1
  BY BatchAssumption DEF Init
<1>4. pc \in [Jobs -> Stage] /\ queue \in Seq(Jobs) /\ claims \in [Jobs -> Seq(Nat)]
  BY DEF Init, Stage
<1> QED
  BY <1>1, <1>2, <1>3, <1>4 DEF Init, TypeOK

LEMMA DieTyped ==
  ASSUME TypeOK, NEW j \in Jobs, queue # <<>>, Die(j)
  PROVE  TypeOK'
BY DEF TypeOK, Die, planner, world, Stage, Settled

LEMMA SnapshotTyped ==
  ASSUME TypeOK, TakeSnapshot
  PROVE  snap' \in [stacks : [Stacks -> Publishes], others : SUBSET ForeignPorts]
BY DEF TypeOK, TakeSnapshot

LEMMA ClaimTyped ==
  ASSUME TypeOK, NEW j \in Jobs, queue # <<>>, NEW p \in Nat, Claim(j, p)
  PROVE  TypeOK'
<1>1. claims' \in [Jobs -> Seq(Nat)]
  BY DEF TypeOK, Claim
<1>2. pc' \in [Jobs -> Stage] /\ queue' \in Seq(Jobs)
  <2>1. CASE Decl(j) = Decls[AppOf(j)]
    <3>1. pc' = [pc EXCEPT ![j] = "up"] /\ queue' = Tail(queue)
      BY <2>1 DEF Claim
    <3>2. Tail(queue) \in Seq(Jobs)
      BY DEF TypeOK
    <3> QED
      BY <3>1, <3>2 DEF TypeOK, Stage
  <2>2. CASE Decl(j) # Decls[AppOf(j)]
    BY <2>2 DEF TypeOK, Claim, Stage, PlanningAt
  <2> QED
    BY <2>1, <2>2
<1> QED
  BY <1>1, <1>2 DEF TypeOK, Claim, world

(***************************************************************************)
(* The inductive invariant.                                                *)
(***************************************************************************)

\* Only the head of the queue, the holder of the port lock, is planning.
LockHeld ==
  \A j \in Jobs : pc[j] \in PlanningAt => queue # <<>> /\ Head(queue) = j

\* A start claims nothing before planPorts works on its declarations.
NothingClaimedYet ==
  \A j \in Jobs : pc[j] \in {"idle", "queued", "picking", "listed"} => claims[j] = <<>>

\* RESERVED_PORTS covers every promise that is still open...
PromisesReserved == \A j \in Jobs : Promised(j) => Claims(j) \subseteq reserved

\* ...and so does the copy of it the planner works from, which docker's answers
\* may have outdated but only by promises that were kept since.
PlannerKnows ==
  \A j, k \in Jobs : pc[j] \in {"planning", "relist", "recheck"} /\ Promised(k)
                      => Claims(k) \subseteq claimed

\* A takeover is attempted only for a port nobody has a claim on.
TakeoverUnclaimed ==
  \A j \in Jobs : pc[j] \in {"relist", "recheck"} => Wanted(j) \notin claimed

\* pooled hands jobs out in order.
NotBegun == \A j \in Jobs : j >= next => pc[j] = "idle"

IInv == /\ TypeOK /\ NotBegun /\ LockHeld /\ NothingClaimedYet /\ PromisesReserved
        /\ PlannerKnows /\ TakeoverUnclaimed /\ PromisesDisjoint

LEMMA InitIInv == Init => IInv
BY InitTyped DEF Init, IInv, NotBegun, LockHeld, NothingClaimedYet, PromisesReserved,
   PlannerKnows, TakeoverUnclaimed, PromisesDisjoint, Promised, PlanningAt

\* A step of start j that leaves the claims, the reservations and the planner's
\* copy of them alone, and does not move j past the lock.
LEMMA OtherSteps ==
  ASSUME IInv, NEW j \in Jobs, TypeOK', NotBegun',
         \A k \in Jobs \ {j} : pc'[k] = pc[k],
         UNCHANGED <<claims, claimed, reserved>>, LockHeld',
         target' = target \/ \A k \in Jobs : pc'[k] \notin {"relist", "recheck"},
         pc'[j] \in PlanningAt \cup {"up"} =>
           \/ pc[j] \in PlanningAt /\ pc'[j] # "up"
           \/ claims[j] = <<>>,
         pc'[j] \in {"planning", "relist", "recheck"} => pc[j] \in {"planning", "relist", "recheck"},
         pc'[j] \in {"relist", "recheck"} => Wanted(j) \notin claimed,
         pc'[j] \in {"idle", "queued", "picking", "listed"} => claims[j] = <<>>
  PROVE  IInv'
<1>1. \A k \in Jobs : Claims(k)' = Claims(k)
  BY DEF Claims
<1>0. target' = target => \A k \in Jobs : Wanted(k)' = Wanted(k)
  BY DEF Wanted, Decl
<1>2. claims[j] = <<>> => Claims(j) = {}
  BY DEF Claims
<1>3. \A k \in Jobs : Promised(k)' => Promised(k) \/ Claims(k) = {}
  BY <1>2 DEF Promised, PlanningAt
<1>4. NothingClaimedYet'
  BY DEF IInv, NothingClaimedYet
<1>5. PromisesReserved'
  BY <1>1, <1>3 DEF IInv, PromisesReserved
<1>6. PlannerKnows'
  BY <1>1, <1>3 DEF IInv, PlannerKnows
<1>7. TakeoverUnclaimed'
  BY <1>0 DEF IInv, TakeoverUnclaimed
<1>8. PromisesDisjoint'
  BY <1>1, <1>3 DEF IInv, PromisesDisjoint
<1> QED
  BY <1>4, <1>5, <1>6, <1>7, <1>8 DEF IInv

LEMMA BeginKeepsIInv == ASSUME IInv, NEW j \in Jobs, Begin(j) PROVE IInv'
<1>1. pc[j] = "idle" /\ claims[j] = <<>> /\ pc'[j] \in {"queued", "failed"}
  BY DEF IInv, TypeOK, NotBegun, NothingClaimedYet, Begin, Jobs
<1>2. \A k \in Jobs \ {j} : pc'[k] = pc[k]
  BY DEF IInv, TypeOK, Begin
<1>3. TypeOK'
  <2>1. next' \in 1..Len(Batch) + 1
    BY BatchAssumption DEF Begin, Jobs
  <2>2. pc' \in [Jobs -> Stage] /\ queue' \in Seq(Jobs)
    <3>1. \/ pc' = [pc EXCEPT ![j] = "failed"]
          \/ pc' = [pc EXCEPT ![j] = "queued"]
      BY DEF Begin
    <3>2. queue' = queue \/ queue' = Append(queue, j)
      BY DEF Begin
    <3>3. queue \in Seq(Jobs) /\ Append(queue, j) \in Seq(Jobs)
      BY DEF IInv, TypeOK
    <3> QED
      BY <3>3, <3>1, <3>2 DEF IInv, TypeOK, Stage, Settled
  <2> QED
    BY <2>1, <2>2 DEF IInv, TypeOK, Begin, planner, world
<1>4. NotBegun'
  BY <1>2, BatchAssumption DEF IInv, NotBegun, Begin, Jobs
<1>5. LockHeld'
  <2> SUFFICES ASSUME NEW k \in Jobs, pc'[k] \in PlanningAt
               PROVE  queue' # <<>> /\ Head(queue') = k
    BY DEF LockHeld
  <2>1. k # j /\ queue # <<>> /\ Head(queue) = k
    BY <1>1, <1>2 DEF IInv, LockHeld, PlanningAt
  <2>2. CASE queue' = queue
    BY <2>1, <2>2
  <2>3. CASE queue' = Append(queue, j)
    <3>1. queue \in Seq(Jobs) /\ Len(queue) > 0
      BY <2>1 DEF IInv, TypeOK
    <3>2. Head(Append(queue, j)) = Head(queue) /\ Append(queue, j) # <<>>
      BY <3>1
    <3> QED
      BY <2>1, <2>3, <3>2
  <2> QED
    BY <2>2, <2>3 DEF Begin
<1> QED
  BY <1>1, <1>2, <1>3, <1>4, <1>5, OtherSteps DEF Begin, planner, PlanningAt

\* The step in which j, at the head of the queue, leaves it.
LEMMA PassTheLock ==
  ASSUME IInv, NEW j \in Jobs, queue # <<>>, Head(queue) = j,
         \A k \in Jobs \ {j} : pc'[k] = pc[k],
         pc'[j] \notin PlanningAt
  PROVE  LockHeld'
BY DEF IInv, LockHeld

\* The step in which j plans on.
LEMMA KeepTheLock ==
  ASSUME IInv, NEW j \in Jobs, queue # <<>>, Head(queue) = j,
         \A k \in Jobs \ {j} : pc'[k] = pc[k], UNCHANGED queue
  PROVE  LockHeld'
BY DEF IInv, LockHeld

LEMMA DieKeepsIInv ==
  ASSUME IInv, NEW j \in Jobs, queue # <<>>, Head(queue) = j, pc[j] # "idle", Die(j)
  PROVE  IInv'
<1>1. TypeOK'
  BY DieTyped DEF IInv
<1>2. (\A k \in Jobs \ {j} : pc'[k] = pc[k]) /\ pc'[j] = "failed"
  BY DEF IInv, TypeOK, Die
<1>3. NotBegun'
  BY <1>2 DEF IInv, NotBegun, Die
<1>4. LockHeld'
  BY <1>2, PassTheLock DEF PlanningAt
<1> QED
  BY <1>1, <1>2, <1>3, <1>4, OtherSteps DEF Die, planner, PlanningAt

LEMMA ListKeepsIInv == ASSUME IInv, NEW j \in Jobs, List(j) PROVE IInv'
<1>1. CASE Die(j)
  BY <1>1, DieKeepsIInv DEF List
<1>2. CASE ~Die(j)
  <2>1. /\ TakeSnapshot /\ cursor' = 0
        /\ target' = IF Requested = NoPort THEN SlotPort(AppOf(j)) ELSE Requested
        /\ pc' = [pc EXCEPT ![j] = IF Mode = "solo" /\ Requested = NoPort
                                   THEN "picking" ELSE "listed"]
        /\ UNCHANGED <<next, queue, reserved, claims, claimed, world>>
        /\ pc[j] = "queued" /\ queue # <<>> /\ Head(queue) = j
    BY <1>2 DEF List
  <2>2. pc'[j] \in {"picking", "listed"} /\ claims[j] = <<>>
    BY <2>1 DEF IInv, TypeOK, NothingClaimedYet
  <2>3. \A k \in Jobs \ {j} : pc'[k] = pc[k]
    BY <2>1 DEF IInv, TypeOK
  <2>4. target' \in Nat
    BY <2>1, SlotIsNat, PortMapAssumption, BatchAssumption DEF AppOf, Jobs, SlotPort
  <2>5. pc' \in [Jobs -> Stage]
    BY <2>1 DEF IInv, TypeOK, Stage, PlanningAt
  <2>6. TypeOK'
    BY <2>1, <2>4, <2>5, SnapshotTyped DEF IInv, TypeOK, world
  <2>7. NotBegun'
    BY <2>1, <2>3 DEF IInv, NotBegun
  <2>8. LockHeld'
    BY <2>1, <2>3, KeepTheLock
  <2>9. \A k \in Jobs : pc'[k] \notin {"relist", "recheck"}
    BY <2>1, <2>2, <2>3 DEF IInv, LockHeld, PlanningAt
  <2> QED
    BY <2>1, <2>2, <2>3, <2>6, <2>7, <2>8, <2>9, OtherSteps DEF PlanningAt
<1> QED
  BY <1>1, <1>2

\* What the lock gives a start that plans.
LEMMA Holder ==
  ASSUME IInv, NEW j \in Jobs, pc[j] \in PlanningAt
  PROVE  /\ queue # <<>> /\ Head(queue) = j /\ pc[j] # "idle"
         /\ \A k \in Jobs \ {j} : pc[k] \notin PlanningAt
BY DEF IInv, LockHeld, PlanningAt

\* The steps that only look: the lock, the claims and the reservations stay.
LEMMA LookKeepsIInv ==
  ASSUME IInv, NEW j \in Jobs, NEW to \in PlanningAt,
         pc[j] \in PlanningAt, pc' = [pc EXCEPT ![j] = to],
         UNCHANGED <<next, queue, reserved, claims, claimed, foreign>>,
         target' \in Nat, cursor' \in Nat, pub' \in [Stacks -> Publishes],
         snap' \in [stacks : [Stacks -> Publishes], others : SUBSET ForeignPorts],
         target' = target \/ to \notin {"relist", "recheck"},
         to \in {"planning", "relist", "recheck"} => pc[j] \in {"planning", "relist", "recheck"},
         to \in {"relist", "recheck"} => Wanted(j) \notin claimed,
         to \in {"picking", "listed"} => claims[j] = <<>>
  PROVE  IInv'
<1>1. (\A k \in Jobs \ {j} : pc'[k] = pc[k]) /\ pc'[j] = to
  BY DEF IInv, TypeOK
<1>2. pc' \in [Jobs -> Stage]
  BY DEF IInv, TypeOK, Stage
<1>3. TypeOK'
  BY <1>2 DEF IInv, TypeOK
<1>4. NotBegun'
  BY <1>1, Holder DEF IInv, NotBegun
<1>5. LockHeld'
  BY <1>1, Holder, KeepTheLock
<1>6. target' = target \/ \A k \in Jobs : pc'[k] \notin {"relist", "recheck"}
  BY <1>1, Holder DEF PlanningAt
<1> QED
  BY <1>1, <1>3, <1>4, <1>5, <1>6, OtherSteps DEF PlanningAt

LEMMA PickKeepsIInv == ASSUME IInv, NEW j \in Jobs, Pick(j) PROVE IInv'
<1>1. /\ pc[j] = "picking" /\ claims[j] = <<>> /\ TypeOK
      /\ UNCHANGED <<next, queue, reserved, claims, snap, claimed, pub, foreign>>
  BY DEF Pick, IInv, NothingClaimedYet, world
<1>2. Candidate(j) \in Nat
  <2>1. SlotPort(AppOf(j)) \in Nat
    BY SlotIsNat, PortMapAssumption, BatchAssumption DEF SlotPort, AppOf, Jobs
  <2>2. cursor # 0 => PoolPort(cursor) \in Nat
    BY <1>1, PoolPortIsNat DEF TypeOK
  <2> QED
    BY <2>1, <2>2 DEF Candidate
<1>3. CASE PickFits(j)
  <2>1. target' \in Nat /\ cursor' \in Nat /\ pc' = [pc EXCEPT ![j] = "listed"]
    BY <1>2, <1>3 DEF Pick
  <2> QED
    BY <1>1, <2>1, LookKeepsIInv DEF TypeOK, PlanningAt
<1>4. CASE ~PickFits(j)
  <2>1. target' = target /\ cursor' \in Nat /\ pc' = pc
    BY <1>1, <1>4 DEF Pick, TypeOK
  <2>2. pc' = [pc EXCEPT ![j] = "picking"] /\ "picking" \in PlanningAt
    BY <1>1, <2>1 DEF TypeOK, PlanningAt
  <2> QED
    BY <1>1, <2>1, <2>2, LookKeepsIInv DEF TypeOK
<1> QED
  BY <1>3, <1>4

LEMMA StopTwinKeepsIInv == ASSUME IInv, NEW j \in Jobs, StopTwin(j) PROVE IInv'
<1>1. pub' \in [Stacks -> Publishes]
  BY DEF StopTwin, IInv, TypeOK, Publishes
<1>2. pc[j] = "planning" /\ Wanted(j) \notin claimed
  BY DEF StopTwin, MayTakeOver
<1> QED
  BY <1>1, <1>2, LookKeepsIInv DEF StopTwin, planner, PlanningAt, IInv, TypeOK

LEMMA RelistKeepsIInv == ASSUME IInv, NEW j \in Jobs, Relist(j) PROVE IInv'
<1>1. pc[j] = "relist" /\ Wanted(j) \notin claimed
  BY DEF Relist, IInv, TakeoverUnclaimed
<1>2. CASE Die(j)
  BY <1>1, <1>2, Holder, DieKeepsIInv DEF PlanningAt
<1>3. CASE ~Die(j)
  BY <1>1, <1>3, SnapshotTyped, LookKeepsIInv DEF Relist, world, PlanningAt, IInv, TypeOK
<1> QED
  BY <1>2, <1>3

LEMMA LeaveWantedKeepsIInv == ASSUME IInv, NEW j \in Jobs, LeaveWanted(j) PROVE IInv'
<1>1. pc' = [pc EXCEPT ![j] = "planning"]
  BY DEF LeaveWanted, IInv, TypeOK
<1> QED
  BY <1>1, LookKeepsIInv DEF LeaveWanted, world, PlanningAt, IInv, TypeOK

\* planPorts copies RESERVED_PORTS, which covers every open promise.
LEMMA OpenKeepsIInv == ASSUME IInv, NEW j \in Jobs, Open(j) PROVE IInv'
<1>1. pc[j] = "listed" /\ claims[j] = <<>> /\ Claims(j) = {}
  BY DEF Open, IInv, NothingClaimedYet, Claims
<1>2. (\A k \in Jobs \ {j} : pc'[k] = pc[k]) /\ pc'[j] = "planning"
  BY DEF Open, IInv, TypeOK
<1>3. \A k \in Jobs \ {j} : pc[k] \notin PlanningAt
  BY <1>1, Holder DEF PlanningAt
<1>4. \A k \in Jobs : (Promised(k)' <=> Promised(k)) /\ Claims(k)' = Claims(k)
  BY <1>1, <1>2 DEF Promised, PlanningAt, Claims, Open
<1>5. TypeOK'
  BY DEF Open, IInv, TypeOK, Stage, PlanningAt, world
<1>6. NotBegun' /\ NothingClaimedYet'
  BY <1>1, <1>2 DEF Open, IInv, NotBegun, NothingClaimedYet
<1>7. LockHeld'
  BY <1>1, <1>2, Holder, KeepTheLock DEF Open, PlanningAt
<1>8. PromisesReserved' /\ PromisesDisjoint' /\ PlannerKnows'
  BY <1>4 DEF Open, IInv, PromisesReserved, PromisesDisjoint, PlannerKnows
<1>9. TakeoverUnclaimed'
  BY <1>2, <1>3 DEF TakeoverUnclaimed, PlanningAt
<1> QED
  BY <1>5, <1>6, <1>7, <1>8, <1>9 DEF IInv

\* The step that takes a port nobody has claimed.
LEMMA ClaimKeepsIInv ==
  ASSUME IInv, NEW j \in Jobs, NEW p \in Nat, p \notin claimed,
         pc[j] \in {"planning", "recheck"}, Claim(j, p)
  PROVE  IInv'
<1>1. /\ queue # <<>> /\ Head(queue) = j /\ pc[j] # "idle" /\ Promised(j)
      /\ \A k \in Jobs \ {j} : pc[k] \notin PlanningAt
  BY Holder DEF PlanningAt, Promised
<1>2. \/ pc' = [pc EXCEPT ![j] = "up"] /\ queue' = Tail(queue)
      \/ pc' = [pc EXCEPT ![j] = "planning"] /\ queue' = queue
  BY DEF Claim
<1>3. (\A k \in Jobs \ {j} : pc'[k] = pc[k]) /\ pc'[j] \in {"up", "planning"}
  BY <1>2 DEF IInv, TypeOK
<1>4. TypeOK'
  BY <1>1, ClaimTyped DEF IInv
<1>5. NotBegun' /\ NothingClaimedYet'
  BY <1>1, <1>3 DEF IInv, TypeOK, NotBegun, NothingClaimedYet, Claim
<1>6. LockHeld'
  <2>1. CASE queue' = queue
    BY <1>1, <1>3, <2>1, KeepTheLock
  <2>2. CASE pc' = [pc EXCEPT ![j] = "up"]
    BY <1>1, <1>3, <2>2, PassTheLock DEF IInv, TypeOK, PlanningAt
  <2> QED
    BY <1>2, <2>1, <2>2
<1>7. \A k \in Jobs \ {j} : Claims(k)' = Claims(k) /\ (Promised(k)' <=> Promised(k))
  BY <1>3 DEF Claims, Promised, Claim, IInv, TypeOK
<1>8. Claims(j)' = Claims(j) \cup {p}
  <2>1. claims[j] \in Seq(Nat) /\ claims'[j] = Append(claims[j], p)
    BY DEF IInv, TypeOK, Claim
  <2>2. DOMAIN claims'[j] = DOMAIN claims[j] \cup {Len(claims[j]) + 1}
    BY <2>1
  <2>3. claims'[j][Len(claims[j]) + 1] = p
    BY <2>1
  <2>4. \A i \in DOMAIN claims[j] : claims'[j][i] = claims[j][i]
    BY <2>1
  <2> QED
    BY <2>2, <2>3, <2>4 DEF Claims
<1>9. \A k \in Jobs \ {j} : Promised(k) => p \notin Claims(k)
  BY DEF IInv, PlannerKnows
<1>10. PromisesReserved'
  BY <1>1, <1>7, <1>8 DEF IInv, PromisesReserved, Claim
<1>11. PlannerKnows'
  <2> SUFFICES ASSUME NEW k \in Jobs, Promised(k)'
               PROVE  Claims(k)' \subseteq claimed'
    BY DEF PlannerKnows
  <2>1. Claims(k) \subseteq claimed
    BY <1>1, <1>7 DEF IInv, PlannerKnows
  <2> QED
    BY <1>7, <1>8, <2>1 DEF Claim
<1>12. TakeoverUnclaimed'
  BY <1>1, <1>3 DEF TakeoverUnclaimed, PlanningAt
<1>13. PromisesDisjoint'
  BY <1>1, <1>7, <1>8, <1>9 DEF IInv, PromisesDisjoint
<1> QED
  BY <1>4, <1>5, <1>6, <1>10, <1>11, <1>12, <1>13 DEF IInv

LEMMA TakeWantedKeepsIInv == ASSUME IInv, NEW j \in Jobs, TakeWanted(j) PROVE IInv'
<1>1. Wanted(j) \in Nat /\ Wanted(j) \notin claimed
  BY WantedIsNat DEF TakeWanted, MayTake, IInv
<1> QED
  BY <1>1, ClaimKeepsIInv DEF TakeWanted

LEMMA RecheckKeepsIInv == ASSUME IInv, NEW j \in Jobs, Recheck(j) PROVE IInv'
<1>1. pc[j] = "recheck" /\ Wanted(j) \notin claimed /\ Wanted(j) \in Nat
  BY WantedIsNat DEF Recheck, IInv, TakeoverUnclaimed
<1>2. CASE Free(Wanted(j))
  BY <1>1, <1>2, ClaimKeepsIInv DEF Recheck
<1>3. CASE ~Free(Wanted(j))
  <2>1. /\ pc' = [pc EXCEPT ![j] = "planning"] /\ cursor' \in Nat /\ TypeOK
        /\ UNCHANGED <<next, queue, reserved, claims, target, snap, claimed, pub, foreign>>
    BY <1>3 DEF Recheck, world, IInv
  <2>2. pc[j] \in PlanningAt /\ "planning" \in PlanningAt
    BY <1>1 DEF PlanningAt
  <2> QED
    BY <1>1, <2>1, <2>2, LookKeepsIInv DEF TypeOK
<1> QED
  BY <1>2, <1>3

LEMMA ScanPoolKeepsIInv == ASSUME IInv, NEW j \in Jobs, ScanPool(j) PROVE IInv'
<1>1. pc[j] = "planning" /\ cursor \in Nat \ {0} /\ PoolPort(cursor) \in Nat
  BY PoolPortIsNat, PortMapAssumption DEF ScanPool
<1>2. CASE PoolFits(j, PoolPort(cursor))
  <2>1. PoolPort(cursor) \notin claimed
    BY <1>2 DEF PoolFits
  <2> QED
    BY <1>1, <1>2, <2>1, ClaimKeepsIInv DEF ScanPool
<1>3. CASE ~PoolFits(j, PoolPort(cursor))
  <2>1. /\ pc' = [pc EXCEPT ![j] = "planning"] /\ cursor' \in Nat /\ TypeOK
        /\ UNCHANGED <<next, queue, reserved, claims, target, snap, claimed, pub, foreign>>
    BY <1>1, <1>3 DEF ScanPool, world, IInv, TypeOK
  <2>2. pc[j] \in PlanningAt /\ "planning" \in PlanningAt
    BY <1>1 DEF PlanningAt
  <2> QED
    BY <1>1, <2>1, <2>2, LookKeepsIInv DEF TypeOK
<1> QED
  BY <1>2, <1>3

(***************************************************************************)
(* After planning.                                                         *)
(***************************************************************************)

\* A finished or waiting start holds no promise: these steps touch neither the
\* planner nor the claims.
LEMMA AfterKeepsIInv ==
  ASSUME IInv, NEW j \in Jobs, NEW to \in {"waiting", "rollback", "ok", "failed"},
         pc[j] \in {"waiting", "rollback"}, pc' = [pc EXCEPT ![j] = to],
         UNCHANGED <<next, queue, reserved, claims, planner, foreign>>,
         pub' \in [Stacks -> Publishes]
  PROVE  IInv'
<1>1. (\A k \in Jobs \ {j} : pc'[k] = pc[k]) /\ pc'[j] = to
  BY DEF IInv, TypeOK
<1>2. TypeOK'
  BY DEF IInv, TypeOK, Stage, Settled, planner
<1>3. NotBegun'
  BY <1>1 DEF IInv, NotBegun
<1>4. LockHeld'
  BY <1>1 DEF IInv, LockHeld, PlanningAt
<1> QED
  BY <1>1, <1>2, <1>3, <1>4, OtherSteps DEF planner, PlanningAt

LEMMA PlannedTyped ==
  ASSUME TypeOK, NEW j \in Jobs
  PROVE  Planned(j) \in Publishes
<1>1. claims[j] \in Seq(Nat)
  BY DEF TypeOK
<1>2. \A i \in DOMAIN claims[j] : i \in Nat /\ claims[j][i] \in Nat
  BY <1>1
<1> QED
  BY <1>2 DEF Planned, Publishes

LEMMA LeftoverTyped ==
  ASSUME TypeOK, NEW j \in Jobs, NEW S \in Leftover(j)
  PROVE  S \in Publishes
<1>1. pub[Self(j)] \in Publishes
  BY BatchAssumption DEF TypeOK, Self, AppOf, Stacks, Jobs
<1>2. Planned(j) \in Publishes
  BY PlannedTyped
<1>3. S \subseteq pub[Self(j)] \cup Planned(j)
  <2>1. CASE Mode = "solo"
    BY <2>1 DEF Leftover
  <2>2. CASE Mode # "solo"
    BY <2>2 DEF Leftover
  <2> QED
    BY <2>1, <2>2
<1> QED
  BY <1>1, <1>2, <1>3 DEF Publishes

\* Releasing a reservation releases no other start's, since the promises are
\* disjoint.
LEMMA UpKeepsIInv == ASSUME IInv, NEW j \in Jobs, Up(j) PROVE IInv'
<1>1. /\ pc[j] = "up" /\ Promised(j) /\ reserved' = reserved \ Claims(j)
      /\ UNCHANGED <<next, queue, claims, target, snap, claimed, cursor, foreign>>
  BY DEF Up, planner, Promised
<1>2. \/ pc' = [pc EXCEPT ![j] = "waiting"]
      \/ pc' = [pc EXCEPT ![j] = "failed"]
  BY DEF Up
<1>3. (\A k \in Jobs \ {j} : pc'[k] = pc[k]) /\ pc'[j] \in {"waiting", "failed"}
  BY <1>2 DEF IInv, TypeOK
<1>4. pub' \in [Stacks -> Publishes]
  <2>1. \E S \in Leftover(j) \cup {Planned(j)} : pub' = [pub EXCEPT ![Self(j)] = S]
    BY DEF Up
  <2>2. PICK S \in Leftover(j) \cup {Planned(j)} : pub' = [pub EXCEPT ![Self(j)] = S]
    BY <2>1, Zenon
  <2>3. TypeOK
    BY DEF IInv
  <2>4. S \in Publishes
    BY <2>2, <2>3, PlannedTyped, LeftoverTyped, Zenon
  <2>5. pub \in [Stacks -> Publishes]
    BY <2>3 DEF TypeOK
  <2> QED
    BY ONLY <2>2, <2>4, <2>5
<1>5. TypeOK'
  <2>1. pc' \in [Jobs -> Stage]
    BY <1>2 DEF IInv, TypeOK, Stage, Settled
  <2> QED
    BY <1>1, <1>4, <2>1 DEF IInv, TypeOK
<1>6. NotBegun' /\ NothingClaimedYet' /\ LockHeld'
  BY <1>1, <1>3 DEF IInv, NotBegun, NothingClaimedYet, LockHeld, PlanningAt
<1>7. \A k \in Jobs : Claims(k)' = Claims(k) /\ Wanted(k)' = Wanted(k)
  BY <1>1 DEF Claims, Wanted, Decl
<1>8. ~Promised(j)' /\ \A k \in Jobs \ {j} : Promised(k)' <=> Promised(k)
  BY <1>3 DEF Promised, PlanningAt
<1>9. PromisesReserved'
  BY <1>1, <1>7, <1>8 DEF IInv, PromisesReserved, PromisesDisjoint
<1>10. PlannerKnows' /\ TakeoverUnclaimed' /\ PromisesDisjoint'
  BY <1>1, <1>3, <1>7, <1>8 DEF IInv, PlannerKnows, TakeoverUnclaimed, PromisesDisjoint
<1> QED
  BY <1>5, <1>6, <1>9, <1>10 DEF IInv

LEMMA HealthKeepsIInv ==
  ASSUME IInv, NEW j \in Jobs, Healthy(j) \/ Unhealthy(j) \/ Rollback(j)
  PROVE  IInv'
<1>1. pub' \in [Stacks -> Publishes]
  BY DEF Healthy, Unhealthy, Rollback, world, IInv, TypeOK, Publishes
<1>2. pc[j] \in {"waiting", "rollback"}
  BY DEF Healthy, Unhealthy, Rollback
<1>3. UNCHANGED <<next, queue, reserved, claims, planner, foreign>>
  BY DEF Healthy, Unhealthy, Rollback, world
<1>4. \E to \in {"waiting", "rollback", "ok", "failed"} : pc' = [pc EXCEPT ![j] = to]
  BY DEF Healthy, Unhealthy, Rollback
<1> QED
  BY <1>1, <1>2, <1>3, <1>4, AfterKeepsIInv

\* What the rest of the machine does changes no promise.
LEMMA WorldKeepsIInv ==
  ASSUME IInv, UNCHANGED <<next, pc, queue, reserved, claims, planner>>,
         pub' \in [Stacks -> Publishes],
         foreign' \in [ForeignPorts -> {"none", "process", "container"}]
  PROVE  IInv'
<1>1. TypeOK'
  BY DEF IInv, TypeOK, planner
<1>2. \A k \in Jobs : /\ Claims(k)' = Claims(k) /\ Wanted(k)' = Wanted(k)
                     /\ Promised(k)' = Promised(k)
  BY DEF Claims, Wanted, Decl, Promised, planner
<1> QED
  BY <1>1, <1>2 DEF IInv, NotBegun, LockHeld, NothingClaimedYet, PromisesReserved,
     PlannerKnows, TakeoverUnclaimed, PromisesDisjoint, planner

LEMMA StartKeepsIInv == ASSUME IInv, NEW j \in Jobs, Start(j) PROVE IInv'
<1>1. CASE Plan(j)
  <2>1. CASE NothingToPick(j) \/ PoolIsFull(j)
    <3>1. pc[j] \in PlanningAt /\ Die(j)
      BY <2>1 DEF NothingToPick, PoolIsFull, PlanningAt
    <3> QED
      BY <3>1, Holder, DieKeepsIInv
  <2> QED
    BY <1>1, <2>1, ListKeepsIInv, PickKeepsIInv, OpenKeepsIInv, TakeWantedKeepsIInv,
       StopTwinKeepsIInv, RelistKeepsIInv, RecheckKeepsIInv, LeaveWantedKeepsIInv,
       ScanPoolKeepsIInv DEF Plan
<1> QED
  BY <1>1, BeginKeepsIInv, UpKeepsIInv, HealthKeepsIInv DEF Start

LEMMA NextKeepsIInv == IInv /\ [Next]_vars => IInv'
<1> SUFFICES ASSUME IInv, [Next]_vars PROVE IInv'
  OBVIOUS
<1>1. CASE \E j \in Jobs : Start(j)
  BY <1>1, StartKeepsIInv
<1>2. CASE \E p \in ForeignPorts : ForeignArrives(p) \/ ForeignLeaves(p)
  BY <1>2, WorldKeepsIInv DEF ForeignArrives, ForeignLeaves, IInv, TypeOK
<1>3. CASE \E a \in App : StackDies(a)
  BY <1>3, WorldKeepsIInv DEF StackDies, IInv, TypeOK, Publishes
<1>4. CASE BatchDone \/ UNCHANGED vars
  BY <1>4, WorldKeepsIInv DEF BatchDone, vars, planner, world, IInv, TypeOK
<1> QED
  BY <1>1, <1>2, <1>3, <1>4 DEF Next

(***************************************************************************)
(* The theorems.                                                           *)
(***************************************************************************)

\* The variables keep their types, for every batch and every machine.
THEOREM TypeCorrect == Spec => []TypeOK
<1>1. IInv => TypeOK
  BY DEF IInv
<1> QED
  BY <1>1, InitIInv, NextKeepsIInv, PTL DEF Spec

\* Whatever the batch, the machine and docker do, no host port is ever promised
\* to two starts of one command: withPortLock and RESERVED_PORTS do their job.
THEOREM NoPortPromisedTwice == Spec => []PromisesDisjoint
<1>1. IInv => PromisesDisjoint
  BY DEF IInv
<1> QED
  BY <1>1, InitIInv, NextKeepsIInv, PTL DEF Spec

(***************************************************************************)
(* The invariant.                                                          *)
(***************************************************************************)

\* No port is published by two stacks.
Apart == \A s, t \in Stacks : s # t => PortsOf(pub[s]) \cap PortsOf(pub[t]) = {}

\* The listing a plan works from was true once, so neither does it show any.
SnapApart == \A s, t \in Stacks :
  s # t => PortsOf(snap.stacks[s]) \cap PortsOf(snap.stacks[t]) = {}

\* A twin is not started by this command: since the listing it may have gone.
TwinSnap == \A j \in Jobs : pc[j] \in PlanningAt => pub[Twin(j)] \in {snap.stacks[Twin(j)], {}}

Machine == Apart /\ SnapApart /\ TwinSnap

\* What the listing shows as this stack's own, nobody else has taken since...
OwnSince == \A j \in Jobs : pc[j] \in PlanningAt =>
  \A s \in Stacks \ {Self(j)} : PortsOf(snap.stacks[Self(j)]) \cap PortsOf(pub[s]) = {}

\* ...because it was promised to nobody else.
OwnUnpromised == \A j, k \in Jobs : pc[j] \in PlanningAt /\ Promised(k) /\ Self(k) # Self(j) =>
  Claims(k) \cap PortsOf(snap.stacks[Self(j)]) = {}

Sight == PromiseNotTaken /\ OwnSince /\ OwnUnpromised

(***************************************************************************)
(* Four kinds of step.                                                     *)
(***************************************************************************)

\* No claim changes, and nobody gets a promise but the one of nothing.
NoPromise == /\ claims' = claims
             /\ \A k \in Jobs : Promised(k)' => Promised(k) \/ claims[k] = <<>>

\* Nothing happens to any stack but t: it may be taken down, or a start of it
\* may lose its promise.
Clears(t) ==
  /\ NoPromise
  /\ snap' = snap
  /\ \A s \in Stacks : pub'[s] = pub[s] \/ (s = t /\ pub'[s] = {})
  /\ \A k \in Jobs : pc'[k] \in PlanningAt => pc[k] \in PlanningAt
  /\ \A k \in Jobs : Self(k) # t /\ Promised(k) => Promised(k)'

\* Docker is asked for a listing.
Looks ==
  /\ NoPromise
  /\ TakeSnapshot
  /\ pub' = pub
  /\ \A k \in Jobs : pc'[k] \in PlanningAt => pc[k] \in PlanningAt \/ claims[k] = <<>>
  /\ \A k \in Jobs : Promised(k) => Promised(k)'

\* A port that is free or this stack's own is promised.
Promises(j, p) ==
  /\ pc[j] \in {"planning", "recheck"}
  /\ p \notin claimed
  /\ Free(p) \/ OwnHeld(j, p)
  /\ Claim(j, p)

Rests == UNCHANGED <<pc, claims, snap, pub>>

Kinds == \/ Rests \/ Looks
         \/ \E t \in Stacks : Clears(t)
         \/ \E j \in Jobs : Up(j) \/ \E p \in Nat : Promises(j, p)

LEMMA StackOf == \A j \in Jobs : Self(j) \in Stacks /\ Twin(j) \in Stacks /\ Self(j) # Twin(j)
BY BatchAssumption DEF Self, Twin, Stacks, AppOf, Jobs

LEMMA DieClears ==
  ASSUME IInv, NEW j \in Jobs, Die(j)
  PROVE  Clears(Self(j))
<1>1. pc' = [pc EXCEPT ![j] = "failed"] /\ UNCHANGED <<claims, snap, pub>>
  BY DEF Die, planner, world
<1>2. pc'[j] = "failed" /\ \A k \in Jobs \ {j} : pc'[k] = pc[k]
  BY <1>1 DEF IInv, TypeOK
<1> QED
  BY <1>1, <1>2 DEF Clears, NoPromise, Promised, PlanningAt

\* A start that moves from one stage to another, neither of them a planner's or
\* both, and leaves claims, listing and stacks alone.
LEMMA MoveClears ==
  ASSUME IInv, NEW j \in Jobs, NEW to \in Stage, pc' = [pc EXCEPT ![j] = to],
         UNCHANGED <<claims, snap>>,
         \A s \in Stacks : pub'[s] = pub[s] \/ (s = Self(j) /\ pub'[s] = {}),
         to \in PlanningAt => pc[j] \in PlanningAt,
         to # "up"
  PROVE  Clears(Self(j))
<1>1. pc'[j] = to /\ \A k \in Jobs \ {j} : pc'[k] = pc[k]
  BY DEF IInv, TypeOK
<1> QED
  BY <1>1 DEF Clears, NoPromise, Promised

LEMMA ListLooks ==
  ASSUME IInv, NEW j \in Jobs, List(j), ~Die(j)
  PROVE  Looks
<1>1. /\ TakeSnapshot /\ UNCHANGED <<claims, pub>> /\ pc[j] = "queued"
      /\ pc' = [pc EXCEPT ![j] = IF Mode = "solo" /\ Requested = NoPort
                                 THEN "picking" ELSE "listed"]
  BY DEF List, world
<1>2. claims[j] = <<>> /\ pc'[j] \in {"picking", "listed"} /\ \A k \in Jobs \ {j} : pc'[k] = pc[k]
  BY <1>1 DEF IInv, TypeOK, NothingClaimedYet
<1> QED
  BY <1>1, <1>2 DEF Looks, NoPromise, Promised, PlanningAt

LEMMA RelistLooks ==
  ASSUME IInv, NEW j \in Jobs, Relist(j), ~Die(j)
  PROVE  Looks
<1>1. TakeSnapshot /\ UNCHANGED <<claims, pub>> /\ pc[j] = "relist" /\ pc' = [pc EXCEPT ![j] = "recheck"]
  BY DEF Relist, world
<1>2. pc'[j] = "recheck" /\ \A k \in Jobs \ {j} : pc'[k] = pc[k]
  BY <1>1 DEF IInv, TypeOK
<1> QED
  BY <1>1, <1>2 DEF Looks, NoPromise, Promised, PlanningAt

\* A takeover is never of the stack itself, and of one stack only.
LEMMA TakeoverOfTwin ==
  ASSUME IInv, Machine, NEW j \in Jobs, MayTakeOver(j)
  PROVE  Holders(Wanted(j)) = {Twin(j)}
<1> DEFINE p == Wanted(j)
<1>1. /\ p \notin claimed /\ ~OwnHeld(j, p) /\ SameAppHeld(j, p)
  BY DEF MayTakeOver, MayTake
<1>2. /\ Holders(p) # {} /\ Holders(p) \subseteq {Self(j), Twin(j)} /\ p \notin snap.others
  BY <1>1 DEF SameAppHeld, HeldOnlyBy
<1>3. Twin(j) \in Holders(p)
  BY <1>1, <1>2 DEF OwnHeld, HeldOnlyBy
<1>4. Self(j) \notin Holders(p)
  BY <1>3, StackOf DEF Holders, Machine, SnapApart
<1> QED
  BY <1>2, <1>3, <1>4

LEMMA StopTwinClears ==
  ASSUME IInv, Machine, NEW j \in Jobs, StopTwin(j)
  PROVE  Clears(Twin(j))
<1>1. /\ pc[j] = "planning" /\ pc' = [pc EXCEPT ![j] = "relist"] /\ UNCHANGED <<claims, snap>>
      /\ Holders(Wanted(j)) = {Twin(j)}
  BY TakeoverOfTwin DEF StopTwin, planner
<1>2. pc'[j] = "relist" /\ \A k \in Jobs \ {j} : pc'[k] = pc[k]
  BY <1>1 DEF IInv, TypeOK
<1>3. \A s \in Stacks : pub'[s] = pub[s] \/ (s = Twin(j) /\ pub'[s] = {})
  BY <1>1 DEF StopTwin
<1> QED
  BY <1>1, <1>2, <1>3 DEF Clears, NoPromise, Promised, PlanningAt

LEMMA PlanKinds ==
  ASSUME IInv, Machine, NEW j \in Jobs, Plan(j)
  PROVE  Kinds
<1>1. CASE Die(j)
  BY <1>1, DieClears, StackOf DEF Kinds
<1>2. CASE List(j) /\ ~Die(j)
  BY <1>2, ListLooks DEF Kinds
<1>3. CASE Relist(j) /\ ~Die(j)
  BY <1>3, RelistLooks DEF Kinds
<1>4. CASE StopTwin(j)
  BY <1>4, StopTwinClears, StackOf DEF Kinds
<1>5. CASE \E to \in {"picking", "listed", "planning"} :
             /\ pc[j] \in PlanningAt /\ pc' = [pc EXCEPT ![j] = to]
             /\ UNCHANGED <<claims, snap, pub>>
  BY <1>5, MoveClears, StackOf DEF Kinds, Stage, PlanningAt
<1>6. CASE pc' = pc /\ UNCHANGED <<claims, snap, pub>>
  BY <1>6 DEF Kinds, Rests
<1>7. CASE \E p \in Nat : Promises(j, p)
  BY <1>7 DEF Kinds
<1>8. Wanted(j) \in Nat
  BY WantedIsNat DEF IInv
<1>9. cursor \in 1..PORT_FALLBACK_SPAN => PoolPort(cursor) \in Nat
  BY PoolPortIsNat, PortMapAssumption
<1>10. CASE Pick(j)
  BY <1>5, <1>6, <1>10 DEF Pick, PlanningAt, world
<1>11. CASE Open(j)
  BY <1>5, <1>11 DEF Open, PlanningAt, world
<1>12. CASE TakeWanted(j)
  BY <1>7, <1>8, <1>12 DEF TakeWanted, Promises, MayTake
<1>13. CASE Recheck(j)
  <2>1. CASE Free(Wanted(j)) /\ Claim(j, Wanted(j))
    BY <1>7, <1>8, <1>13, <2>1 DEF Recheck, Promises, IInv, TakeoverUnclaimed
  <2> QED
    BY <1>5, <1>13, <2>1 DEF Recheck, PlanningAt, world
<1>14. CASE LeaveWanted(j)
  BY <1>6, <1>14 DEF LeaveWanted, world
<1>15. CASE ScanPool(j)
  <2>1. CASE PoolFits(j, PoolPort(cursor)) /\ Claim(j, PoolPort(cursor))
    BY <1>7, <1>9, <1>15, <2>1 DEF ScanPool, Promises, PoolFits, Ours
  <2> QED
    BY <1>6, <1>15, <2>1 DEF ScanPool, world
<1> QED
  BY <1>1, <1>2, <1>3, <1>4, <1>10, <1>11, <1>12, <1>13, <1>14, <1>15
     DEF Plan, NothingToPick, PoolIsFull

LEMMA StepKinds ==
  ASSUME IInv, Machine, [Next]_vars
  PROVE  Kinds
<1>1. ASSUME NEW j \in Jobs, Start(j) PROVE Kinds
  <2>1. CASE Plan(j)
    BY <2>1, PlanKinds
  <2>2. CASE Up(j)
    BY <2>2 DEF Kinds
  <2>3. CASE Begin(j)
    <3>1. \/ pc' = [pc EXCEPT ![j] = "failed"]
          \/ pc' = [pc EXCEPT ![j] = "queued"]
      BY <2>3 DEF Begin
    <3>2. \E to \in Stage \ (PlanningAt \cup {"up"}) : pc' = [pc EXCEPT ![j] = to]
      BY <3>1 DEF Stage, Settled, PlanningAt
    <3>3. UNCHANGED <<claims, snap, pub>>
      BY <2>3 DEF Begin, planner, world
    <3> QED
      BY <3>2, <3>3, MoveClears, StackOf DEF Kinds
  <2>4. CASE Healthy(j) \/ Unhealthy(j) \/ Rollback(j)
    <3>1. \E to \in Stage \ (PlanningAt \cup {"up"}) : pc' = [pc EXCEPT ![j] = to]
      BY <2>4 DEF Healthy, Unhealthy, Rollback, Stage, Settled, PlanningAt
    <3>2. UNCHANGED <<claims, snap>>
      BY <2>4 DEF Healthy, Unhealthy, Rollback, planner
    <3>3. \A s \in Stacks : pub'[s] = pub[s] \/ (s = Self(j) /\ pub'[s] = {})
      BY <2>4 DEF Healthy, Unhealthy, Rollback, world, IInv, TypeOK
    <3> QED
      BY <3>1, <3>2, <3>3, MoveClears, StackOf DEF Kinds
  <2> QED
    BY <1>1, <2>1, <2>2, <2>3, <2>4 DEF Start
<1>2. ASSUME NEW a \in App, StackDies(a) PROVE Kinds
  <2>1. /\ pub' = [pub EXCEPT ![<<a, "self">>] = {}] /\ <<a, "self">> \in Stacks
        /\ UNCHANGED <<pc, claims, snap>>
    BY <1>2 DEF StackDies, planner, Stacks
  <2>2. Clears(<<a, "self">>)
    BY <2>1 DEF Clears, NoPromise, Promised, IInv, TypeOK
  <2> QED
    BY <2>1, <2>2 DEF Kinds
<1>3. CASE (\E p \in ForeignPorts : ForeignArrives(p) \/ ForeignLeaves(p)) \/ BatchDone \/ UNCHANGED vars
  BY <1>3 DEF ForeignArrives, ForeignLeaves, BatchDone, vars, planner, Kinds, Rests
<1> QED
  BY <1>1, <1>2, <1>3 DEF Next

(***************************************************************************)
(* What `up` leaves behind.                                                *)
(***************************************************************************)

\* Ports this stack had, or was promised and docker could bind.
LEMMA UpLeaves ==
  ASSUME IInv, NEW j \in Jobs, Up(j)
  PROVE  /\ \A s \in Stacks \ {Self(j)} : pub'[s] = pub[s]
         /\ \A p \in PortsOf(pub'[Self(j)]) :
              p \in PortsOf(pub[Self(j)]) \/ (p \in Claims(j) /\ ~Blocked(Self(j), p))
<1>1. PICK S \in Leftover(j) \cup {Planned(j)} :
        /\ pub' = [pub EXCEPT ![Self(j)] = S]
        /\ S = Planned(j) => S \in Leftover(j) \/ \A p \in Claims(j) : ~Blocked(Self(j), p)
  BY DEF Up
<1>2. \A e \in Planned(j) : e[2] \in Claims(j)
  BY DEF Planned, Claims
<1>3. \A e \in S : e \in pub[Self(j)] \/ (e \in Planned(j) /\ ~Blocked(Self(j), e[2]))
  <2>1. CASE S \in Leftover(j)
    <3>1. CASE Mode = "solo"
      BY <2>1, <3>1 DEF Leftover
    <3>2. CASE Mode # "solo"
      BY <2>1, <3>2 DEF Leftover
    <3> QED
      BY <3>1, <3>2
  <2>2. CASE S = Planned(j) /\ S \notin Leftover(j)
    BY <1>1, <1>2, <2>2
  <2> QED
    BY <1>1, <2>1, <2>2
<1>4. pub'[Self(j)] = S
  BY <1>1, StackOf DEF IInv, TypeOK
<1>5. \A s \in Stacks \ {Self(j)} : pub'[s] = pub[s]
  BY <1>1 DEF IInv, TypeOK
<1> QED
  BY <1>2, <1>3, <1>4, <1>5 DEF PortsOf

\* What an `up` binds, no other stack publishes.
LEMMA Bindable ==
  ASSUME NEW s \in Stacks, NEW t \in Stacks, s # t, NEW p, ~Blocked(s, p)
  PROVE  p \notin PortsOf(pub[t])
BY DEF Blocked

(***************************************************************************)
(* The machine.                                                            *)
(***************************************************************************)

LEMMA InitMachine == Init => Machine
<1> SUFFICES ASSUME Init PROVE Machine
  OBVIOUS
<1>1. \A s, t \in Stacks : s # t => PortsOf(pub[s]) \cap PortsOf(pub[t]) = {}
  <2> SUFFICES ASSUME NEW s \in Stacks, NEW t \in Stacks, s # t,
                      NEW p \in PortsOf(pub[s]), p \in PortsOf(pub[t])
               PROVE  FALSE
    OBVIOUS
  <2>1. PICK d \in pub[s], e \in pub[t] : d[2] = p /\ e[2] = p
    BY DEF PortsOf
  <2>2. pub \in InitialStacks
    BY DEF Init
  <2> QED
    BY <2>1, <2>2, StacksAssumption
<1>2. snap.stacks = pub
  BY DEF Init
<1>3. \A j \in Jobs : pc[j] \notin PlanningAt
  BY DEF Init, PlanningAt
<1> QED
  BY <1>1, <1>2, <1>3 DEF Machine, Apart, SnapApart, TwinSnap

LEMMA UpKeepsMachine ==
  ASSUME IInv, Machine, NEW j \in Jobs, Up(j)
  PROVE  Machine'
<1>1. /\ \A s \in Stacks \ {Self(j)} : pub'[s] = pub[s]
      /\ \A p \in PortsOf(pub'[Self(j)]) :
           p \in PortsOf(pub[Self(j)]) \/ (p \in Claims(j) /\ ~Blocked(Self(j), p))
  BY UpLeaves
<1>2. snap' = snap /\ \A k \in Jobs : pc'[k] \in PlanningAt => pc[k] \in PlanningAt
  BY DEF Up, planner, IInv, TypeOK, PlanningAt
<1>3. ASSUME NEW t \in Stacks, t # Self(j)
      PROVE  PortsOf(pub'[Self(j)]) \cap PortsOf(pub'[t]) = {}
  <2>1. PortsOf(pub'[t]) = PortsOf(pub[t])
    BY <1>1, <1>3 DEF PortsOf
  <2>2. PortsOf(pub[Self(j)]) \cap PortsOf(pub[t]) = {}
    BY <1>3, StackOf DEF Machine, Apart
  <2> QED
    BY <1>1, <1>3, <2>1, <2>2, Bindable, StackOf
<1>4. Apart'
  <2> SUFFICES ASSUME NEW s \in Stacks, NEW t \in Stacks, s # t
               PROVE  PortsOf(pub'[s]) \cap PortsOf(pub'[t]) = {}
    BY DEF Apart, PortsOf
  <2>1. CASE s # Self(j) /\ t # Self(j)
    BY <1>1, <2>1 DEF Machine, Apart
  <2> QED
    BY <1>3, <2>1
<1>5. TwinSnap'
  <2>1. \A k \in Jobs : Twin(k) # Self(j)
    BY DEF Twin, Self
  <2>2. \A k \in Jobs : pub'[Twin(k)] = pub[Twin(k)]
    BY <1>1, <2>1, StackOf
  <2>3. \A k \in Jobs : Twin(k)' = Twin(k)
    BY DEF Twin, AppOf
  <2> QED
    BY <1>2, <2>2, <2>3 DEF Machine, TwinSnap
<1> QED
  BY <1>2, <1>4, <1>5 DEF Machine, SnapApart, PortsOf

LEMMA KindKeepsMachine ==
  ASSUME IInv, Machine, Kinds
  PROVE  Machine'
<1>1. CASE Rests
  BY <1>1 DEF Rests, Machine, Apart, SnapApart, TwinSnap, PortsOf, Twin, AppOf
<1>2. CASE Looks
  BY <1>2 DEF Looks, TakeSnapshot, Machine, Apart, SnapApart, TwinSnap, PortsOf, Twin, AppOf
<1>3. ASSUME NEW u \in Stacks, Clears(u) PROVE Machine'
  <2>1. \A s \in Stacks : pub'[s] = pub[s] \/ pub'[s] = {}
    BY <1>3 DEF Clears
  <2>2. Apart'
    BY <2>1 DEF Machine, Apart, PortsOf
  <2>3. TwinSnap'
    BY <1>3, <2>1, StackOf DEF Clears, Machine, TwinSnap, Twin, AppOf
  <2> QED
    BY <1>3, <2>2, <2>3 DEF Clears, Machine, SnapApart, PortsOf
<1>4. ASSUME NEW j \in Jobs, NEW p \in Nat, Promises(j, p) PROVE Machine'
  <2>1. UNCHANGED <<snap, pub>>
    BY <1>4 DEF Promises, Claim, world
  <2>2. \A k \in Jobs : pc'[k] \in PlanningAt => pc[k] \in PlanningAt
    BY <1>4 DEF Promises, Claim, IInv, TypeOK, PlanningAt
  <2> QED
    BY <2>1, <2>2 DEF Machine, Apart, SnapApart, TwinSnap, PortsOf, Twin, AppOf
<1> QED
  BY <1>1, <1>2, <1>3, <1>4, UpKeepsMachine DEF Kinds

LEMMA NextKeepsMachine == IInv /\ Machine /\ [Next]_vars => Machine'
BY StepKinds, KindKeepsMachine

(***************************************************************************)
(* What planning sees.                                                     *)
(***************************************************************************)

LEMMA InitSight == Init => Sight
BY DEF Init, Sight, PromiseNotTaken, OwnSince, OwnUnpromised, Promised, PlanningAt

\* A port planning may promise is published by no other stack: either the probes
\* say so now, or the listing says it is this stack's own.
LEMMA SeenFree ==
  ASSUME ProbeSees, Sight, NEW j \in Jobs, NEW p, Promises(j, p), NEW s \in Stacks \ {Self(j)}
  PROVE  p \notin PortsOf(pub[s])
<1>1. CASE Free(p)
  BY <1>1 DEF Free, Answers
<1>2. CASE OwnHeld(j, p)
  <2>1. p \in PortsOf(snap.stacks[Self(j)])
    BY <1>2 DEF OwnHeld, HeldOnlyBy, Holders
  <2>2. pc[j] \in PlanningAt
    BY DEF Promises, PlanningAt
  <2> QED
    BY <2>1, <2>2 DEF Sight, OwnSince
<1> QED
  BY <1>1, <1>2 DEF Promises

LEMMA PromiseKeepsSight ==
  ASSUME ProbeSees, IInv, Sight, NEW j \in Jobs, NEW p \in Nat, Promises(j, p)
  PROVE  Sight'
<1>1. /\ UNCHANGED <<snap, pub>> /\ claims' = [claims EXCEPT ![j] = Append(@, p)]
      /\ pc[j] \in PlanningAt /\ Promised(j)
  BY DEF Promises, Claim, world, PlanningAt, Promised
<1>2. \A k \in Jobs \ {j} : pc'[k] = pc[k] /\ Claims(k)' = Claims(k)
  BY <1>1 DEF Promises, Claim, IInv, TypeOK, Claims
<1>3. \A k \in Jobs \ {j} : Promised(k)' = Promised(k)
  BY <1>2 DEF Promised
<1>4. Claims(j)' \subseteq Claims(j) \cup {p}
  <2>1. claims[j] \in Seq(Nat) /\ claims'[j] = Append(claims[j], p)
    BY <1>1 DEF IInv, TypeOK
  <2> QED
    BY <2>1 DEF Claims
<1>5. pc'[j] \in PlanningAt \cup {"up"}
  BY DEF Promises, Claim, IInv, TypeOK, PlanningAt
<1>6. \A k \in Jobs : Self(k)' = Self(k)
  BY DEF Self, AppOf
<1>7. PromiseNotTaken'
  <2> SUFFICES ASSUME NEW k \in Jobs, Promised(k)', NEW s \in Stacks \ {Self(k)}
               PROVE  Claims(k)' \cap PortsOf(pub[s]) = {}
    BY <1>1, <1>6 DEF PromiseNotTaken, PortsOf
  <2>1. CASE k # j
    BY <1>2, <1>3, <2>1 DEF Sight, PromiseNotTaken
  <2>2. CASE k = j
    <3>1. Claims(j) \cap PortsOf(pub[s]) = {}
      BY <1>1, <2>2 DEF Sight, PromiseNotTaken
    <3>2. p \notin PortsOf(pub[s])
      BY <2>2, SeenFree
    <3> QED
      BY <1>4, <2>2, <3>1, <3>2
  <2> QED
    BY <2>1, <2>2
<1>8. OwnSince'
  BY <1>1, <1>2, <1>6 DEF Sight, OwnSince, PortsOf
<1>9. OwnUnpromised'
  <2> SUFFICES ASSUME NEW k \in Jobs, NEW l \in Jobs, pc'[k] \in PlanningAt, Promised(l)', Self(l) # Self(k)
               PROVE  Claims(l)' \cap PortsOf(snap.stacks[Self(k)]) = {}
    BY <1>1, <1>6 DEF OwnUnpromised, PortsOf
  <2>1. pc[k] \in PlanningAt
    BY <1>1, <1>2
  <2>2. k = j /\ l # j
    BY <1>1, <2>1, Holder
  <2> QED
    BY <1>2, <1>3, <2>1, <2>2 DEF Sight, OwnUnpromised
<1> QED
  BY <1>7, <1>8, <1>9 DEF Sight

LEMMA UpKeepsSight ==
  ASSUME IInv, Sight, NEW j \in Jobs, Up(j)
  PROVE  Sight'
<1>1. /\ \A s \in Stacks \ {Self(j)} : pub'[s] = pub[s]
      /\ PortsOf(pub'[Self(j)]) \subseteq PortsOf(pub[Self(j)]) \cup Claims(j)
  BY UpLeaves
<1>2. /\ UNCHANGED <<snap, claims>> /\ Promised(j)
      /\ \A k \in Jobs : (pc'[k] \in PlanningAt => pc[k] \in PlanningAt) /\ (Promised(k)' => Promised(k) /\ k # j)
  BY DEF Up, planner, IInv, TypeOK, PlanningAt, Promised
<1>3. \A k \in Jobs : Claims(k)' = Claims(k) /\ Self(k)' = Self(k)
  BY <1>2 DEF Claims, Self, AppOf
<1>4. PromiseNotTaken'
  <2> SUFFICES ASSUME NEW k \in Jobs, Promised(k), k # j, NEW s \in Stacks \ {Self(k)}
               PROVE  Claims(k) \cap PortsOf(pub'[s]) = {}
    BY <1>2, <1>3 DEF PromiseNotTaken, PortsOf
  <2>1. Claims(k) \cap PortsOf(pub[s]) = {}
    BY DEF Sight, PromiseNotTaken
  <2>2. Claims(k) \cap Claims(j) = {}
    BY <1>2 DEF IInv, PromisesDisjoint
  <2>3. CASE s # Self(j)
    BY <1>1, <2>1, <2>3
  <2>4. CASE s = Self(j)
    BY <1>1, <2>1, <2>2, <2>4
  <2> QED
    BY <2>3, <2>4
<1>5. OwnSince'
  <2> SUFFICES ASSUME NEW k \in Jobs, pc[k] \in PlanningAt, NEW s \in Stacks \ {Self(k)}
               PROVE  PortsOf(snap.stacks[Self(k)]) \cap PortsOf(pub'[s]) = {}
    BY <1>2, <1>3 DEF OwnSince, PortsOf
  <2>1. PortsOf(snap.stacks[Self(k)]) \cap PortsOf(pub[s]) = {}
    BY DEF Sight, OwnSince
  <2>2. CASE s # Self(j)
    BY <1>1, <2>1, <2>2
  <2>3. CASE s = Self(j)
    <3>1. Claims(j) \cap PortsOf(snap.stacks[Self(k)]) = {}
      BY <1>2, <2>3 DEF Sight, OwnUnpromised
    <3> QED
      BY <1>1, <2>1, <2>3, <3>1
  <2> QED
    BY <2>2, <2>3
<1>6. OwnUnpromised'
  BY <1>2, <1>3 DEF Sight, OwnUnpromised, PortsOf
<1> QED
  BY <1>4, <1>5, <1>6 DEF Sight

LEMMA KindKeepsSight ==
  ASSUME ProbeSees, IInv, Machine, Sight, Kinds
  PROVE  Sight'
<1>1. CASE Rests
  <2>1. \A k \in Jobs : Claims(k)' = Claims(k) /\ Self(k)' = Self(k) /\ Promised(k)' = Promised(k)
    BY <1>1 DEF Rests, Claims, Self, AppOf, Promised
  <2> QED
    BY <1>1, <2>1 DEF Rests, Sight, PromiseNotTaken, OwnSince, OwnUnpromised, PortsOf
<1>2. ASSUME NoPromise
      PROVE  \A k \in Jobs : /\ Claims(k)' = Claims(k) /\ Self(k)' = Self(k)
                             /\ Promised(k)' => Promised(k) \/ Claims(k) = {}
  BY <1>2 DEF NoPromise, Claims, Self, AppOf
<1>3. CASE Looks
  <2>1. /\ \A s \in Stacks : PortsOf(snap'.stacks[s]) = PortsOf(pub[s]) /\ PortsOf(pub'[s]) = PortsOf(pub[s])
        /\ \A k \in Jobs : /\ Claims(k)' = Claims(k) /\ Self(k)' = Self(k)
                           /\ Promised(k)' => Promised(k) \/ Claims(k) = {}
    BY <1>2, <1>3 DEF Looks, TakeSnapshot
  <2>2. ASSUME NEW k \in Jobs, Promised(k)', NEW s \in Stacks \ {Self(k)}
        PROVE  Claims(k) \cap PortsOf(pub[s]) = {}
    <3>1. CASE Promised(k)
      BY <2>2, <3>1 DEF Sight, PromiseNotTaken
    <3>2. CASE Claims(k) = {}
      BY <3>2
    <3> QED
      BY <2>1, <2>2, <3>1, <3>2
  <2>3. PromiseNotTaken'
    <3> SUFFICES ASSUME NEW k \in Jobs, Promised(k)', NEW s \in Stacks \ {Self(k)'}
                 PROVE  Claims(k)' \cap PortsOf(pub'[s]) = {}
      BY DEF PromiseNotTaken, PortsOf
    <3> QED
      BY <2>1, <2>2
  <2>4. OwnSince'
    <3> SUFFICES ASSUME NEW k \in Jobs, NEW s \in Stacks \ {Self(k)'}
                 PROVE  PortsOf(snap'.stacks[Self(k)']) \cap PortsOf(pub'[s]) = {}
      BY DEF OwnSince, PortsOf
    <3> QED
      BY <2>1, StackOf DEF Machine, Apart
  <2>5. OwnUnpromised'
    <3> SUFFICES ASSUME NEW k \in Jobs, NEW l \in Jobs, Promised(l)', Self(l)' # Self(k)'
                 PROVE  Claims(l)' \cap PortsOf(snap'.stacks[Self(k)']) = {}
      BY DEF OwnUnpromised, PortsOf
    <3> QED
      BY <2>1, <2>2, StackOf
  <2> QED
    BY <2>3, <2>4, <2>5 DEF Sight
<1>4. ASSUME NEW u \in Stacks, Clears(u) PROVE Sight'
  <2>1. /\ snap' = snap /\ \A k \in Jobs : pc'[k] \in PlanningAt => pc[k] \in PlanningAt
        /\ \A s \in Stacks : PortsOf(pub'[s]) \subseteq PortsOf(pub[s])
        /\ \A k \in Jobs : /\ Claims(k)' = Claims(k) /\ Self(k)' = Self(k)
                           /\ Promised(k)' => Promised(k) \/ Claims(k) = {}
    BY <1>2, <1>4 DEF Clears, PortsOf
  <2>2. PromiseNotTaken'
    <3> SUFFICES ASSUME NEW k \in Jobs, Promised(k)', NEW s \in Stacks \ {Self(k)'}
                 PROVE  Claims(k)' \cap PortsOf(pub'[s]) = {}
      BY DEF PromiseNotTaken, PortsOf
    <3>1. CASE Promised(k)
      <4>1. Claims(k) \cap PortsOf(pub[s]) = {}
        BY <2>1, <3>1 DEF Sight, PromiseNotTaken
      <4> QED
        BY <2>1, <4>1
    <3>2. CASE Claims(k) = {}
      BY <2>1, <3>2
    <3> QED
      BY <2>1, <3>1, <3>2
  <2>3. OwnSince'
    <3> SUFFICES ASSUME NEW k \in Jobs, pc'[k] \in PlanningAt, NEW s \in Stacks \ {Self(k)'}
                 PROVE  PortsOf(snap'.stacks[Self(k)']) \cap PortsOf(pub'[s]) = {}
      BY DEF OwnSince, PortsOf
    <3> QED
      BY <2>1 DEF Sight, OwnSince
  <2>4. OwnUnpromised'
    <3> SUFFICES ASSUME NEW k \in Jobs, NEW l \in Jobs, pc'[k] \in PlanningAt, Promised(l)', Self(l)' # Self(k)'
                 PROVE  Claims(l)' \cap PortsOf(snap'.stacks[Self(k)']) = {}
      BY DEF OwnUnpromised, PortsOf
    <3>1. CASE Promised(l)
      BY <2>1, <3>1 DEF Sight, OwnUnpromised
    <3>2. CASE Claims(l) = {}
      BY <2>1, <3>2
    <3> QED
      BY <2>1, <3>1, <3>2
  <2> QED
    BY <2>2, <2>3, <2>4 DEF Sight
<1> QED
  BY <1>1, <1>3, <1>4, PromiseKeepsSight, UpKeepsSight DEF Kinds

LEMMA NextKeepsSight == ProbeSees /\ IInv /\ Machine /\ Sight /\ [Next]_vars => Sight'
BY StepKinds, KindKeepsSight

(***************************************************************************)
(* The lease.                                                              *)
(***************************************************************************)

Has(s, p) == p \in PortsOf(pub[s]) \/ \E j \in Jobs : s = Self(j) /\ Promised(j) /\ p \in Claims(j)

LEMMA LeasesAre == Leases = {l \in Stacks \X AllPorts : Has(l[1], l[2])}
BY DEF Leases, Has

LEMMA LeasesWillBe == Leases' = {l \in Stacks \X AllPorts : Has(l[1], l[2])'}
BY DEF Leases, Has, Self, AppOf

\* A step after which a stack has nothing it did not have, and all but t have what
\* they had, vacates.
LEMMA Vacates ==
  ASSUME NEW t \in Stacks,
         \A s \in Stacks, p \in AllPorts : Has(s, p)' => Has(s, p),
         \A s \in Stacks \ {t}, p \in AllPorts : Has(s, p) => Has(s, p)'
  PROVE  Lease!Vacate(t)
<1> DEFINE S == {l \in Leases : l[1] = t /\ l \notin Leases'}
<1>1. S \in SUBSET {l \in Leases : l[1] = t}
  OBVIOUS
<1>2. Leases' = Leases \ S
  BY LeasesAre, LeasesWillBe
<1> QED
  BY <1>1, <1>2 DEF Lease!Vacate

LEMMA Stutters ==
  ASSUME \A s \in Stacks, p \in AllPorts : Has(s, p)' <=> Has(s, p)
  PROVE  Leases' = Leases
BY LeasesAre, LeasesWillBe

LEMMA ClearVacates ==
  ASSUME IInv, NEW t \in Stacks, Clears(t)
  PROVE  Lease!Vacate(t)
<1>1. \A k \in Jobs : Claims(k)' = Claims(k) /\ Self(k)' = Self(k)
  BY DEF Clears, NoPromise, Claims, Self, AppOf
<1>2. ASSUME NEW s \in Stacks, NEW p \in AllPorts, Has(s, p)' PROVE Has(s, p)
  <2>1. CASE p \in PortsOf(pub'[s])
    BY <2>1 DEF Clears, PortsOf, Has
  <2>2. ASSUME NEW j \in Jobs, s = Self(j), Promised(j)', p \in Claims(j) PROVE Has(s, p)
    <3>1. Promised(j)
      BY <2>2 DEF Clears, NoPromise, Claims
    <3> QED
      BY <2>2, <3>1 DEF Has
  <2> QED
    BY <1>1, <1>2, <2>1, <2>2 DEF Has, PortsOf
<1>3. ASSUME NEW s \in Stacks \ {t}, NEW p \in AllPorts, Has(s, p) PROVE Has(s, p)'
  <2>1. CASE p \in PortsOf(pub[s])
    BY <2>1 DEF Clears, PortsOf, Has
  <2>2. ASSUME NEW j \in Jobs, s = Self(j), Promised(j), p \in Claims(j) PROVE Has(s, p)'
    <3>1. Promised(j)'
      BY <2>2 DEF Clears
    <3> QED
      BY <1>1, <2>2, <3>1 DEF Has
  <2> QED
    BY <1>3, <2>1, <2>2 DEF Has
<1> QED
  BY <1>2, <1>3, Vacates

LEMMA LookStutters ==
  ASSUME IInv, Looks
  PROVE  Leases' = Leases
<1>1. pub' = pub /\ \A k \in Jobs : Claims(k)' = Claims(k) /\ Self(k)' = Self(k)
  BY DEF Looks, NoPromise, Claims, Self, AppOf
<1>2. ASSUME NEW s \in Stacks, NEW p \in AllPorts, Has(s, p)' PROVE Has(s, p)
  <2>1. CASE p \in PortsOf(pub[s])
    BY <2>1 DEF Has
  <2>2. ASSUME NEW j \in Jobs, s = Self(j), Promised(j)', p \in Claims(j) PROVE Has(s, p)
    <3>1. Promised(j)
      BY <2>2 DEF Looks, NoPromise, Claims
    <3> QED
      BY <2>2, <3>1 DEF Has
  <2> QED
    BY <1>1, <1>2, <2>1, <2>2 DEF Has, PortsOf
<1>3. ASSUME NEW s \in Stacks, NEW p \in AllPorts, Has(s, p) PROVE Has(s, p)'
  <2>1. CASE p \in PortsOf(pub[s])
    BY <1>1, <2>1 DEF PortsOf, Has
  <2>2. ASSUME NEW j \in Jobs, s = Self(j), Promised(j), p \in Claims(j) PROVE Has(s, p)'
    <3>1. Promised(j)'
      BY <2>2 DEF Looks
    <3> QED
      BY <1>1, <2>2, <3>1 DEF Has
  <2> QED
    BY <1>3, <2>1, <2>2 DEF Has
<1> QED
  BY <1>2, <1>3, Stutters

\* A promise is a grant: nobody else publishes the port or was promised it.
LEMMA PromiseGrants ==
  ASSUME ProbeSees, IInv, Sight, NEW j \in Jobs, NEW p \in Nat, Promises(j, p)
  PROVE  (\E q \in AllPorts : Lease!Grant(Self(j), q)) \/ Leases' = Leases
<1>1. /\ pub' = pub /\ claims' = [claims EXCEPT ![j] = Append(@, p)] /\ p \notin claimed
      /\ pc[j] \in {"planning", "recheck"} /\ Promised(j)
      /\ pc'[j] \in {"planning", "up"} /\ \A k \in Jobs \ {j} : pc'[k] = pc[k]
  BY DEF Promises, Claim, IInv, TypeOK, world, PlanningAt, Promised
<1>2. /\ \A k \in Jobs \ {j} : Claims(k)' = Claims(k) /\ Promised(k)' = Promised(k)
      /\ Claims(j)' = Claims(j) \cup {p} /\ Promised(j)' /\ \A k \in Jobs : Self(k)' = Self(k)
  <2>1. claims[j] \in Seq(Nat) /\ claims'[j] = Append(claims[j], p)
    BY <1>1 DEF IInv, TypeOK
  <2>2. DOMAIN claims'[j] = DOMAIN claims[j] \cup {Len(claims[j]) + 1}
    BY <2>1
  <2>3. claims'[j][Len(claims[j]) + 1] = p /\ \A i \in DOMAIN claims[j] : claims'[j][i] = claims[j][i]
    BY <2>1
  <2>4. Claims(j)' = Claims(j) \cup {p}
    BY <2>2, <2>3 DEF Claims
  <2>5. \A k \in Jobs \ {j} : Claims(k)' = Claims(k)
    BY <1>1 DEF Claims, IInv, TypeOK
  <2> QED
    BY <1>1, <2>4, <2>5 DEF Promised, PlanningAt, Self, AppOf
<1>3. ASSUME NEW t \in Stacks \ {Self(j)} PROVE ~Has(t, p)
  <2>1. p \notin PortsOf(pub[t])
    BY SeenFree
  <2>2. \A k \in Jobs : Promised(k) => p \notin Claims(k)
    BY <1>1 DEF IInv, PlannerKnows
  <2> QED
    BY <2>1, <2>2 DEF Has
<1>4. Self(j) \in Stacks /\ Has(Self(j), p)'
  BY <1>2, StackOf DEF Has
<1>5. ASSUME NEW s \in Stacks, NEW q \in AllPorts
      PROVE  Has(s, q)' <=> Has(s, q) \/ (s = Self(j) /\ q = p)
  <2>1. ASSUME Has(s, q) PROVE Has(s, q)'
    <3>1. CASE q \in PortsOf(pub[s])
      BY <1>1, <3>1 DEF Has, PortsOf
    <3>2. ASSUME NEW k \in Jobs, s = Self(k), Promised(k), q \in Claims(k) PROVE Has(s, q)'
      <4>1. Promised(k)' /\ q \in Claims(k)' /\ s = Self(k)'
        BY <1>2, <3>2
      <4> QED
        BY <4>1 DEF Has
    <3> QED
      BY <2>1, <3>1, <3>2 DEF Has
  <2>2. ASSUME Has(s, q)', ~(s = Self(j) /\ q = p) PROVE Has(s, q)
    <3>1. CASE q \in PortsOf(pub'[s])
      BY <1>1, <3>1 DEF Has
    <3>2. ASSUME NEW k \in Jobs, s = Self(k)', Promised(k)', q \in Claims(k)' PROVE Has(s, q)
      <4>1. s = Self(k) /\ q \in Claims(k) /\ Promised(k)
        BY <1>1, <1>2, <2>2, <3>2
      <4> QED
        BY <4>1 DEF Has
    <3> QED
      BY <2>2, <3>1, <3>2 DEF Has, PortsOf
  <2> QED
    BY <1>4, <2>1, <2>2
<1>6. CASE p \in AllPorts
  <2>0. ASSUME NEW l \in Stacks \X AllPorts
        PROVE  l \in Leases' <=> l \in Leases \/ l = <<Self(j), p>>
    <3>1. l[1] \in Stacks /\ l[2] \in AllPorts /\ l = <<l[1], l[2]>>
      OBVIOUS
    <3>2. Has(l[1], l[2])' <=> Has(l[1], l[2]) \/ (l[1] = Self(j) /\ l[2] = p)
      BY <1>5, <3>1
    <3> QED
      BY <3>1, <3>2, LeasesAre, LeasesWillBe
  <2>1. Leases' = Leases \cup {<<Self(j), p>>}
    BY <1>4, <1>6, <2>0, LeasesAre, LeasesWillBe
  <2>2. \A t \in Stacks \ {Self(j)} : <<t, p>> \notin Leases
    BY <1>3, LeasesAre
  <2> QED
    BY <1>6, <2>1, <2>2 DEF Lease!Grant
<1>7. CASE p \notin AllPorts
  BY <1>5, <1>7, Stutters
<1> QED
  BY <1>6, <1>7

\* What docker could not bind, or was not asked to, is given up.
LEMMA UpVacates ==
  ASSUME IInv, NEW j \in Jobs, Up(j)
  PROVE  Lease!Vacate(Self(j))
<1>1. /\ \A s \in Stacks \ {Self(j)} : pub'[s] = pub[s]
      /\ PortsOf(pub'[Self(j)]) \subseteq PortsOf(pub[Self(j)]) \cup Claims(j)
  BY UpLeaves
<1>2. /\ Promised(j) /\ \A k \in Jobs : Claims(k)' = Claims(k) /\ Self(k)' = Self(k)
      /\ \A k \in Jobs \ {j} : Promised(k)' = Promised(k)
      /\ ~Promised(j)'
  BY DEF Up, planner, IInv, TypeOK, PlanningAt, Promised, Claims, Self, AppOf
<1>3. ASSUME NEW s \in Stacks, NEW p \in AllPorts, Has(s, p)' PROVE Has(s, p)
  <2>1. CASE p \in PortsOf(pub'[s])
    BY <1>1, <1>2, <2>1 DEF Has
  <2>2. ASSUME NEW k \in Jobs, s = Self(k)', Promised(k)', p \in Claims(k)' PROVE Has(s, p)
    <3>1. s = Self(k) /\ p \in Claims(k) /\ Promised(k)
      BY <1>2, <2>2
    <3> QED
      BY <3>1 DEF Has
  <2> QED
    BY <1>3, <2>1, <2>2 DEF Has, PortsOf
<1>4. ASSUME NEW s \in Stacks \ {Self(j)}, NEW p \in AllPorts, Has(s, p) PROVE Has(s, p)'
  <2>1. CASE p \in PortsOf(pub[s])
    BY <1>1, <2>1 DEF Has, PortsOf
  <2>2. ASSUME NEW k \in Jobs, s = Self(k), Promised(k), p \in Claims(k) PROVE Has(s, p)'
    <3>1. s = Self(k)' /\ p \in Claims(k)' /\ Promised(k)'
      BY <1>2, <1>4, <2>2
    <3> QED
      BY <3>1 DEF Has
  <2> QED
    BY <1>4, <2>1, <2>2 DEF Has
<1> QED
  BY <1>3, <1>4, Vacates, StackOf

LEMMA RestStutters == Rests => Leases' = Leases
<1> SUFFICES ASSUME Rests PROVE \A s \in Stacks, p \in AllPorts : Has(s, p)' <=> Has(s, p)
  BY Stutters
<1>1. \A k \in Jobs : Claims(k)' = Claims(k) /\ Self(k)' = Self(k) /\ Promised(k)' = Promised(k)
  BY DEF Rests, Claims, Self, AppOf, Promised
<1> QED
  BY <1>1 DEF Rests, Has, PortsOf

LEMMA KindLeases ==
  ASSUME ProbeSees, IInv, Machine, Sight, Kinds
  PROVE  [Lease!Next]_Leases
BY RestStutters, LookStutters, ClearVacates, UpVacates, PromiseGrants, StackOf
   DEF Kinds, Lease!Next

LEMMA InitLeases == Init => Lease!Init
<1> SUFFICES ASSUME Init PROVE Lease!Init
  OBVIOUS
<1>1. \A j \in Jobs : ~Promised(j)
  BY DEF Init, Promised, PlanningAt
<1>2. \A l \in Leases : l[2] \in PortsOf(pub[l[1]]) /\ l \in Stacks \X AllPorts
  BY <1>1 DEF Leases
<1>3. \A l, m \in Leases : l[2] = m[2] => l[1] = m[1]
  BY <1>2, InitMachine DEF Machine, Apart
<1>4. \A l, m \in Leases : l[2] = m[2] => l = m
  BY <1>2, <1>3
<1> QED
  BY <1>2, <1>4 DEF Lease!Init

(***************************************************************************)
(* The theorems.                                                           *)
(***************************************************************************)

LEMMA InductiveMachine == Spec => [](IInv /\ Machine)
BY InitIInv, NextKeepsIInv, InitMachine, NextKeepsMachine, PTL DEF Spec

LEMMA InductiveSight == ASSUME ProbeSees PROVE Spec => [](IInv /\ Machine /\ Sight)
<1>1. IInv /\ Machine /\ Sight /\ [Next]_vars => Sight'
  BY NextKeepsSight
<1> QED
  BY <1>1, InitIInv, NextKeepsIInv, InitMachine, NextKeepsMachine, InitSight, PTL DEF Spec

\* Where the bind test or lsof sees what docker publishes, a port that is promised to
\* a start is published by no other stack until the start binds it, whatever the
\* listing it was chosen from had missed.
THEOREM PromisesHold == ASSUME ProbeSees PROVE Spec => []PromiseNotTaken
<1>1. Sight => PromiseNotTaken
  BY DEF Sight
<1> QED
  BY <1>1, InductiveSight, PTL

\* Under the same condition planning implements the lease.
THEOREM PlanningLeases == ASSUME ProbeSees PROVE Spec => LeasesPorts
<1>1. IInv /\ Machine /\ Sight /\ [Next]_vars => [Lease!Next]_Leases
  BY StepKinds, KindLeases
<1> QED
  BY <1>1, InitLeases, InductiveSight, PTL DEF Spec, LeasesPorts, Lease!Spec

\* What a step of a start does to stacks.
LEMMA StartTouches ==
  ASSUME IInv, Machine, NEW j \in Jobs, Start(j), NEW s \in Stacks, pub'[s] # pub[s]
  PROVE  \/ s = Self(j) /\ pc[j] \in {"up", "rollback"}
         \/ /\ s = Twin(j) /\ pc[j] = "planning" /\ Takeover
            /\ Wanted(j) \in PortsOf(pub[s])
<1>1. CASE StopTwin(j)
  <2>1. /\ pc[j] = "planning" /\ Takeover /\ Holders(Wanted(j)) = {Twin(j)}
    BY <1>1, TakeoverOfTwin DEF StopTwin, MayTakeOver
  <2>2. s = Twin(j) /\ pub[s] # {}
    BY <1>1, <2>1 DEF StopTwin
  <2>3. pub[s] = snap.stacks[s]
    BY <2>1, <2>2 DEF Machine, TwinSnap, PlanningAt
  <2>4. Wanted(j) \in PortsOf(snap.stacks[s])
    BY <2>1, <2>2 DEF Holders
  <2> QED
    BY <2>1, <2>2, <2>3, <2>4
<1>2. CASE Up(j)
  BY <1>2, UpLeaves DEF Up
<1>3. CASE Rollback(j)
  BY <1>3, StackOf DEF Rollback, IInv, TypeOK
<1>4. CASE Begin(j) \/ Healthy(j) \/ Unhealthy(j) \/ (Plan(j) /\ ~StopTwin(j))
  <2>1. pub' = pub
    BY <1>4 DEF Begin, Healthy, Unhealthy, Plan, List, Pick, NothingToPick, Open, TakeWanted,
       Relist, Recheck, LeaveWanted, ScanPool, PoolIsFull, Claim, Die, world
  <2> QED
    BY <2>1
<1> QED
  BY <1>1, <1>2, <1>3, <1>4 DEF Start

\* The stacks a start takes something from are its own and, for a port it wants and may
\* take over, its app's other one - whatever the probes see and docker does, as long as no
\* stack dies by itself.
THEOREM OnlyOwnStacks == ASSUME ~Crashes PROVE Spec => OthersLeftAlone
<1> DEFINE Only == \A s \in Stacks : pub'[s] # pub[s] =>
                     \E j \in Jobs : \/ s = Self(j) /\ pc[j] \in {"up", "rollback"}
                                     \/ s = Twin(j) /\ pc[j] = "planning" /\ Takeover
                                        /\ Wanted(j) \in PortsOf(pub[s])
<1>1. IInv /\ Machine /\ [Next]_vars => [Only]_vars
  <2> SUFFICES ASSUME IInv, Machine, Next PROVE Only
    OBVIOUS
  <2>1. CASE \E j \in Jobs : Start(j)
    BY <2>1, StartTouches
  <2>2. CASE ~\E j \in Jobs : Start(j)
    BY <2>2 DEF Next, ForeignArrives, ForeignLeaves, StackDies, BatchDone, vars
  <2> QED
    BY <2>1, <2>2
<1> QED
  BY <1>1, InductiveMachine, PTL DEF Spec, OthersLeftAlone

(***************************************************************************)
(* A machine to itself: nothing but bench stacks, each app once in the     *)
(* batch, home ports that differ, and no stack on another app's.           *)
(***************************************************************************)

MachineToItself ==
  /\ ForeignPorts = {} /\ ~DockerFails /\ Takeover /\ Mode = "compose" /\ Requested = NoPort
  /\ \A j, k \in Jobs : AppOf(j) = AppOf(k) => j = k
  /\ \A a, b \in App : \A i \in 1..Decls[a], k \in 1..Decls[b] :
       HomePort(a, i) = HomePort(b, k) => a = b /\ i = k
  /\ \A m \in InitialStacks : \A s \in Stacks : \A a \in App \ {s[1]} : \A i \in 1..Decls[a] :
       HomePort(a, i) \notin PortsOf(m[s])

PlansAt == {"planning", "relist", "recheck"}

\* One claim per declaration, and while a start plans there is one to come.
Within == \A j \in Jobs : /\ Len(claims[j]) <= Decls[AppOf(j)]
                          /\ pc[j] \in PlanningAt => Decl(j) <= Decls[AppOf(j)]

\* The walk never leaves the wanted port, which is home.
Aimed == \A j \in Jobs : /\ pc[j] # "picking"
                         /\ pc[j] \in PlansAt \cup {"listed"} => target = SlotPort(AppOf(j)) /\ cursor = 0

HomeOf == {HomePort(AppOf(t[1]), t[2]) : t \in {u \in Jobs \X (Nat \ {0}) : u[2] <= Len(claims[u[1]])}}
HomeReserved == claimed \subseteq HomeOf /\ reserved \subseteq HomeOf

\* No stack has, or was listed with, a home port of another app.
Owned == \A s \in Stacks : \A a \in App \ {s[1]} : \A i \in 1..Decls[a] :
           HomePort(a, i) \notin PortsOf(pub[s]) /\ HomePort(a, i) \notin PortsOf(snap.stacks[s])

SelfSnap == \A j \in Jobs : pc[j] \in PlanningAt => pub[Self(j)] \in {snap.stacks[Self(j)], {}}

\* After a takeover the port is nobody's, and the new listing says so.
TakenOver == \A j \in Jobs :
  /\ pc[j] \in {"relist", "recheck"} =>
       Wanted(j) \notin PortsOf(pub[Self(j)]) /\ Wanted(j) \notin PortsOf(pub[Twin(j)])
  /\ pc[j] = "recheck" =>
       Wanted(j) \notin PortsOf(snap.stacks[Self(j)]) /\ Wanted(j) \notin PortsOf(snap.stacks[Twin(j)])

Still == Within /\ Aimed /\ HomeReserved /\ Owned /\ SelfSnap /\ TakenOver /\ SameUrl

LEMMA JobTyped ==
  ASSUME IInv, NEW j \in Jobs
  PROVE  claims[j] \in Seq(Nat) /\ AppOf(j) \in App /\ Decls[AppOf(j)] \in Nat
<1>1. claims[j] \in Seq(Nat)
  BY DEF IInv, TypeOK
<1>2. AppOf(j) \in App
  BY BatchAssumption DEF AppOf, Jobs
<1> QED
  BY <1>1, <1>2, PortMapAssumption

LEMMA WantedIsHome ==
  ASSUME IInv, Still, NEW j \in Jobs, pc[j] \in PlansAt
  PROVE  /\ Wanted(j) = HomePort(AppOf(j), Decl(j)) /\ Decl(j) \in 1..Decls[AppOf(j)]
         /\ AppOf(j) \in App /\ Self(j) = <<AppOf(j), "self">> /\ Twin(j) = <<AppOf(j), "twin">>
<1>1. claims[j] \in Seq(Nat) /\ AppOf(j) \in App /\ Decls[AppOf(j)] \in Nat
  BY JobTyped
<1>2. Decl(j) \in Nat \ {0} /\ Decl(j) <= Decls[AppOf(j)]
  BY <1>1 DEF Still, Within, Decl, PlansAt, PlanningAt
<1>3. target = SlotPort(AppOf(j))
  BY DEF Still, Aimed
<1> QED
  BY <1>1, <1>2, <1>3 DEF Wanted, HomePort, Self, Twin

\* Nobody has claimed it.
LEMMA WantedUnclaimed ==
  ASSUME MachineToItself, IInv, Still, NEW j \in Jobs, pc[j] \in PlansAt
  PROVE  Wanted(j) \notin HomeOf
<1> SUFFICES ASSUME Wanted(j) \in HomeOf PROVE FALSE
  OBVIOUS
<1>1. PICK k \in Jobs, i \in Nat \ {0} : i <= Len(claims[k]) /\ Wanted(j) = HomePort(AppOf(k), i)
  BY DEF HomeOf
<1>2. claims[k] \in Seq(Nat) /\ AppOf(k) \in App /\ Decls[AppOf(k)] \in Nat /\ claims[j] \in Seq(Nat)
  BY JobTyped
<1>3. i \in 1..Decls[AppOf(k)]
  BY <1>1, <1>2 DEF Still, Within
<1>4. AppOf(k) = AppOf(j) /\ i = Decl(j)
  BY <1>1, <1>2, <1>3, WantedIsHome DEF MachineToItself
<1>5. k = j
  BY <1>4 DEF MachineToItself
<1> QED
  BY <1>1, <1>2, <1>4, <1>5 DEF Decl

\* Whoever holds it is a stack of the app, in the listing and in truth.
LEMMA WantedHolders ==
  ASSUME MachineToItself, IInv, Still, NEW j \in Jobs, pc[j] \in PlansAt, NEW s \in Stacks,
         Wanted(j) \in PortsOf(pub[s]) \/ Wanted(j) \in PortsOf(snap.stacks[s])
  PROVE  s \in {Self(j), Twin(j)}
<1>1. s[1] \in App /\ s[2] \in {"self", "twin"} /\ s = <<s[1], s[2]>>
  BY DEF Stacks
<1>2. s[1] = AppOf(j)
  BY WantedIsHome DEF Still, Owned
<1> QED
  BY <1>1, <1>2, WantedIsHome

LEMMA NoForeigner ==
  ASSUME MachineToItself, IInv
  PROVE  snap.others = {} /\ \A p : ~ForeignAt(p)
BY DEF MachineToItself, IInv, TypeOK, ForeignAt

\* So the wanted port is taken, or taken over.
LEMMA NeverLeaves ==
  ASSUME MachineToItself, IInv, Machine, Still, NEW j \in Jobs, pc[j] = "planning"
  PROVE  MayTake(j) \/ MayTakeOver(j)
<1> DEFINE p == Wanted(j)
<1> SUFFICES ASSUME ~MayTake(j) PROVE MayTakeOver(j)
  OBVIOUS
<1>1. pc[j] \in PlansAt /\ pc[j] \in PlanningAt
  BY DEF PlansAt, PlanningAt
<1>2. p \notin claimed
  BY <1>1, WantedUnclaimed DEF Still, HomeReserved
<1>3. ~Free(p)
  BY <1>2 DEF MayTake
<1>4. Holders(p) # {}
  <2> SUFFICES ASSUME Holders(p) = {} PROVE FALSE
    OBVIOUS
  <2>1. Answers(p)
    BY <1>3, NoForeigner DEF Free, DockerHeld
  <2>2. PICK s \in Stacks : p \in PortsOf(pub[s])
    BY <2>1, NoForeigner DEF Answers, ForeignAt, MachineToItself
  <2>3. s \in {Self(j), Twin(j)}
    BY <1>1, <2>2, WantedHolders
  <2>4. pub[s] \in {snap.stacks[s], {}}
    BY <1>1, <2>3 DEF Machine, TwinSnap, Still, SelfSnap
  <2>5. s \in Holders(p)
    BY <2>2, <2>4 DEF Holders, PortsOf
  <2> QED
    BY <2>5
<1>5. Holders(p) \subseteq {Self(j), Twin(j)}
  BY <1>1, WantedHolders DEF Holders
<1> QED
  BY <1>2, <1>4, <1>5, NoForeigner DEF MayTakeOver, SameAppHeld, HeldOnlyBy, MachineToItself

LEMMA RecheckIsFree ==
  ASSUME MachineToItself, IInv, Still, NEW j \in Jobs, pc[j] = "recheck"
  PROVE  Free(Wanted(j))
<1> DEFINE p == Wanted(j)
<1>1. pc[j] \in PlansAt
  BY DEF PlansAt
<1>2. \A s \in Stacks : p \notin PortsOf(snap.stacks[s]) /\ p \notin PortsOf(pub[s])
  BY <1>1, WantedHolders DEF Still, TakenOver
<1> QED
  BY <1>2, NoForeigner DEF Free, DockerHeld, Holders, Answers, ForeignAt, MachineToItself

\* What a step may do to a stack other than the twin of the start that plans.
Grown(s) == \E j \in Jobs : /\ s = Self(j) /\ pc[j] = "up" /\ pc'[j] \notin PlanningAt
                            /\ \A p \in PortsOf(pub'[s]) : p \in PortsOf(pub[s]) \/ p \in Claims(j)

LEMMA ClaimsAreHome ==
  ASSUME IInv, Still, NEW j \in Jobs, NEW p \in Claims(j), NEW a \in App, a # AppOf(j),
         NEW i \in 1..Decls[a], MachineToItself
  PROVE  p # HomePort(a, i)
<1>1. claims[j] \in Seq(Nat) /\ AppOf(j) \in App /\ Decls[AppOf(j)] \in Nat
  BY JobTyped
<1>2. PICK k \in DOMAIN claims[j] : p = claims[j][k]
  BY DEF Claims
<1>3. k \in 1..Decls[AppOf(j)] /\ p = HomePort(AppOf(j), k)
  BY <1>1, <1>2 DEF Still, Within, SameUrl
<1> QED
  BY <1>1, <1>3 DEF MachineToItself

\* A step that claims nothing, stops no twin and asks docker nothing.
LEMMA EasesKeepsStill ==
  ASSUME MachineToItself, IInv, Still, UNCHANGED <<claims, snap, target, cursor>>,
         claimed' \subseteq claimed \cup reserved, reserved' \subseteq reserved,
         \A k \in Jobs : \/ pc'[k] = pc[k]
                         \/ pc'[k] \notin PlanningAt
                         \/ pc[k] = "listed" /\ pc'[k] = "planning",
         \A s \in Stacks : pub'[s] = pub[s] \/ pub'[s] = {} \/ Grown(s)
  PROVE  Still'
<1>1. \A k \in Jobs : /\ pc'[k] \in PlanningAt => pc[k] \in PlanningAt
                      /\ pc'[k] \in {"relist", "recheck"} => pc'[k] = pc[k]
  BY DEF PlanningAt
<1>2. Within'
  BY <1>1 DEF Still, Within, Decl, AppOf
<1>3. Aimed'
  BY DEF Still, Aimed, PlansAt, PlanningAt, AppOf, SlotPort, Slot
<1>4. HomeReserved'
  BY DEF Still, HomeReserved, HomeOf, HomePort, AppOf, SlotPort, SidecarPort, Slot
<1>5. ASSUME NEW s \in Stacks, NEW a \in App \ {s[1]}, NEW i \in 1..Decls[a]
      PROVE  HomePort(a, i) \notin PortsOf(pub'[s])
  <2>1. HomePort(a, i) \notin PortsOf(pub[s])
    BY DEF Still, Owned
  <2>2. CASE pub'[s] = pub[s] \/ pub'[s] = {}
    BY <2>1, <2>2 DEF PortsOf
  <2>3. CASE Grown(s)
    <3>1. PICK j \in Jobs : /\ s = Self(j)
                            /\ \A p \in PortsOf(pub'[s]) : p \in PortsOf(pub[s]) \/ p \in Claims(j)
      BY <2>3 DEF Grown
    <3>2. a # AppOf(j)
      BY <3>1 DEF Self
    <3> QED
      BY <2>1, <3>1, <3>2, ClaimsAreHome
  <2> QED
    BY <2>2, <2>3
<1>6. Owned'
  BY <1>5 DEF Still, Owned, HomePort, SlotPort, SidecarPort, Slot, PortsOf
<1>7. ASSUME NEW j \in Jobs, pc'[j] \in PlanningAt
      PROVE  /\ pub'[Self(j)] \in {pub[Self(j)], {}}
             /\ pub'[Twin(j)] \in {pub[Twin(j)], {}}
  <2>1. ~Grown(Twin(j))
    BY DEF Grown, Twin, Self
  <2>2. ~Grown(Self(j))
    BY <1>7 DEF Grown, Self, MachineToItself
  <2> QED
    BY <2>1, <2>2, StackOf
<1>8. SelfSnap'
  BY <1>1, <1>7 DEF Still, SelfSnap, Self, AppOf
<1>9. TakenOver'
  <2>1. \A j \in Jobs : Wanted(j)' = Wanted(j) /\ Self(j)' = Self(j) /\ Twin(j)' = Twin(j)
    BY DEF Wanted, Decl, SidecarPort, Slot, AppOf, Self, Twin
  <2>2. \A j \in Jobs : pc'[j] \in {"relist", "recheck"} =>
          /\ pc'[j] = pc[j]
          /\ PortsOf(pub'[Self(j)]) \subseteq PortsOf(pub[Self(j)])
          /\ PortsOf(pub'[Twin(j)]) \subseteq PortsOf(pub[Twin(j)])
    BY <1>1, <1>7 DEF PlanningAt, PortsOf
  <2> SUFFICES ASSUME NEW j \in Jobs, pc'[j] \in {"relist", "recheck"}
               PROVE  /\ Wanted(j) \notin PortsOf(pub'[Self(j)]) /\ Wanted(j) \notin PortsOf(pub'[Twin(j)])
                      /\ pc'[j] = "recheck" => /\ Wanted(j) \notin PortsOf(snap.stacks[Self(j)])
                                               /\ Wanted(j) \notin PortsOf(snap.stacks[Twin(j)])
    BY <2>1 DEF TakenOver, PortsOf
  <2> QED
    BY <2>2 DEF Still, TakenOver
<1>10. SameUrl'
  BY DEF Still, SameUrl, HomePort, AppOf, SlotPort, SidecarPort, Slot
<1> QED
  BY <1>2, <1>3, <1>4, <1>6, <1>8, <1>9, <1>10 DEF Still

LEMMA ListKeepsStill ==
  ASSUME MachineToItself, IInv, Still, NEW j \in Jobs, List(j), ~Die(j)
  PROVE  Still'
<1>1. /\ TakeSnapshot /\ cursor' = 0 /\ target' = SlotPort(AppOf(j)) /\ pc[j] = "queued"
      /\ pc' = [pc EXCEPT ![j] = "listed"] /\ UNCHANGED <<reserved, claims, claimed, pub>>
      /\ queue # <<>> /\ Head(queue) = j
  BY DEF List, world, MachineToItself
<1>2. pc'[j] = "listed" /\ \A k \in Jobs \ {j} : pc'[k] = pc[k] /\ pc[k] \notin PlanningAt
  BY <1>1 DEF IInv, TypeOK, LockHeld
<1>3. claims[j] = <<>> /\ Decls[AppOf(j)] \in Nat \ {0}
  BY <1>1, BatchAssumption, PortMapAssumption DEF IInv, NothingClaimedYet, AppOf, Jobs
<1>4. Within'
  BY <1>1, <1>2, <1>3 DEF Still, Within, Decl, AppOf
<1>5. Aimed'
  BY <1>1, <1>2 DEF Still, Aimed, PlansAt, PlanningAt, AppOf, SlotPort, Slot
<1>6. HomeReserved' /\ SameUrl'
  BY <1>1 DEF Still, HomeReserved, HomeOf, SameUrl, HomePort, AppOf, SlotPort, SidecarPort, Slot
<1>7. Owned'
  BY <1>1 DEF Still, Owned, HomePort, SlotPort, SidecarPort, Slot, PortsOf, TakeSnapshot
<1>8. SelfSnap' /\ TakenOver'
  BY <1>1, <1>2, StackOf DEF SelfSnap, TakenOver, TakeSnapshot, Self, Twin, AppOf, PlanningAt
<1> QED
  BY <1>4, <1>5, <1>6, <1>7, <1>8 DEF Still

\* A step of the planner that leaves the walk where it is.
LEMMA TakeoverKeepsStill ==
  ASSUME MachineToItself, IInv, Machine, Still, NEW j \in Jobs,
         StopTwin(j) \/ (Relist(j) /\ ~Die(j))
  PROVE  Still'
<1>1. /\ pc[j] \in PlansAt /\ UNCHANGED <<reserved, claims, claimed, target, cursor>>
      /\ \E to \in {"relist", "recheck"} : pc' = [pc EXCEPT ![j] = to]
  BY DEF StopTwin, Relist, planner, PlansAt
<1>2. /\ pc'[j] \in {"relist", "recheck"} /\ pc[j] \in PlanningAt
      /\ \A k \in Jobs \ {j} : pc'[k] = pc[k] /\ pc[k] \notin PlanningAt
  BY <1>1, Holder DEF IInv, TypeOK, PlansAt, PlanningAt
<1>3. Within'
  BY <1>1, <1>2 DEF Still, Within, Decl, AppOf
<1>4. Aimed'
  BY <1>1, <1>2 DEF Still, Aimed, PlansAt, PlanningAt, AppOf, SlotPort, Slot
<1>5. HomeReserved' /\ SameUrl'
  BY <1>1 DEF Still, HomeReserved, HomeOf, SameUrl, HomePort, AppOf, SlotPort, SidecarPort, Slot
<1>6. Wanted(j)' = Wanted(j) /\ Self(j)' = Self(j) /\ Twin(j)' = Twin(j)
  BY <1>1 DEF Wanted, Decl, SidecarPort, Slot, AppOf, Self, Twin
<1>7. CASE StopTwin(j)
  <2>1. /\ Holders(Wanted(j)) = {Twin(j)} /\ snap' = snap /\ pc[j] = "planning"
        /\ pub' = [s \in Stacks |-> IF s \in Holders(Wanted(j)) THEN {} ELSE pub[s]]
        /\ pc' = [pc EXCEPT ![j] = "relist"]
    BY <1>7, TakeoverOfTwin DEF StopTwin, planner, MachineToItself
  <2>2. pub'[Twin(j)] = {} /\ pub'[Self(j)] = pub[Self(j)] /\ pc'[j] = "relist"
    BY <2>1, StackOf DEF IInv, TypeOK
  <2>3. pub[Self(j)] \in {snap.stacks[Self(j)], {}} /\ Wanted(j) \notin PortsOf(snap.stacks[Self(j)])
    BY <1>2, <2>1, StackOf DEF Still, SelfSnap, Holders
  <2>4. Owned'
    <3>1. \A s \in Stacks : pub'[s] = pub[s] \/ pub'[s] = {}
      BY <2>1
    <3> QED
      BY <2>1, <3>1 DEF Still, Owned, HomePort, SlotPort, SidecarPort, Slot, PortsOf
  <2>5. SelfSnap'
    BY <1>2, <1>6, <2>1, <2>2, <2>3 DEF SelfSnap
  <2>6. TakenOver'
    <3>1. Wanted(j) \notin PortsOf(pub'[Self(j)]) /\ Wanted(j) \notin PortsOf(pub'[Twin(j)])
      BY <2>2, <2>3 DEF PortsOf
    <3>2. \A k \in Jobs : pc'[k] \in {"relist", "recheck"} => k = j /\ pc'[k] # "recheck"
      BY <1>2, <2>2 DEF PlanningAt
    <3> QED
      BY <1>6, <3>1, <3>2 DEF TakenOver, PortsOf
  <2> QED
    BY <1>3, <1>4, <1>5, <2>4, <2>5, <2>6 DEF Still
<1>8. CASE Relist(j) /\ ~Die(j)
  <2>1. TakeSnapshot /\ pub' = pub /\ pc[j] = "relist"
    BY <1>8 DEF Relist, world
  <2>2. snap'.stacks = pub
    BY <2>1 DEF TakeSnapshot
  <2>3. Wanted(j) \notin PortsOf(pub[Self(j)]) /\ Wanted(j) \notin PortsOf(pub[Twin(j)])
    BY <2>1 DEF Still, TakenOver
  <2>4. Owned'
    BY <2>1, <2>2 DEF Still, Owned, HomePort, SlotPort, SidecarPort, Slot, PortsOf
  <2>5. SelfSnap'
    BY <1>2, <1>6, <2>1, <2>2 DEF SelfSnap
  <2>6. TakenOver'
    <3>1. \A k \in Jobs : pc'[k] \in {"relist", "recheck"} => k = j
      BY <1>2 DEF PlanningAt
    <3> QED
      BY <1>6, <2>1, <2>2, <2>3, <3>1 DEF TakenOver, PortsOf
  <2> QED
    BY <1>3, <1>4, <1>5, <2>4, <2>5, <2>6 DEF Still
<1> QED
  BY <1>7, <1>8

LEMMA ClaimKeepsStill ==
  ASSUME MachineToItself, IInv, Still, NEW j \in Jobs, pc[j] \in PlansAt, Claim(j, Wanted(j))
  PROVE  Still'
<1>1. /\ claims' = [claims EXCEPT ![j] = Append(@, Wanted(j))] /\ cursor' = 0
      /\ claimed' = claimed \cup {Wanted(j)} /\ reserved' = reserved \cup {Wanted(j)}
      /\ UNCHANGED <<target, snap, pub>>
      /\ \/ pc' = [pc EXCEPT ![j] = "up"]
         \/ Decl(j) # Decls[AppOf(j)] /\ pc' = [pc EXCEPT ![j] = "planning"]
  BY DEF Claim, world
<1>2. /\ pc'[j] = "up" \/ (Decl(j) # Decls[AppOf(j)] /\ pc'[j] = "planning")
      /\ \A k \in Jobs \ {j} : pc'[k] = pc[k] /\ pc[k] \notin PlanningAt
      /\ pc[j] \in PlanningAt
  BY <1>1, Holder DEF IInv, TypeOK, PlansAt, PlanningAt
<1>3. /\ claims[j] \in Seq(Nat) /\ Wanted(j) \in Nat /\ claims'[j] = Append(claims[j], Wanted(j))
      /\ \A k \in Jobs \ {j} : claims'[k] = claims[k]
      /\ Len(claims'[j]) = Len(claims[j]) + 1 /\ claims'[j][Len(claims[j]) + 1] = Wanted(j)
      /\ \A i \in DOMAIN claims[j] : claims'[j][i] = claims[j][i]
      /\ DOMAIN claims'[j] = 1..Len(claims[j]) + 1 /\ DOMAIN claims[j] = 1..Len(claims[j])
  BY <1>1, WantedIsNat DEF IInv, TypeOK
<1>4. /\ Wanted(j) = HomePort(AppOf(j), Decl(j)) /\ Decl(j) \in 1..Decls[AppOf(j)]
      /\ Decl(j) = Len(claims[j]) + 1 /\ Decls[AppOf(j)] \in Nat
  BY WantedIsHome, PortMapAssumption DEF Decl
<1>5. Within'
  <2>1. \A k \in Jobs : Len(claims'[k]) <= Decls[AppOf(k)]
    BY <1>3, <1>4 DEF Still, Within
  <2>2. \A k \in Jobs : pc'[k] \in PlanningAt => Len(claims'[k]) + 1 <= Decls[AppOf(k)]
    BY <1>2, <1>3, <1>4 DEF PlanningAt
  <2> QED
    BY <2>1, <2>2 DEF Within, Decl, AppOf
<1>6. Aimed'
  BY <1>1, <1>2 DEF Still, Aimed, PlansAt, PlanningAt, AppOf, SlotPort, Slot
<1>7. HomeReserved'
  <2>1. HomeOf' = {HomePort(AppOf(t[1]), t[2]) : t \in {u \in Jobs \X (Nat \ {0}) : u[2] <= Len(claims'[u[1]])}}
    BY DEF HomeOf, HomePort, AppOf, SlotPort, SidecarPort, Slot
  <2>2. \A k \in Jobs : Len(claims[k]) \in Nat /\ Len(claims'[k]) \in Nat /\ Len(claims[k]) <= Len(claims'[k])
    BY <1>3 DEF IInv, TypeOK
  <2>3. HomeOf \subseteq HomeOf'
    BY <2>1, <2>2 DEF HomeOf
  <2>4. Wanted(j) \in HomeOf'
    <3>1. <<j, Decl(j)>> \in {u \in Jobs \X (Nat \ {0}) : u[2] <= Len(claims'[u[1]])}
      BY <1>3, <1>4
    <3> QED
      BY <1>4, <2>1, <3>1
  <2> QED
    BY <1>1, <2>3, <2>4 DEF Still, HomeReserved
<1>8. Owned'
  BY <1>1 DEF Still, Owned, HomePort, SlotPort, SidecarPort, Slot, PortsOf
<1>9. SelfSnap' /\ TakenOver'
  <2>1. \A k \in Jobs : pc'[k] \in PlanningAt => k = j /\ pc'[k] = "planning"
    BY <1>2 DEF PlanningAt
  <2>2. SelfSnap'
    BY <1>1, <1>2, <2>1 DEF Still, SelfSnap, Self, AppOf
  <2> QED
    BY <2>1, <2>2 DEF TakenOver, PlanningAt
<1>10. SameUrl'
  <2>1. ASSUME NEW k \in Jobs, NEW i \in DOMAIN claims'[k] PROVE claims'[k][i] = HomePort(AppOf(k), i)
    <3>1. CASE k # j
      BY <1>3, <2>1, <3>1 DEF Still, SameUrl
    <3>2. CASE k = j /\ i \in DOMAIN claims[j]
      BY <1>3, <3>2 DEF Still, SameUrl
    <3>3. CASE k = j /\ i = Len(claims[j]) + 1
      BY <1>3, <1>4, <3>3
    <3> QED
      BY <1>3, <2>1, <3>1, <3>2, <3>3 DEF IInv, TypeOK
  <2> QED
    BY <2>1 DEF SameUrl, HomePort, AppOf, SlotPort, SidecarPort, Slot
<1> QED
  BY <1>5, <1>6, <1>7, <1>8, <1>9, <1>10 DEF Still

LEMMA PlanKeepsStill ==
  ASSUME MachineToItself, IInv, Machine, Still, NEW j \in Jobs, Plan(j)
  PROVE  Still'
<1>1. CASE Die(j)
  <2>1. pc' = [pc EXCEPT ![j] = "failed"] /\ UNCHANGED <<claims, snap, target, cursor, claimed, reserved, pub>>
    BY <1>1 DEF Die, planner, world
  <2>2. pc'[j] = "failed" /\ \A k \in Jobs \ {j} : pc'[k] = pc[k]
    BY <2>1 DEF IInv, TypeOK
  <2> QED
    BY <2>1, <2>2, EasesKeepsStill DEF PlanningAt
<1>2. CASE Open(j)
  <2>1. /\ pc' = [pc EXCEPT ![j] = "planning"] /\ pc[j] = "listed" /\ claimed' = reserved
        /\ UNCHANGED <<claims, snap, target, cursor, reserved, pub>>
    BY <1>2 DEF Open, world
  <2>2. pc'[j] = "planning" /\ \A k \in Jobs \ {j} : pc'[k] = pc[k]
    BY <2>1 DEF IInv, TypeOK
  <2> QED
    BY <2>1, <2>2, EasesKeepsStill
<1>3. CASE TakeWanted(j)
  BY <1>3, ClaimKeepsStill DEF TakeWanted, PlansAt
<1>4. CASE Recheck(j)
  <2>1. pc[j] = "recheck" /\ Free(Wanted(j))
    BY <1>4, RecheckIsFree DEF Recheck
  <2> QED
    BY <1>4, <2>1, ClaimKeepsStill DEF Recheck, PlansAt
<1>5. ~Pick(j) /\ ~(NothingToPick(j) /\ ~Die(j))
  BY DEF Pick, NothingToPick, Still, Aimed
<1>6. ~LeaveWanted(j)
  BY NeverLeaves DEF LeaveWanted
<1>7. pc[j] = "planning" => cursor = 0
  BY DEF Still, Aimed, PlansAt
<1>8. ~ScanPool(j) /\ ~(PoolIsFull(j) /\ ~Die(j))
  BY <1>7 DEF ScanPool, PoolIsFull
<1> QED
  BY <1>1, <1>2, <1>3, <1>4, <1>5, <1>6, <1>8, ListKeepsStill, TakeoverKeepsStill DEF Plan

LEMMA NextKeepsStill ==
  ASSUME MachineToItself, IInv, Machine, Still, [Next]_vars
  PROVE  Still'
<1>1. ASSUME NEW j \in Jobs, Begin(j) \/ Healthy(j) \/ Unhealthy(j) \/ Rollback(j) PROVE Still'
  <2>1. UNCHANGED <<claims, snap, target, cursor, claimed, reserved>>
    BY <1>1 DEF Begin, Healthy, Unhealthy, Rollback, planner
  <2>2. \E to \in {"failed", "queued", "ok", "rollback"} : pc' = [pc EXCEPT ![j] = to]
    BY <1>1 DEF Begin, Healthy, Unhealthy, Rollback
  <2>3. \A k \in Jobs : pc'[k] = pc[k] \/ pc'[k] \notin PlanningAt
    BY <2>2 DEF IInv, TypeOK, PlanningAt
  <2>4. \A s \in Stacks : pub'[s] = pub[s] \/ pub'[s] = {}
    BY <1>1 DEF Begin, Healthy, Unhealthy, Rollback, world, IInv, TypeOK
  <2> QED
    BY <2>1, <2>3, <2>4, EasesKeepsStill
<1>2. ASSUME NEW j \in Jobs, Up(j) PROVE Still'
  <2>1. UNCHANGED <<claims, snap, target, cursor, claimed>> /\ reserved' \subseteq reserved
    BY <1>2 DEF Up, planner
  <2>2. /\ pc[j] = "up" /\ pc'[j] \in {"waiting", "failed"}
        /\ \A k \in Jobs \ {j} : pc'[k] = pc[k]
    BY <1>2 DEF Up, IInv, TypeOK
  <2>3. \A s \in Stacks : pub'[s] = pub[s] \/ Grown(s)
    BY <1>2, <2>2, UpLeaves DEF Grown, PlanningAt
  <2>4. \A k \in Jobs : pc'[k] = pc[k] \/ pc'[k] \notin PlanningAt
    BY <2>2 DEF PlanningAt
  <2> QED
    BY <2>1, <2>3, <2>4, EasesKeepsStill
<1>3. CASE \/ \E a \in App : StackDies(a)
           \/ \E p \in ForeignPorts : ForeignArrives(p) \/ ForeignLeaves(p)
           \/ BatchDone \/ UNCHANGED vars
  <2>1. UNCHANGED <<pc, claims, snap, target, cursor, claimed, reserved>>
    BY <1>3 DEF StackDies, ForeignArrives, ForeignLeaves, BatchDone, vars, planner
  <2>2. \A s \in Stacks : pub'[s] = pub[s] \/ pub'[s] = {}
    BY <1>3 DEF StackDies, ForeignArrives, ForeignLeaves, BatchDone, vars, IInv, TypeOK
  <2> QED
    BY <2>1, <2>2, EasesKeepsStill
<1> QED
  BY <1>1, <1>2, <1>3, PlanKeepsStill DEF Next, Start

LEMMA InitStill == ASSUME MachineToItself PROVE Init => Still
<1> SUFFICES ASSUME Init PROVE Still
  OBVIOUS
<1>1. pub \in InitialStacks /\ snap.stacks = pub /\ claimed = {} /\ reserved = {}
      /\ \A j \in Jobs : pc[j] = "idle" /\ claims[j] = <<>>
  BY DEF Init
<1>2. \A j \in Jobs : AppOf(j) \in App /\ Decls[AppOf(j)] \in Nat
  BY BatchAssumption, PortMapAssumption DEF AppOf, Jobs
<1>3. Within /\ Aimed /\ SelfSnap /\ TakenOver /\ SameUrl /\ HomeReserved
  BY <1>1, <1>2 DEF Within, Aimed, SelfSnap, TakenOver, SameUrl, HomeReserved, PlanningAt, PlansAt
<1>4. Owned
  <2>1. \A s \in Stacks : s[1] \in App
    BY DEF Stacks
  <2> QED
    BY <1>1, <2>1 DEF Owned, MachineToItself
<1> QED
  BY <1>3, <1>4 DEF Still

\* On a machine where no bench stack sits on another app's ports, nothing else listens
\* and docker does what it is told, a batch of distinct apps in compose mode gets the
\* ports of the map, twin up or not, whatever stays up, fails or dies in between.
THEOREM SameUrlEveryRun == ASSUME MachineToItself PROVE Spec => []SameUrl
<1>1. IInv /\ Machine /\ Still /\ [Next]_vars => Still'
  BY NextKeepsStill
<1>2. Still => SameUrl
  BY DEF Still
<1> QED
  BY <1>1, <1>2, InitStill, InitIInv, NextKeepsIInv, InitMachine, NextKeepsMachine, PTL DEF Spec

(***************************************************************************)
(* The walk through the declarations.                                      *)
(***************************************************************************)

LEMMA WithinInit == Init => Within
<1> SUFFICES ASSUME Init, NEW j \in Jobs PROVE claims[j] = <<>> /\ pc[j] = "idle" /\ Decls[AppOf(j)] \in Nat
  BY DEF Within, PlanningAt
<1> QED
  BY BatchAssumption, PortMapAssumption DEF Init, AppOf, Jobs

\* A step that claims nothing.
LEMMA WithinRests ==
  ASSUME IInv, Within, claims' = claims,
         \A k \in Jobs : pc'[k] \in PlanningAt => pc[k] \in PlanningAt \/ claims[k] = <<>>
  PROVE  Within'
<1>1. \A k \in Jobs : AppOf(k) \in App /\ Decls[AppOf(k)] \in Nat \ {0}
  BY BatchAssumption, PortMapAssumption DEF AppOf, Jobs
<1> QED
  BY <1>1 DEF Within, Decl, AppOf

LEMMA WithinClaims ==
  ASSUME IInv, Within, NEW j \in Jobs, NEW p \in Nat, Promises(j, p)
  PROVE  Within'
<1>1. /\ claims' = [claims EXCEPT ![j] = Append(@, p)] /\ pc[j] \in PlanningAt
      /\ \/ Decl(j) = Decls[AppOf(j)] /\ pc' = [pc EXCEPT ![j] = "up"]
         \/ Decl(j) # Decls[AppOf(j)] /\ pc' = [pc EXCEPT ![j] = "planning"]
  BY DEF Promises, Claim, PlanningAt
<1>2. /\ claims[j] \in Seq(Nat) /\ Decls[AppOf(j)] \in Nat /\ Len(claims'[j]) = Len(claims[j]) + 1
      /\ \A k \in Jobs \ {j} : claims'[k] = claims[k] /\ pc'[k] = pc[k]
  BY <1>1, JobTyped DEF IInv, TypeOK
<1>3. Len(claims[j]) + 1 <= Decls[AppOf(j)] /\ (pc'[j] \in PlanningAt => Len(claims[j]) + 1 # Decls[AppOf(j)])
  BY <1>1 DEF Within, Decl, IInv, TypeOK, PlanningAt
<1>4. Len(claims'[j]) <= Decls[AppOf(j)] /\ (pc'[j] \in PlanningAt => Len(claims'[j]) + 1 <= Decls[AppOf(j)])
  BY <1>2, <1>3
<1> QED
  BY <1>2, <1>4 DEF Within, Decl, AppOf

LEMMA NextKeepsWithin == IInv /\ Machine /\ Within /\ [Next]_vars => Within'
<1> SUFFICES ASSUME IInv, Machine, Within, [Next]_vars PROVE Within'
  OBVIOUS
<1>1. CASE Rests
  BY <1>1, WithinRests DEF Rests
<1>2. CASE Looks \/ \E t \in Stacks : Clears(t)
  <2>1. claims' = claims /\ \A k \in Jobs : pc'[k] \in PlanningAt => pc[k] \in PlanningAt \/ claims[k] = <<>>
    BY <1>2 DEF Looks, Clears, NoPromise
  <2> QED
    BY <2>1, WithinRests
<1>3. ASSUME NEW j \in Jobs, Up(j) PROVE Within'
  <2>1. claims' = claims /\ \A k \in Jobs : pc'[k] \in PlanningAt => pc[k] \in PlanningAt
    BY <1>3 DEF Up, IInv, TypeOK, PlanningAt
  <2> QED
    BY <2>1, WithinRests
<1> QED
  BY <1>1, <1>2, <1>3, StepKinds, WithinClaims DEF Kinds

(***************************************************************************)
(* A relocated service and its port: each app once in the batch, one port  *)
(* to a service and one service to a port, and the pool nobody's home.  In *)
(* solo mode the planner does not tell a container's services apart.       *)
(***************************************************************************)

OnePortEach ==
  /\ \A j, k \in Jobs : AppOf(j) = AppOf(k) => j = k
  /\ Mode = "solo" => \A j \in Jobs : Decls[AppOf(j)] = 1
  /\ \A a \in App : \A i \in 1..Decls[a] : HomePort(a, i) \notin Pool
  /\ Requested \notin Pool
  /\ \A m \in InitialStacks : \A s \in Stacks : \A d, e \in m[s] : d[2] = e[2] => d = e

\* A start that has not brought its stack up yet.
Before(j) == pc[j] \in {"idle", "queued", "up"} \cup PlanningAt

\* What sits in the pool.
Relocated(j) == {e \in pub[Self(j)] : e[2] \in Pool}

\* A listener that is no bench stack has its port to itself, then and in the listing.
Alone == \A p \in ForeignPorts : foreign[p] # "none" => \A s \in Stacks : p \notin PortsOf(pub[s])
SnapAlone == \A s \in Stacks : snap.others \cap PortsOf(snap.stacks[s]) = {}

\* A stack that is still to be brought up is listed with all it has, perhaps more.
Listed == \A j \in Jobs : Before(j) /\ (\E k \in Jobs : pc[k] \in PlanningAt) =>
            pub[Self(j)] \subseteq snap.stacks[Self(j)]

OnceEach == \A j \in Jobs :
  /\ Before(j) => \A d, e \in pub[Self(j)] : d[2] = e[2] => d = e
  /\ pc[j] \in PlanningAt => \A d, e \in snap.stacks[Self(j)] : d[2] = e[2] => d = e

AllClaims == UNION {Claims(k) : k \in Jobs}
ClaimsKnown == reserved \cup claimed \subseteq AllClaims

\* Nobody else claims a port of the pool a stack sits on, nor another service of its own.
KeptForIt == \A j \in Jobs : Before(j) => \A e \in Relocated(j) :
  /\ \A k \in Jobs \ {j} : e[2] \notin Claims(k)
  /\ \A i \in DOMAIN claims[j] : claims[j][i] = e[2] => Mode = "solo" \/ e[1] = i

\* The walk up the pool does not pass the port the service sits on.
Climbs(j) == \A e \in Relocated(j) :
  /\ pc[j] = "planning" /\ cursor > 0 /\ e[1] = Decl(j) => PoolPort(cursor) <= e[2]
  /\ pc[j] = "picking" /\ cursor > 0 /\ e[1] = 1 => PoolPort(cursor) <= e[2]
  /\ pc[j] \in PlansAt \cup {"listed"} /\ target \in Pool /\ e[1] = 1 => target <= e[2]

\* Only the solo picker aims at the pool; the walk over a declaration starts at its home.
Aims(j) == /\ pc[j] = "picking" => Mode = "solo"
           /\ pc[j] = "listed" => cursor = 0
           /\ pc[j] \in PlansAt \cup {"listed"} /\ target \in Pool => Mode = "solo"

NoDrift == \A j \in Jobs : Before(j) => \A e \in Relocated(j) :
  e[1] \in DOMAIN claims[j] /\ claims[j][e[1]] \in Pool => claims[j][e[1]] <= e[2]

World == Alone /\ SnapAlone /\ Listed /\ OnceEach
Drift == /\ Within /\ World /\ ClaimsKnown /\ KeptForIt /\ NoDrift
         /\ \A j \in Jobs : Climbs(j) /\ Aims(j)

LEMMA BeforeStays ==
  ASSUME IInv, NEW j \in Jobs, [Next]_vars, Before(j)'
  PROVE  Before(j)
<1>1. ASSUME NEW k \in Jobs, Start(k) PROVE \A i \in Jobs \ {k} : pc'[i] = pc[i]
  BY <1>1 DEF Start, Begin, Plan, List, Pick, NothingToPick, Open, TakeWanted, StopTwin, Relist, Recheck,
     LeaveWanted, ScanPool, PoolIsFull, Die, Claim, Up, Healthy, Unhealthy, Rollback, IInv, TypeOK
<1>2. CASE Start(j)
  <2>1. CASE Plan(j)
    <3>1. pc[j] \in PlanningAt \cup {"queued"}
      BY <2>1 DEF Plan, List, Pick, NothingToPick, Open, TakeWanted, StopTwin, Relist, Recheck,
         LeaveWanted, ScanPool, PoolIsFull, PlanningAt
    <3> QED
      BY <3>1 DEF Before
  <2>2. CASE Begin(j)
    BY <2>2 DEF Begin, IInv, TypeOK, NotBegun, Jobs, Before
  <2>3. CASE Up(j)
    BY <2>3 DEF Up, Before
  <2>4. CASE Healthy(j) \/ Unhealthy(j) \/ Rollback(j)
    BY <2>4 DEF Healthy, Unhealthy, Rollback, IInv, TypeOK, Before, PlanningAt
  <2> QED
    BY <1>2, <2>1, <2>2, <2>3, <2>4 DEF Start
<1>3. CASE ~\E k \in Jobs : Start(k)
  BY <1>3 DEF Next, ForeignArrives, ForeignLeaves, StackDies, BatchDone, vars, Before
<1> QED
  BY <1>1, <1>2, <1>3 DEF Before

\* Until a start brings its stack up, the stack can only be taken down.
LEMMA OwnStackShrinks ==
  ASSUME OnePortEach, IInv, Machine, [Next]_vars, NEW j \in Jobs, Before(j)'
  PROVE  pub'[Self(j)] \in {pub[Self(j)], {}}
<1>1. ASSUME NEW k \in Jobs, Up(k) PROVE pub'[Self(j)] = pub[Self(j)]
  <2>1. pc'[k] \in {"waiting", "failed"}
    BY <1>1 DEF Up, IInv, TypeOK
  <2>2. k # j
    BY <2>1 DEF Before, PlanningAt
  <2>3. Self(k) # Self(j)
    BY <2>2 DEF OnePortEach, Self
  <2> QED
    BY <1>1, <2>3, UpLeaves, StackOf
<1> QED
  BY <1>1, StepKinds, StackOf DEF Kinds, Rests, Looks, Clears, Promises, Claim, world

\* Planning goes on from a listing, or starts with a new one.
LEMMA ListingStays ==
  ASSUME IInv, Machine, [Next]_vars, NEW k \in Jobs, pc'[k] \in PlanningAt
  PROVE  \/ TakeSnapshot /\ pub' = pub
         \/ snap' = snap /\ pc[k] \in PlanningAt
<1>1. ASSUME NEW j \in Jobs, Up(j) PROVE snap' = snap /\ pc[k] \in PlanningAt
  BY <1>1 DEF Up, IInv, TypeOK, PlanningAt, planner
<1>2. ASSUME NEW j \in Jobs, NEW p \in Nat, Promises(j, p) PROVE snap' = snap /\ pc[k] \in PlanningAt
  BY <1>2 DEF Promises, Claim, IInv, TypeOK, PlanningAt
<1> QED
  BY <1>1, <1>2, StepKinds DEF Kinds, Rests, Looks, Clears

LEMMA NextKeepsAlone ==
  ASSUME IInv, Machine, Alone, [Next]_vars
  PROVE  Alone'
<1>1. foreign \in [ForeignPorts -> {"none", "process", "container"}]
  BY DEF IInv, TypeOK
<1>2. CASE foreign' # foreign
  <2>1. /\ pub' = pub
        /\ \E p \in ForeignPorts : ForeignArrives(p) \/ ForeignLeaves(p)
    BY <1>2 DEF Next, Start, Begin, Plan, List, Pick, NothingToPick, Open, TakeWanted, StopTwin, Relist, Recheck,
       LeaveWanted, ScanPool, PoolIsFull, Die, Claim, Up, Healthy, Unhealthy, Rollback, ForeignArrives,
       ForeignLeaves, StackDies, BatchDone, vars, world
  <2>2. PICK p \in ForeignPorts : ForeignArrives(p) \/ ForeignLeaves(p)
    BY <2>1
  <2>3. \A q \in ForeignPorts \ {p} : foreign'[q] = foreign[q]
    BY <1>1, <2>2 DEF ForeignArrives, ForeignLeaves
  <2>4. foreign'[p] # "none" => \A s \in Stacks : p \notin PortsOf(pub[s])
    BY <1>1, <2>2 DEF ForeignArrives, ForeignLeaves
  <2> QED
    BY <2>1, <2>3, <2>4 DEF Alone, PortsOf
<1>3. CASE foreign' = foreign
  <2>1. ASSUME NEW s \in Stacks, NEW p \in ForeignPorts, foreign[p] # "none"
        PROVE  p \notin PortsOf(pub'[s])
    <3>1. p \notin PortsOf(pub[s])
      BY <2>1 DEF Alone
    <3>2. CASE pub'[s] = pub[s] \/ pub'[s] = {}
      BY <3>1, <3>2 DEF PortsOf
    <3>3. ASSUME NEW j \in Jobs, Up(j) PROVE p \notin PortsOf(pub'[s])
      <4>1. CASE s # Self(j)
        BY <3>2, <3>3, <4>1, UpLeaves
      <4>2. CASE s = Self(j)
        <5>1. Blocked(s, p)
          BY <2>1 DEF Blocked, ForeignAt
        <5> QED
          BY <3>1, <3>3, <4>2, <5>1, UpLeaves
      <4> QED
        BY <4>1, <4>2
    <3> QED
      BY <3>2, <3>3, StepKinds DEF Kinds, Rests, Looks, Clears, Promises, Claim, world
  <2> QED
    BY <1>3, <2>1 DEF Alone, PortsOf
<1> QED
  BY <1>2, <1>3

LEMMA NextKeepsWorld ==
  ASSUME OnePortEach, IInv, Machine, World, [Next]_vars
  PROVE  World'
<1>1. Alone'
  BY NextKeepsAlone DEF World
<1>2. SnapAlone'
  <2>1. CASE snap' = snap
    BY <2>1 DEF World, SnapAlone, PortsOf
  <2>2. CASE TakeSnapshot
    <3>1. snap'.stacks = pub /\ snap'.others = {p \in ForeignPorts : foreign[p] = "container"}
      BY <2>2 DEF TakeSnapshot
    <3> QED
      BY <3>1 DEF World, Alone, SnapAlone, PortsOf
  <2>3. TakeSnapshot \/ snap' = snap
    BY StepKinds DEF Kinds, Rests, Looks, Clears, Promises, Claim, Up, planner
  <2> QED
    BY <2>1, <2>2, <2>3
<1>3. Listed'
  <2> SUFFICES ASSUME NEW j \in Jobs, Before(j)', NEW k \in Jobs, pc'[k] \in PlanningAt
               PROVE  pub'[Self(j)] \subseteq snap'.stacks[Self(j)]
    BY DEF Listed, Self, AppOf
  <2>1. CASE TakeSnapshot /\ pub' = pub
    BY <2>1 DEF TakeSnapshot
  <2>2. CASE snap' = snap /\ pc[k] \in PlanningAt
    BY <2>2, BeforeStays, OwnStackShrinks DEF World, Listed
  <2> QED
    BY <2>1, <2>2, ListingStays
<1>4. OnceEach'
  <2>1. ASSUME NEW j \in Jobs, Before(j)', NEW d \in pub'[Self(j)], NEW e \in pub'[Self(j)], d[2] = e[2]
        PROVE  d = e
    BY <2>1, BeforeStays, OwnStackShrinks DEF World, OnceEach
  <2>2. ASSUME NEW j \in Jobs, pc'[j] \in PlanningAt, NEW d \in snap'.stacks[Self(j)],
               NEW e \in snap'.stacks[Self(j)], d[2] = e[2]
        PROVE  d = e
    <3>1. Before(j)'
      BY <2>2 DEF Before
    <3>2. CASE TakeSnapshot /\ pub' = pub
      BY <2>2, <3>1, <3>2, BeforeStays DEF World, OnceEach, TakeSnapshot
    <3>3. CASE snap' = snap /\ pc[j] \in PlanningAt
      BY <2>2, <3>3 DEF World, OnceEach
    <3> QED
      BY <2>2, <3>2, <3>3, ListingStays
  <2> QED
    BY <2>1, <2>2 DEF OnceEach, Self, AppOf
<1> QED
  BY <1>1, <1>2, <1>3, <1>4 DEF World

LEMMA InitWorld == ASSUME OnePortEach PROVE Init => World
<1> SUFFICES ASSUME Init PROVE World
  OBVIOUS
<1>1. snap.stacks = pub /\ snap.others = {} /\ \A j \in Jobs : pc[j] \notin PlanningAt
  BY DEF Init, PlanningAt
<1>2. Alone
  BY DEF Init, Alone
<1>3. SnapAlone /\ Listed
  BY <1>1 DEF SnapAlone, Listed
<1>4. OnceEach
  <2>1. pub \in InitialStacks
    BY DEF Init
  <2>2. \A j \in Jobs : \A d, e \in pub[Self(j)] : d[2] = e[2] => d = e
    BY <2>1, StackOf DEF OnePortEach
  <2> QED
    BY <1>1, <2>2 DEF OnceEach
<1> QED
  BY <1>2, <1>3, <1>4 DEF World

(***************************************************************************)
(* What the planner makes of a relocated service.                          *)
(***************************************************************************)

\* While anybody plans, its port is held by its own stack alone.
LEMMA SitsAlone ==
  ASSUME Machine, World, NEW j \in Jobs, Before(j), NEW k \in Jobs, pc[k] \in PlanningAt,
         NEW e \in pub[Self(j)]
  PROVE  Holders(e[2]) = {Self(j)} /\ e[2] \notin snap.others /\ ~Free(e[2])
<1>1. e \in snap.stacks[Self(j)]
  BY DEF World, Listed
<1>2. e[2] \in PortsOf(snap.stacks[Self(j)])
  BY <1>1 DEF PortsOf
<1>3. Self(j) \in Holders(e[2])
  BY <1>2, StackOf DEF Holders
<1>4. \A s \in Holders(e[2]) : s = Self(j)
  BY <1>2, StackOf DEF Holders, Machine, SnapApart
<1>5. e[2] \notin snap.others
  BY <1>2, StackOf DEF World, SnapAlone
<1> QED
  BY <1>3, <1>4, <1>5 DEF Free, DockerHeld

\* So no other start is given it.
LEMMA NotForOthers ==
  ASSUME OnePortEach, Machine, World, NEW j \in Jobs, Before(j), NEW k \in Jobs \ {j},
         pc[k] \in PlanningAt, NEW e \in pub[Self(j)]
  PROVE  ~Free(e[2]) /\ ~OwnHeld(k, e[2])
<1>1. Self(k) # Self(j)
  BY DEF OnePortEach, Self
<1> QED
  BY <1>1, SitsAlone DEF OwnHeld, HeldOnlyBy

\* And the planner of its own finds it.
LEMMA ItsOwn ==
  ASSUME Machine, World, NEW j \in Jobs, pc[j] \in PlanningAt, NEW e \in pub[Self(j)]
  PROVE  /\ OwnHeld(j, e[2]) /\ ~Free(e[2])
         /\ Ours(j, e[2]) <=> Mode = "solo" \/ e[1] = Decl(j)
<1>1. Before(j)
  BY DEF Before
<1>2. OwnHeld(j, e[2]) /\ ~Free(e[2])
  BY <1>1, SitsAlone DEF OwnHeld, HeldOnlyBy
<1>3. e \in snap.stacks[Self(j)]
  BY <1>1 DEF World, Listed
<1>4. \A d \in snap.stacks[Self(j)] : d[2] = e[2] => d = e
  BY <1>3 DEF World, OnceEach
<1> QED
  BY <1>2, <1>3, <1>4 DEF Ours

\* Its port is nobody's claim until its turn.
LEMMA Unclaimed ==
  ASSUME OnePortEach, IInv, Drift, NEW j \in Jobs, pc[j] \in PlanningAt, NEW e \in Relocated(j),
         e[1] = Decl(j)
  PROVE  e[2] \notin reserved \cup claimed
<1>1. Before(j) /\ claims[j] \in Seq(Nat)
  BY JobTyped DEF Before
<1>2. \A k \in Jobs \ {j} : e[2] \notin Claims(k)
  BY <1>1 DEF Drift, KeptForIt
<1>3. e[2] \notin Claims(j)
  <2>1. CASE Mode = "solo"
    <3>1. Len(claims[j]) + 1 <= 1 /\ Len(claims[j]) \in Nat
      BY <1>1, <2>1 DEF Drift, Within, Decl, OnePortEach
    <3>2. DOMAIN claims[j] = {}
      BY <1>1, <3>1
    <3> QED
      BY <3>2 DEF Claims
  <2>2. CASE Mode # "solo"
    <3>1. \A i \in DOMAIN claims[j] : i # Decl(j)
      BY <1>1 DEF Decl
    <3> QED
      BY <1>1, <2>2, <3>1 DEF Drift, KeptForIt, Claims
  <2> QED
    BY <2>1, <2>2
<1> QED
  BY <1>2, <1>3 DEF Drift, ClaimsKnown, AllClaims

\* What a start wants is a home port, the requested one or what the solo picker found.
LEMMA WantedOffPool ==
  ASSUME OnePortEach, IInv, Within, NEW j \in Jobs, pc[j] \in PlansAt, Wanted(j) \in Pool
  PROVE  Decl(j) = 1 /\ Wanted(j) = target
<1>1. claims[j] \in Seq(Nat) /\ AppOf(j) \in App /\ Decls[AppOf(j)] \in Nat
  BY JobTyped
<1>2. Decl(j) \in 1..Decls[AppOf(j)]
  BY <1>1 DEF Within, Decl, PlansAt, PlanningAt
<1>3. Decl(j) # 1 => Wanted(j) = HomePort(AppOf(j), Decl(j))
  BY DEF Wanted, HomePort
<1> QED
  BY <1>1, <1>2, <1>3 DEF OnePortEach, Wanted

(***************************************************************************)
(* What a step does to the claims and to the walk.                         *)
(***************************************************************************)

\* The port a declaration is given: the wanted one, or one the walk up the pool found.
Takes(j, p) ==
  /\ Promises(j, p)
  /\ \/ p = Wanted(j)
     \/ /\ pc[j] = "planning" /\ cursor \in 1..PORT_FALLBACK_SPAN
        /\ p = PoolPort(cursor) /\ PoolFits(j, p)

LEMMA PlanTakes ==
  ASSUME IInv, NEW j \in Jobs, Plan(j), claims' # claims
  PROVE  \E p \in Nat : Takes(j, p)
<1>1. Wanted(j) \in Nat /\ (cursor \in 1..PORT_FALLBACK_SPAN => PoolPort(cursor) \in Nat)
  BY WantedIsNat, PoolPortIsNat, PortMapAssumption DEF IInv
<1>2. CASE TakeWanted(j)
  <2>1. Takes(j, Wanted(j))
    BY <1>2 DEF TakeWanted, Takes, Promises, MayTake
  <2> QED
    BY <1>1, <2>1
<1>3. CASE Recheck(j)
  <2>1. pc[j] = "recheck" /\ Free(Wanted(j)) /\ Claim(j, Wanted(j))
    BY <1>3 DEF Recheck
  <2>2. Takes(j, Wanted(j))
    BY <2>1 DEF Takes, Promises, IInv, TakeoverUnclaimed
  <2> QED
    BY <1>1, <2>2
<1>4. CASE ScanPool(j)
  <2>1. /\ pc[j] = "planning" /\ cursor \in 1..PORT_FALLBACK_SPAN
        /\ PoolFits(j, PoolPort(cursor)) /\ Claim(j, PoolPort(cursor))
    BY <1>4 DEF ScanPool
  <2>2. Takes(j, PoolPort(cursor))
    BY <2>1 DEF Takes, Promises, PoolFits, Ours
  <2> QED
    BY <1>1, <2>1, <2>2
<1> QED
  BY <1>2, <1>3, <1>4 DEF Plan, List, Pick, NothingToPick, Open, StopTwin, Relist, LeaveWanted, PoolIsFull, Die

\* A claim is seen in claims.
LEMMA ClaimShows ==
  ASSUME IInv, NEW j \in Jobs, NEW p, Claim(j, p)
  PROVE  claims' # claims
<1>1. claims'[j] = Append(claims[j], p) /\ claims[j] \in Seq(Nat)
  BY JobTyped DEF Claim, IInv, TypeOK
<1>2. Len(Append(claims[j], p)) = Len(claims[j]) + 1 /\ Len(claims[j]) \in Nat
  BY <1>1
<1> QED
  BY <1>1, <1>2

\* Only planning claims and reserves.
LEMMA ClaimsGrow ==
  ASSUME IInv, [Next]_vars
  PROVE  \/ claims' = claims /\ reserved' \cup claimed' \subseteq reserved \cup claimed
         \/ \E j \in Jobs, p \in Nat : Takes(j, p)
<1> SUFFICES ASSUME ~\E j \in Jobs, p \in Nat : Takes(j, p)
             PROVE  claims' = claims /\ reserved' \cup claimed' \subseteq reserved \cup claimed
  OBVIOUS
<1>1. ASSUME NEW j \in Jobs, Plan(j)
      PROVE  claims' = claims /\ reserved' \cup claimed' \subseteq reserved \cup claimed
  <2>1. claims' = claims
    BY <1>1, PlanTakes
  <2>2. \A p : ~Claim(j, p)
    BY <2>1, ClaimShows
  <2> QED
    BY <1>1, <2>1, <2>2 DEF Plan, List, Pick, NothingToPick, Open, TakeWanted, StopTwin, Relist, Recheck,
       LeaveWanted, ScanPool, PoolIsFull, Die, planner
<1>2. ASSUME NEW j \in Jobs, Start(j), ~Plan(j)
      PROVE  claims' = claims /\ reserved' \cup claimed' \subseteq reserved \cup claimed
  BY <1>2 DEF Start, Begin, Up, Healthy, Unhealthy, Rollback, planner
<1> QED
  BY <1>1, <1>2 DEF Next, ForeignArrives, ForeignLeaves, StackDies, BatchDone, vars, planner

\* While a start plans, only its own steps move the walk.
LEMMA WalksAlone ==
  ASSUME IInv, [Next]_vars, NEW j \in Jobs, pc'[j] \in PlanningAt
  PROVE  \/ Plan(j)
         \/ pc'[j] = pc[j] /\ claims'[j] = claims[j] /\ target' = target /\ cursor' = cursor
<1>1. ASSUME NEW k \in Jobs, Start(k), ~Plan(k)
      PROVE  pc'[j] = pc[j] /\ claims'[j] = claims[j] /\ target' = target /\ cursor' = cursor
  <2>1. pc'[k] \notin PlanningAt /\ \A i \in Jobs \ {k} : pc'[i] = pc[i]
    BY <1>1 DEF Start, Begin, Up, Healthy, Unhealthy, Rollback, IInv, TypeOK, PlanningAt
  <2>2. UNCHANGED <<claims, target, cursor>>
    BY <1>1 DEF Start, Begin, Up, Healthy, Unhealthy, Rollback, planner
  <2> QED
    BY <2>1, <2>2
<1>2. ASSUME NEW k \in Jobs \ {j}, Plan(k) PROVE FALSE
  <2>1. pc'[j] = pc[j]
    BY <1>2 DEF Plan, List, Pick, NothingToPick, Open, TakeWanted, StopTwin, Relist, Recheck,
       LeaveWanted, ScanPool, PoolIsFull, Die, Claim, IInv, TypeOK
  <2>2. Head(queue) = j /\ pc[k] \notin PlanningAt
    BY <2>1, Holder
  <2> QED
    BY <1>2, <2>2 DEF Plan, List, Pick, NothingToPick, Open, TakeWanted, StopTwin, Relist, Recheck,
       LeaveWanted, ScanPool, PoolIsFull, PlanningAt
<1> QED
  BY <1>1, <1>2 DEF Next, Start, ForeignArrives, ForeignLeaves, StackDies, BatchDone, vars, planner

(***************************************************************************)
(* No relocated service drifts upwards.                                    *)
(***************************************************************************)

LEMMA NextKeepsKnown ==
  ASSUME IInv, ClaimsKnown, [Next]_vars
  PROVE  ClaimsKnown'
<1>1. CASE claims' = claims /\ reserved' \cup claimed' \subseteq reserved \cup claimed
  BY <1>1 DEF ClaimsKnown, AllClaims, Claims
<1>2. ASSUME NEW j \in Jobs, NEW p \in Nat, Claim(j, p) PROVE ClaimsKnown'
  <2>1. claims[j] \in Seq(Nat) /\ claims'[j] = Append(claims[j], p)
        /\ \A k \in Jobs \ {j} : claims'[k] = claims[k]
    BY <1>2, JobTyped DEF Claim, IInv, TypeOK
  <2>2. Claims(j)' = Claims(j) \cup {p} /\ \A k \in Jobs \ {j} : Claims(k)' = Claims(k)
    <3>1. PICK s : s = claims[j]
      OBVIOUS
    <3>2. /\ s \in Seq(Nat) /\ p \in Nat /\ claims'[j] = Append(s, p)
      BY <2>1, <3>1
    <3>3. {Append(s, p)[i] : i \in DOMAIN Append(s, p)} = {s[i] : i \in DOMAIN s} \cup {p}
      <4>1. PICK t : t = Append(s, p)
        OBVIOUS
      <4>2. /\ Len(s) \in Nat /\ DOMAIN s = 1..Len(s) /\ DOMAIN t = 1..(Len(s) + 1)
            /\ t[Len(s) + 1] = p /\ \A i \in 1..Len(s) : t[i] = s[i]
        BY ONLY <3>2, <4>1
      <4>3. {t[i] : i \in DOMAIN t} = {s[i] : i \in DOMAIN s} \cup {p}
        BY ONLY <4>2
      <4> QED
        BY ONLY <4>1, <4>3
    <3>4. Claims(j)' = Claims(j) \cup {p}
      BY <3>1, <3>2, <3>3 DEF Claims
    <3>5. \A k \in Jobs \ {j} : Claims(k)' = Claims(k)
      BY <2>1 DEF Claims
    <3> QED
      BY <3>4, <3>5
  <2>3. AllClaims' = AllClaims \cup {p}
    BY <2>2 DEF AllClaims
  <2> QED
    BY <1>2, <2>3 DEF ClaimsKnown, Claim
<1> QED
  BY <1>1, <1>2, ClaimsGrow DEF Takes, Promises

\* A promise, as the other lemmas see it.
LEMMA TakeEffect ==
  ASSUME IInv, NEW k \in Jobs, NEW p \in Nat, Takes(k, p)
  PROVE  /\ claims[k] \in Seq(Nat) /\ pc[k] \in PlansAt /\ pc[k] \in PlanningAt /\ Before(k)
         /\ pub' = pub /\ snap' = snap
         /\ \A m \in Jobs \ {k} : claims'[m] = claims[m]
         /\ DOMAIN claims'[k] = DOMAIN claims[k] \cup {Decl(k)}
         /\ claims'[k][Decl(k)] = p /\ Decl(k) \notin DOMAIN claims[k]
         /\ \A i \in DOMAIN claims[k] : claims'[k][i] = claims[k][i]
<1>1. claims[k] \in Seq(Nat) /\ claims' = [claims EXCEPT ![k] = Append(@, p)] /\ claims \in [Jobs -> Seq(Nat)]
      /\ pub' = pub /\ snap' = snap /\ pc[k] \in {"planning", "recheck"}
  BY JobTyped DEF Takes, Promises, Claim, world, IInv, TypeOK
<1>2. claims'[k] = Append(claims[k], p) /\ \A m \in Jobs \ {k} : claims'[m] = claims[m]
  BY <1>1
<1> QED
  BY <1>1, <1>2 DEF Decl, PlansAt, PlanningAt, Before

\* A service that sits in the pool and whose turn it is.
LEMMA TakesNoHigher ==
  ASSUME OnePortEach, IInv, Machine, Drift, NEW j \in Jobs, NEW p \in Nat, Takes(j, p), NEW e \in Relocated(j)
  PROVE  /\ p = e[2] => Mode = "solo" \/ e[1] = Decl(j)
         /\ p \in Pool /\ e[1] = Decl(j) => p <= e[2]
<1>1. pc[j] \in PlansAt /\ pc[j] \in PlanningAt /\ e \in pub[Self(j)] /\ e[2] \in Pool
  BY TakeEffect DEF Relocated
<1>2. CASE p = Wanted(j)
  <2> SUFFICES ASSUME p \in Pool
               PROVE  Mode = "solo" /\ (e[1] = Decl(j) => p <= e[2])
    BY <1>1
  <2>1. Decl(j) = 1 /\ p = target
    BY <1>1, <1>2, WantedOffPool DEF Drift
  <2> QED
    BY <1>1, <2>1 DEF Drift, Aims, Climbs
<1>3. CASE pc[j] = "planning" /\ cursor \in 1..PORT_FALLBACK_SPAN /\ p = PoolPort(cursor) /\ PoolFits(j, p)
  <2>1. p = e[2] => Mode = "solo" \/ e[1] = Decl(j)
    BY <1>1, <1>3, ItsOwn DEF Drift, PoolFits
  <2>2. cursor > 0
    BY <1>3
  <2>3. e[1] = Decl(j) => p <= e[2]
    BY <1>3, <2>2 DEF Drift, Climbs
  <2> QED
    BY <2>1, <2>3
<1> QED
  BY <1>2, <1>3 DEF Takes

LEMMA NextKeepsKept ==
  ASSUME OnePortEach, IInv, Machine, Drift, [Next]_vars
  PROVE  KeptForIt' /\ NoDrift'
<1>1. ASSUME NEW j \in Jobs, Before(j)'
      PROVE  Before(j) /\ Relocated(j)' \subseteq Relocated(j)
  BY <1>1, BeforeStays, OwnStackShrinks DEF Relocated, Pool, PoolPort, Self, AppOf
<1>2. CASE claims' = claims
  BY <1>1, <1>2 DEF Drift, KeptForIt, NoDrift, Claims, Pool, PoolPort
<1>3. ASSUME NEW k \in Jobs, NEW p \in Nat, Takes(k, p), NEW j \in Jobs, Before(j)', NEW e \in Relocated(j)'
      PROVE  /\ \A m \in Jobs \ {j} : e[2] \notin Claims(m)'
             /\ \A i \in DOMAIN claims'[j] : claims'[j][i] = e[2] => Mode = "solo" \/ e[1] = i
             /\ e[1] \in DOMAIN claims'[j] /\ claims'[j][e[1]] \in Pool => claims'[j][e[1]] <= e[2]
  <2>1. Before(j) /\ e \in Relocated(j) /\ e \in pub[Self(j)]
    BY <1>1, <1>3 DEF Relocated
  <2>2. /\ \A m \in Jobs \ {j} : e[2] \notin Claims(m)
        /\ \A i \in DOMAIN claims[j] : claims[j][i] = e[2] => Mode = "solo" \/ e[1] = i
        /\ e[1] \in DOMAIN claims[j] /\ claims[j][e[1]] \in Pool => claims[j][e[1]] <= e[2]
    BY <2>1 DEF Drift, KeptForIt, NoDrift
  <2>3. CASE j # k
    <3>1. p # e[2]
      BY <1>3, <2>1, <2>3, TakeEffect, NotForOthers DEF Drift, Takes, Promises
    <3>2. \A m \in Jobs : Claims(m)' \subseteq Claims(m) \cup {p}
      BY <1>3, TakeEffect DEF Claims
    <3>3. claims'[j] = claims[j]
      BY <1>3, <2>3, TakeEffect
    <3> QED
      BY <2>2, <3>1, <3>2, <3>3
  <2>4. CASE j = k
    <3>1. \A m \in Jobs \ {j} : Claims(m)' = Claims(m)
      BY <1>3, <2>4, TakeEffect DEF Claims
    <3>2. /\ p = e[2] => Mode = "solo" \/ e[1] = Decl(j)
          /\ p \in Pool /\ e[1] = Decl(j) => p <= e[2]
      BY <1>3, <2>1, <2>4, TakesNoHigher
    <3> QED
      BY <1>3, <2>2, <2>4, <3>1, <3>2, TakeEffect
  <2> QED
    BY <2>3, <2>4
<1>4. ASSUME NEW k \in Jobs, NEW p \in Nat, Takes(k, p) PROVE KeptForIt' /\ NoDrift'
  BY <1>3, <1>4 DEF KeptForIt, NoDrift, Pool, PoolPort
<1> QED
  BY <1>2, <1>4, ClaimsGrow

LEMMA PoolStart ==
  /\ PoolPort(1) = PORT_FALLBACK_BASE
  /\ \A p \in Pool : p \in Nat /\ PORT_FALLBACK_BASE <= p
  /\ \A k \in Nat \ {0} : \A p \in Pool : PoolPort(k) <= p /\ PoolPort(k) # p => PoolPort(k + 1) <= p
BY PortMapAssumption DEF PoolPort, Pool

LEMMA SlotOffPool ==
  ASSUME OnePortEach, NEW j \in Jobs
  PROVE  SlotPort(AppOf(j)) \notin Pool
<1>1. AppOf(j) \in App /\ 1 \in 1..Decls[AppOf(j)]
  BY BatchAssumption, PortMapAssumption DEF AppOf, Jobs
<1>2. HomePort(AppOf(j), 1) = SlotPort(AppOf(j))
  BY DEF HomePort
<1> QED
  BY <1>1, <1>2 DEF OnePortEach

\* The solo picker walks the pool like the planner, for the only service there is.
LEMMA PickClimbs ==
  ASSUME OnePortEach, IInv, Machine, Drift, NEW j \in Jobs, Pick(j)
  PROVE  /\ Aims(j)'
         /\ \A e \in Relocated(j) :
              /\ pc'[j] = "picking" /\ cursor' > 0 /\ e[1] = 1 => PoolPort(cursor') <= e[2]
              /\ pc'[j] = "listed" /\ target' \in Pool /\ e[1] = 1 => target' <= e[2]
<1>1. /\ pc[j] = "picking" /\ pc[j] \in PlanningAt /\ Mode = "solo" /\ claims[j] = <<>> /\ cursor \in Nat
  BY DEF Pick, PlanningAt, Drift, Aims, IInv, NothingClaimedYet, TypeOK
<1>2. CASE PickFits(j) /\ target' = Candidate(j) /\ cursor' = 0 /\ pc'[j] = "listed"
  <2>1. ASSUME NEW e \in Relocated(j), target' \in Pool, e[1] = 1
        PROVE  target' <= e[2]
    <3>1. cursor > 0 /\ target' = PoolPort(cursor)
      BY <1>1, <1>2, <2>1, SlotOffPool DEF Candidate
    <3> QED
      BY <1>1, <2>1, <3>1 DEF Drift, Climbs
  <2> QED
    BY <1>1, <1>2, <2>1 DEF Aims
<1>3. CASE ~PickFits(j) /\ cursor' = cursor + 1 /\ pc'[j] = "picking"
  <2>1. ASSUME NEW e \in Relocated(j), e[1] = 1
        PROVE  PoolPort(cursor + 1) <= e[2]
    <3>1. e[2] \in Pool /\ e \in pub[Self(j)]
      BY DEF Relocated
    <3>2. CASE cursor = 0
      BY <3>1, <3>2, PoolStart
    <3>3. CASE cursor > 0
      <4>1. PoolPort(cursor) <= e[2] /\ Candidate(j) = PoolPort(cursor)
        BY <1>1, <2>1, <3>3 DEF Drift, Climbs, Candidate
      <4>2. e[1] = Decl(j)
        BY <1>1, <2>1 DEF Decl
      <4>3. e[2] \notin reserved /\ OwnHeld(j, e[2])
        BY <1>1, <3>1, <4>2, Unclaimed, ItsOwn DEF Drift
      <4>4. PoolPort(cursor) # e[2]
        BY <1>3, <4>1, <4>3 DEF PickFits
      <4> QED
        BY <1>1, <3>1, <3>3, <4>1, <4>4, PoolStart
    <3> QED
      BY <1>1, <3>2, <3>3
  <2> QED
    BY <1>1, <1>3, <2>1 DEF Aims, PlansAt
<1> QED
  BY <1>2, <1>3 DEF Pick, IInv, TypeOK

LEMMA ScanClimbs ==
  ASSUME OnePortEach, IInv, Machine, Drift, NEW j \in Jobs, pc[j] = "planning",
         cursor \in 1..PORT_FALLBACK_SPAN, ~PoolFits(j, PoolPort(cursor)),
         NEW e \in Relocated(j), e[1] = Decl(j)
  PROVE  PoolPort(cursor + 1) <= e[2]
<1>1. pc[j] \in PlanningAt /\ e[2] \in Pool /\ e \in pub[Self(j)] /\ cursor \in Nat \ {0}
  BY PortMapAssumption DEF PlanningAt, Relocated
<1>2. PoolPort(cursor) <= e[2]
  BY <1>1 DEF Drift, Climbs
<1>3. e[2] \notin claimed /\ Ours(j, e[2])
  BY <1>1, Unclaimed, ItsOwn DEF Drift
<1>4. PoolPort(cursor) # e[2]
  BY <1>3 DEF PoolFits
<1> QED
  BY <1>1, <1>2, <1>4, PoolStart

LEMMA PlanClimbs ==
  ASSUME OnePortEach, IInv, Machine, Drift, NEW j \in Jobs, Plan(j), pc'[j] \in PlanningAt,
         Relocated(j)' \subseteq Relocated(j)
  PROVE  Climbs(j)' /\ Aims(j)'
<1>1. \A e \in Relocated(j) : e[2] \in Pool
  BY DEF Relocated
<1>2. ~Die(j) /\ pc \in [Jobs -> Stage]
  BY DEF Die, IInv, TypeOK, PlanningAt
<1>3. CASE List(j)
  <2>1. cursor' = 0 /\ (target' = SlotPort(AppOf(j)) \/ target' = Requested) /\ pc'[j] \in {"picking", "listed"}
        /\ (pc'[j] = "picking" => Mode = "solo")
    BY <1>2, <1>3 DEF List
  <2>2. target' \notin Pool
    BY <2>1, SlotOffPool DEF OnePortEach
  <2> QED
    BY <2>1, <2>2 DEF Climbs, Aims, Pool, PoolPort
<1>4. CASE Pick(j)
  <2>1. pc'[j] \in {"picking", "listed"}
    BY <1>2, <1>4 DEF Pick
  <2> QED
    BY <1>4, <2>1, PickClimbs DEF Climbs, PlansAt, Pool, PoolPort
<1>5. CASE Open(j)
  <2>1. pc[j] = "listed" /\ pc'[j] = "planning" /\ cursor' = cursor /\ target' = target
    BY <1>2, <1>5 DEF Open
  <2>2. cursor = 0
    BY <2>1 DEF Drift, Aims
  <2> QED
    BY <2>1, <2>2 DEF Drift, Climbs, Aims, PlansAt, Pool, PoolPort
<1>6. CASE /\ pc[j] \in PlansAt /\ pc'[j] \in PlansAt /\ target' = target
           /\ pc'[j] = "planning" /\ cursor' > 0 =>
                \A e \in Relocated(j) : e[1] = Decl(j)' => PoolPort(cursor') <= e[2]
  BY <1>6 DEF Drift, Climbs, Aims, PlansAt, Pool, PoolPort
<1>7. CASE \E p \in Nat : Takes(j, p)
  <2>1. pc[j] \in PlansAt /\ \E p : Claim(j, p)
    BY <1>7, TakeEffect DEF Takes, Promises
  <2>2. target' = target /\ cursor' = 0 /\ pc'[j] \in {"up", "planning"}
    BY <1>2, <2>1 DEF Claim
  <2>3. pc'[j] \in PlansAt
    BY <2>2 DEF PlansAt, PlanningAt
  <2> QED
    BY <1>6, <2>1, <2>2, <2>3
<1>8. CASE StopTwin(j) \/ Relist(j)
  <2>1. pc[j] \in PlansAt /\ pc'[j] \in {"relist", "recheck"} /\ target' = target
    BY <1>2, <1>8 DEF StopTwin, Relist, PlansAt, planner
  <2> QED
    BY <1>6, <2>1 DEF PlansAt
<1>9. CASE LeaveWanted(j) \/ (Recheck(j) /\ ~Free(Wanted(j)))
  <2>1. pc[j] \in PlansAt /\ pc'[j] = "planning" /\ target' = target /\ cursor' = 1
    BY <1>2, <1>9 DEF LeaveWanted, Recheck, PlansAt
  <2> QED
    BY <1>1, <1>6, <2>1, PoolStart DEF PlansAt
<1>10. CASE ScanPool(j) /\ ~PoolFits(j, PoolPort(cursor))
  <2>1. /\ pc[j] = "planning" /\ pc'[j] = "planning" /\ target' = target /\ cursor' = cursor + 1
        /\ claims' = claims /\ cursor \in 1..PORT_FALLBACK_SPAN /\ ~PoolFits(j, PoolPort(cursor))
    BY <1>2, <1>10 DEF ScanPool
  <2>2. Decl(j)' = Decl(j)
    BY <2>1 DEF Decl
  <2> QED
    BY <1>6, <2>1, <2>2, ScanClimbs DEF PlansAt
<1>11. CASE claims' # claims
  BY <1>7, <1>11, PlanTakes
<1>12. CASE claims' = claims
  <2>1. \A p : ~Claim(j, p)
    BY <1>12, ClaimShows
  <2> QED
    BY <1>2, <1>3, <1>4, <1>5, <1>8, <1>9, <1>10, <2>1
       DEF Plan, NothingToPick, PoolIsFull, TakeWanted, Recheck, ScanPool
<1> QED
  BY <1>11, <1>12

LEMMA NextKeepsClimbs ==
  ASSUME OnePortEach, IInv, Machine, Drift, [Next]_vars, NEW j \in Jobs
  PROVE  Climbs(j)' /\ Aims(j)'
<1>1. CASE pc'[j] \notin PlanningAt
  BY <1>1 DEF Climbs, Aims, PlansAt, PlanningAt
<1>2. CASE pc'[j] \in PlanningAt
  <2>1. Before(j)'
    BY <1>2 DEF Before
  <2>2. Relocated(j)' \subseteq Relocated(j)
    BY <2>1, OwnStackShrinks DEF Relocated, Pool, PoolPort, Self, AppOf
  <2>3. CASE pc'[j] = pc[j] /\ claims'[j] = claims[j] /\ target' = target /\ cursor' = cursor
    BY <2>2, <2>3 DEF Drift, Climbs, Aims, Decl, Pool, PoolPort
  <2> QED
    BY <1>2, <2>2, <2>3, WalksAlone, PlanClimbs
<1> QED
  BY <1>1, <1>2

LEMMA NextKeepsDrift ==
  ASSUME OnePortEach, IInv, Machine, Drift, [Next]_vars
  PROVE  Drift'
BY NextKeepsWithin, NextKeepsWorld, NextKeepsKnown, NextKeepsKept, NextKeepsClimbs DEF Drift

LEMMA InitDrift == ASSUME OnePortEach PROVE Init => Drift
<1> SUFFICES ASSUME Init PROVE Drift
  OBVIOUS
<1>1. \A j \in Jobs : claims[j] = <<>> /\ pc[j] = "idle" /\ Claims(j) = {}
  BY DEF Init, Claims
<1> QED
  BY <1>1, WithinInit, InitWorld
     DEF Init, Drift, ClaimsKnown, KeptForIt, NoDrift, Climbs, Aims, PlansAt

\* Planning a stack again never moves a service that sits in the pool further
\* up it: planPorts looks at the pool from its start, and `ours` lets the
\* service take the port it is found on.
THEOREM NoServiceDriftsUp == ASSUME OnePortEach PROVE Spec => []NoUpwardDrift
<1>1. Drift => NoUpwardDrift
  BY DEF Drift, NoDrift, NoUpwardDrift, Relocated, Before, Promised
<1> QED
  BY <1>1, InitDrift, NextKeepsDrift, InitIInv, NextKeepsIInv, InitMachine, NextKeepsMachine, PTL DEF Spec

(***************************************************************************)
(* Where a reservation may be left behind.                                 *)
(***************************************************************************)

Accounts(j) == Promised(j) \/ DiedPlanning(j)

\* A planner at work has a declaration left to plan: dying, it leaves its claims behind.
LEMMA DieAccounts ==
  ASSUME IInv, Within, NEW j \in Jobs, pc[j] \in PlanningAt \/ claims[j] = <<>>, Die(j)
  PROVE  /\ claims' = claims /\ reserved' = reserved
         /\ \A k \in Jobs \ {j} : pc'[k] = pc[k]
         /\ Accounts(j)' \/ claims[j] = <<>>
<1>1. /\ claims' = claims /\ reserved' = reserved /\ pc'[j] = "failed"
      /\ \A k \in Jobs \ {j} : pc'[k] = pc[k]
  BY DEF Die, IInv, TypeOK
<1>2. pc[j] \in PlanningAt => Len(claims[j]) < Decls[AppOf(j)]
  BY JobTyped DEF Within, Decl
<1> QED
  BY <1>1, <1>2 DEF Accounts, DiedPlanning, AppOf

LEMMA NextKeepsAccounted ==
  ASSUME IInv, Machine, Within, ReservationsAccounted, [Next]_vars
  PROVE  ReservationsAccounted'
<1> DEFINE Live == UNION {Claims(k) : k \in {i \in Jobs : Accounts(i)}}
<1>1. reserved \subseteq Live /\ (ReservationsAccounted' <=> reserved' \subseteq Live')
  BY DEF ReservationsAccounted, Accounts
<1>2. ASSUME NEW j \in Jobs, NEW p \in Nat, Takes(j, p) PROVE ReservationsAccounted'
  <2>1. \A k \in Jobs : Claims(k) \subseteq Claims(k)'
    BY <1>2, TakeEffect DEF Claims
  <2>2. p \in Claims(j)'
    BY <1>2, TakeEffect DEF Claims
  <2>3. /\ pc[j] \in PlanningAt /\ pc'[j] \in PlanningAt \cup {"up"} /\ reserved' = reserved \cup {p}
        /\ \A k \in Jobs \ {j} : pc'[k] = pc[k] /\ claims'[k] = claims[k]
    BY <1>2 DEF Takes, Promises, Claim, PlanningAt, IInv, TypeOK
  <2>4. \A k \in Jobs : Accounts(k) => Accounts(k)'
    BY <2>3 DEF Accounts, Promised, DiedPlanning, AppOf, PlanningAt
  <2>5. Accounts(j)'
    BY <2>3 DEF Accounts, Promised
  <2> QED
    BY <1>1, <2>1, <2>2, <2>3, <2>4, <2>5
<1>3. ASSUME claims' = claims, reserved' \subseteq reserved,
             \A k \in Jobs : Accounts(k) => Accounts(k)' \/ claims[k] = <<>> \/ reserved' \cap Claims(k) = {}
      PROVE  ReservationsAccounted'
  <2>1. \A k \in Jobs : Claims(k)' = Claims(k)
    BY <1>3 DEF Claims
  <2>2. \A k \in Jobs : claims[k] = <<>> => Claims(k) = {}
    BY DEF Claims
  <2> QED
    BY <1>1, <1>3, <2>1, <2>2
<1>4. ASSUME claims' = claims, NEW k \in Jobs, pc'[k] = pc[k], Accounts(k) PROVE Accounts(k)'
  BY <1>4 DEF Accounts, Promised, DiedPlanning, AppOf
<1>5. ASSUME NEW j \in Jobs, Plan(j), claims' = claims PROVE ReservationsAccounted'
  <2>1. \A p : ~Claim(j, p)
    BY <1>5, ClaimShows
  <2>2. CASE Die(j)
    <3>1. pc[j] \in PlanningAt \/ claims[j] = <<>>
      BY <1>5, <2>2 DEF Plan, List, Pick, NothingToPick, Open, TakeWanted, StopTwin, Relist, Recheck,
         LeaveWanted, ScanPool, PoolIsFull, PlanningAt, IInv, NothingClaimedYet
    <3> QED
      BY <1>3, <1>4, <2>2, <3>1, DieAccounts
  <2>3. CASE ~Die(j)
    <3>1. /\ reserved' = reserved /\ pc'[j] \in PlanningAt
          /\ \A k \in Jobs \ {j} : pc'[k] = pc[k]
      BY <1>5, <2>1, <2>3 DEF Plan, List, Pick, NothingToPick, PoolIsFull, Open, TakeWanted, StopTwin, Relist,
         Recheck, LeaveWanted, ScanPool, planner, IInv, TypeOK, PlanningAt
    <3> QED
      BY <1>3, <1>4, <1>5, <3>1 DEF Accounts, Promised
  <2> QED
    BY <2>2, <2>3
<1>6. ASSUME NEW j \in Jobs, Up(j) PROVE ReservationsAccounted'
  <2>1. claims' = claims /\ reserved' = reserved \ Claims(j) /\ \A k \in Jobs \ {j} : pc'[k] = pc[k]
    BY <1>6 DEF Up, IInv, TypeOK
  <2> QED
    BY <1>3, <1>4, <2>1
<1>7. ASSUME NEW j \in Jobs, Begin(j) \/ Healthy(j) \/ Unhealthy(j) \/ Rollback(j) PROVE ReservationsAccounted'
  <2>1. claims' = claims /\ reserved' = reserved
    BY <1>7 DEF Begin, Healthy, Unhealthy, Rollback
  <2>2. \A k \in Jobs : Accounts(k) => pc'[k] = pc[k]
    BY <1>7 DEF Begin, Healthy, Unhealthy, Rollback, IInv, TypeOK, NotBegun, Jobs, Accounts, Promised,
       DiedPlanning, PlanningAt
  <2> QED
    BY <1>3, <1>4, <2>1, <2>2
<1>8. CASE ~\E j \in Jobs : Start(j)
  <2>1. claims' = claims /\ reserved' = reserved /\ pc' = pc
    BY <1>8 DEF Next, ForeignArrives, ForeignLeaves, StackDies, BatchDone, vars
  <2> QED
    BY <1>3, <1>4, <2>1
<1> QED
  BY <1>2, <1>5, <1>6, <1>7, <1>8, PlanTakes DEF Start

\* Whatever docker answers and however full the pool: a port stays in RESERVED_PORTS only
\* for a start that is still to bind it or one whose planner died between two of its
\* declarations (dynast-bench.ts:1360; the try that releases starts at 1589).
THEOREM ReservationsAreAccountedFor == Spec => []ReservationsAccounted
<1>1. Init => Within /\ ReservationsAccounted
  BY WithinInit DEF Init, ReservationsAccounted
<1>2. IInv /\ Machine /\ Within /\ ReservationsAccounted /\ [Next]_vars => ReservationsAccounted'
  BY NextKeepsAccounted
<1> QED
  BY <1>1, <1>2, NextKeepsWithin, InitIInv, NextKeepsIInv, InitMachine, NextKeepsMachine, PTL DEF Spec
=============================================================================
