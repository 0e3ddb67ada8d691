---------------------------- MODULE VolumesProofs ----------------------------
(* For any stacks, volumes and machine, and whatever docker and others do: a   *)
(* teardown takes nothing that was not selected, and says of nothing that it   *)
(* is gone which is not, unless docker failed when it asked what exists.       *)
EXTENDS Volumes, TLAPS

\* Who is being torn down, and what was found for whom.
Chosen ==
  /\ main = "list" => pc = [j \in Job |-> "idle"] /\ gone = {}
  /\ \A s \in Stack : pc[s] # "idle" => s \in targets

OwnHeld ==
  /\ \A s \in Stack : held[s] \subseteq VolumesOf(s)
  /\ main = "list" => held[Orphaned] = {}
  /\ held[Orphaned] \subseteq loose /\ (held[Orphaned] # {} => opt.orphans)

\* A volume that has been is either there or has gone.
Remembered == used \subseteq vols \cup gone /\ \A j \in Job : held[j] \subseteq used

VolInv == TypeOK /\ Chosen /\ OwnHeld /\ Remembered /\ OnlySelected

LEMMA StackIsJob == Stack \subseteq Job /\ Orphaned \in Job /\ Orphaned \notin Stack
BY VolumesAssumption DEF Job

\* Whatever goes with a stack's containers is the stack's.
LEMMA GoAlongIsOwn ==
  ASSUME NEW s \in Stack, linked \subseteq Vol, NEW V \in GoAlong(s)
  PROVE  V \subseteq VolumesOf(s)
<1>1. Anonymous(s) \subseteq VolumesOf(s)
  BY DEF Anonymous, VolumesOf
<1> DEFINE named == IF Drops /\ ~Forced(s) /\ s \notin Solo THEN VolumesOf(s) \cap Named ELSE {}
<1>2. named \subseteq VolumesOf(s)
  OBVIOUS
<1>3. V \in {Anonymous(s)} \cup {named \cup W : W \in SUBSET Anonymous(s)} \cup {{}}
  BY DEF GoAlong
<1> QED
  BY <1>1, <1>2, <1>3

LEMMA VolInitInv == Init => VolInv
<1> SUFFICES ASSUME Init PROVE VolInv
  OBVIOUS
<1>1. PICK m \in Machines : up = m.up /\ vols = m.vols /\ linked = m.linked /\ used = m.vols
  BY DEF Init
<1>2. up \subseteq Stack /\ linked \subseteq vols /\ vols \subseteq Vol /\ used = vols
  BY <1>1, VolumesAssumption
<1>3. TypeOK
  BY <1>2, StackIsJob, VolumesAssumption DEF Init, TypeOK
<1>4. Chosen
  BY StackIsJob DEF Init, Chosen
<1>5. OwnHeld
  BY StackIsJob DEF Init, OwnHeld
<1>6. Remembered /\ OnlySelected
  BY <1>2 DEF Init, Remembered, OnlySelected
<1> QED
  BY <1>3, <1>4, <1>5, <1>6 DEF VolInv

LEMMA ChooseKeepsInv ==
  ASSUME VolInv, Choose
  PROVE  VolInv'
<1> USE StackIsJob DEF VolInv
<1>1. main = "list" /\ main' \in {"teardown", "end"} /\ targets' \subseteq Stack
  <2>1. PICK heard \in Heard :
          targets' = IF opt.cmd = "stop" THEN Discovered \cap opt.wanted ELSE CleanTargets(heard)
    BY DEF Choose
  <2>2. Discovered \subseteq Stack /\ CleanTargets(heard) \subseteq Stack
    BY VolumesAssumption DEF Discovered, CleanTargets
  <2> QED
    BY <2>1, <2>2 DEF Choose
<1>2. loose' = Orphans /\ Orphans \subseteq vols
  BY DEF Choose, Orphans
<1>3. held' \in [Job -> SUBSET Vol] /\ (\A s \in Stack : held'[s] = held[s])
      /\ (held'[Orphaned] = held[Orphaned] \/ (opt.orphans /\ held'[Orphaned] = Orphans))
  BY <1>2 DEF Choose, TypeOK
<1>4. TypeOK'
  BY <1>1, <1>2, <1>3 DEF Choose, TypeOK, world
<1>5. Chosen'
  BY <1>1 DEF Choose, Chosen, world
<1>6. OwnHeld'
  BY <1>1, <1>2, <1>3 DEF Choose, OwnHeld, VolumesOf
<1>7. Remembered'
  BY <1>1, <1>2, <1>3 DEF Choose, Remembered, OwnHeld, TypeOK, world, Job
<1>8. OnlySelected'
  BY <1>1 DEF Choose, Chosen, OnlySelected, world
<1> QED
  BY <1>4, <1>5, <1>6, <1>7, <1>8

LEMMA HandKeepsInv ==
  ASSUME VolInv, NEW s \in Stack, Hand(s)
  PROVE  VolInv'
<1> USE StackIsJob DEF VolInv
<1>1. TypeOK' /\ main' = main /\ main = "teardown" /\ pc[s] = "waiting"
  BY DEF Hand, At, To, TypeOK, world, plan
<1>2. Chosen'
  BY <1>1 DEF Hand, To, TypeOK, Chosen, plan
<1>3. OwnHeld' /\ Remembered' /\ OnlySelected'
  BY DEF Hand, OwnHeld, Remembered, OnlySelected, VolumesOf, world, plan
<1> QED
  BY <1>1, <1>2, <1>3

LEMMA ReadKeepsInv ==
  ASSUME VolInv, NEW s \in Stack, ReadLabels(s) \/ ReadMounts(s)
  PROVE  VolInv'
<1> USE StackIsJob DEF VolInv
<1>1. main' = main /\ main = "teardown" /\ pc[s] # "idle" /\ targets' = targets
  BY DEF ReadLabels, ReadMounts, At, plan
<1>2. pc' = [pc EXCEPT ![s] = "mounts"] \/ pc' = [pc EXCEPT ![s] = "down"]
  BY DEF ReadLabels, ReadMounts, To
<1>3. PICK V \in SUBSET vols :
        /\ \A v \in V : Owner[v] = s
        /\ held' = [held EXCEPT ![s] = V] \/ held' = [held EXCEPT ![s] = @ \cup V] \/ held' = held
  <2>1. CASE ReadLabels(s)
    <3>1. {v \in vols \cap Named : Owner[v] = s} \in SUBSET vols
      OBVIOUS
    <3> QED
      BY <2>1, <3>1 DEF ReadLabels
  <2>2. CASE ReadMounts(s)
    <3>1. {v \in linked : Owner[v] = s} \in SUBSET vols
      BY DEF TypeOK
    <3> QED
      BY <2>2, <3>1 DEF ReadMounts
  <2> QED
    BY <2>1, <2>2
<1>4. hurt' \subseteq Job /\ deaf' \subseteq hurt'
  BY DEF ReadLabels, ReadMounts, Fails, TypeOK
<1>5. held' \in [Job -> SUBSET Vol] /\ (\A j \in Job \ {s} : held'[j] = held[j]) /\ held'[s] \subseteq held[s] \cup V
  BY <1>3 DEF TypeOK
<1>6. V \subseteq VolumesOf(s) /\ V \subseteq used
  BY <1>3 DEF TypeOK, VolumesOf
<1>7. UNCHANGED <<opt, up, vols, linked, nets, imgs, used, gone, main, targets, loose, alive, told, stale, others>>
  BY DEF ReadLabels, ReadMounts, world, plan
<1>8. TypeOK'
  BY <1>2, <1>4, <1>5, <1>7 DEF TypeOK
<1>9. Chosen'
  BY <1>1, <1>2, <1>7 DEF TypeOK, Chosen
<1>10. OwnHeld' /\ Remembered' /\ OnlySelected'
  BY <1>5, <1>6, <1>7 DEF OwnHeld, Remembered, OnlySelected, VolumesOf
<1> QED
  BY <1>8, <1>9, <1>10

LEMMA TakeDownKeepsInv ==
  ASSUME VolInv, NEW s \in Stack, TakeDown(s)
  PROVE  VolInv'
<1> USE StackIsJob DEF VolInv
<1>1. main' = main /\ main = "teardown" /\ pc[s] = "down" /\ s \in targets
  BY DEF TakeDown, At, plan, Chosen
<1>2. pc' = [pc EXCEPT ![s] = "done"] \/ pc' = [pc EXCEPT ![s] = "alive"]
  BY DEF TakeDown, To
<1>3. UNCHANGED <<opt, used, targets, loose, held, alive, told, stale, others>>
  BY DEF TakeDown, plan
<1>4. hurt' \subseteq Job /\ deaf' \subseteq hurt'
  BY DEF TakeDown, Fails, TypeOK
<1>5. CASE UNCHANGED <<up, vols, linked, nets, imgs, gone>>
  <2>1. TypeOK'
    BY <1>1, <1>2, <1>3, <1>4, <1>5 DEF TypeOK
  <2>2. Chosen'
    BY <1>1, <1>2, <1>3, <1>5 DEF TypeOK, Chosen
  <2>3. OwnHeld' /\ Remembered' /\ OnlySelected'
    BY <1>1, <1>3, <1>5 DEF OwnHeld, Remembered, OnlySelected, VolumesOf
  <2> QED
    BY <2>1, <2>2, <2>3
<1>6. CASE ~UNCHANGED <<up, vols, linked, nets, imgs, gone>>
  <2>1. PICK V \in GoAlong(s) :
          /\ Vanish(V)
          /\ up' = up \ {s} /\ linked' = linked \ VolumesOf(s) /\ nets' = nets \ {s}
          /\ imgs' = IF opt.images THEN imgs \ {s} ELSE imgs
    BY <1>6 DEF TakeDown
  <2>2. V \subseteq VolumesOf(s)
    BY GoAlongIsOwn DEF TypeOK
  <2>3. vols' = vols \ V /\ gone' = gone \cup (V \cap vols)
    BY <2>1 DEF Vanish
  <2>4. TypeOK'
    BY <1>1, <1>2, <1>3, <1>4, <2>1, <2>2, <2>3 DEF TypeOK
  <2>5. Chosen'
    BY <1>1, <1>2, <1>3 DEF TypeOK, Chosen
  <2>6. OwnHeld' /\ Remembered'
    BY <1>1, <1>3, <2>3 DEF OwnHeld, Remembered, VolumesOf
  <2>7. OnlySelected'
    BY <1>1, <1>3, <2>2, <2>3 DEF OnlySelected, VolumesOf
  <2> QED
    BY <2>4, <2>5, <2>6, <2>7
<1> QED
  BY <1>5, <1>6

LEMMA ReapVolumesKeepsInv ==
  ASSUME VolInv, NEW j \in Job, ReapVolumes(j)
  PROVE  VolInv'
<1> USE StackIsJob DEF VolInv
<1>1. main' = main /\ main = "teardown" /\ pc[j] # "idle"
  BY DEF ReapVolumes, ListAlive, Reap, ListAfter, At, plan
<1>2. \E l \in {"done", "reap", "after"} : pc' = [pc EXCEPT ![j] = l]
  BY DEF ReapVolumes, ListAlive, Reap, ListAfter, To
<1>3. UNCHANGED <<opt, up, linked, nets, imgs, used, targets, loose, held, stale, others>>
  BY DEF ReapVolumes, ListAlive, Reap, ListAfter, plan, world
<1>4. /\ alive' \in [Job -> SUBSET Vol] /\ told' \in [Job -> SUBSET Vol]
      /\ hurt' \subseteq Job /\ deaf' \subseteq hurt'
  <2>1. \A seen \in {vols, {}} : seen \subseteq Vol
    BY DEF TypeOK
  <2>2. held[j] \subseteq Vol
    BY DEF TypeOK
  <2>3. \A seen \in {vols, {}} : Existing(j, seen) => hurt' \subseteq Job /\ deaf' \subseteq hurt'
    BY DEF Existing, Fails, TypeOK
  <2>4. CASE ListAlive(j)
    <3>1. PICK seen \in {vols, {}} :
            /\ Existing(j, seen) /\ alive' = [alive EXCEPT ![j] = seen]
            /\ told' \in {told, [told EXCEPT ![j] = held[j] \ seen]}
      BY <2>4 DEF ListAlive
    <3>2. alive' \in [Job -> SUBSET Vol]
      BY <2>1, <3>1 DEF TypeOK
    <3>3. told' \in [Job -> SUBSET Vol]
      BY <2>2, <3>1 DEF TypeOK
    <3> QED
      BY <2>3, <3>1, <3>2, <3>3
  <2>5. CASE Reap(j)
    BY <2>5 DEF Reap, Fails, TypeOK
  <2>6. CASE ListAfter(j)
    BY <2>1, <2>2, <2>3, <2>6 DEF ListAfter, TypeOK
  <2> QED
    BY <2>4, <2>5, <2>6 DEF ReapVolumes
<1>5. PICK V \in SUBSET (held[j] \ linked) : vols' = vols \ V /\ gone' = gone \cup (V \cap vols)
  <2>1. CASE Reap(j)
    <3>1. (held[j] \cap alive[j]) \ linked \in SUBSET (held[j] \ linked)
      OBVIOUS
    <3>2. CASE Vanish((held[j] \cap alive[j]) \ linked)
      BY <3>1, <3>2 DEF Vanish
    <3>3. CASE UNCHANGED <<vols, gone>>
      <4>1. {} \in SUBSET (held[j] \ linked) /\ vols' = vols \ {} /\ gone' = gone \cup ({} \cap vols)
        BY <3>3
      <4> QED
        BY <4>1
    <3> QED
      BY <2>1, <3>2, <3>3 DEF Reap
  <2>2. CASE ListAlive(j) \/ ListAfter(j)
    <3>1. UNCHANGED <<vols, gone>>
      BY <2>2 DEF ListAlive, ListAfter, world
    <3>2. {} \in SUBSET (held[j] \ linked) /\ vols' = vols \ {} /\ gone' = gone \cup ({} \cap vols)
      BY <3>1
    <3> QED
      BY <3>2
  <2> QED
    BY <2>1, <2>2 DEF ReapVolumes
<1>6. TypeOK'
  BY <1>1, <1>2, <1>3, <1>4, <1>5 DEF TypeOK
<1>7. Chosen'
  BY <1>1, <1>2, <1>3 DEF TypeOK, Chosen
<1>8. OwnHeld' /\ Remembered'
  BY <1>1, <1>3, <1>5 DEF OwnHeld, Remembered, VolumesOf
<1>9. \A v \in V : Owner[v] \in targets \/ (opt.orphans /\ v \in loose)
  BY <1>1, <1>5 DEF OwnHeld, Chosen, VolumesOf, Job
<1>10. OnlySelected'
  BY <1>3, <1>5, <1>9 DEF OnlySelected
<1> QED
  BY <1>6, <1>7, <1>8, <1>10

LEMMA EndKeepsInv ==
  ASSUME VolInv, HandOrphans \/ Finish \/ UNCHANGED vars
  PROVE  VolInv'
<1> USE StackIsJob DEF VolInv
<1>1. CASE HandOrphans
  <2>1. TypeOK'
    BY <1>1 DEF HandOrphans, At, To, TypeOK, world, plan
  <2>2. Chosen'
    BY <1>1 DEF HandOrphans, At, To, TypeOK, Chosen, world, plan
  <2>3. OwnHeld' /\ Remembered' /\ OnlySelected'
    BY <1>1 DEF HandOrphans, At, OwnHeld, Remembered, OnlySelected, VolumesOf, world, plan
  <2> QED
    BY <2>1, <2>2, <2>3
<1>2. CASE Finish
  <2>1. TypeOK'
    BY <1>2 DEF Finish, TypeOK, world, work
  <2>2. Chosen' /\ OwnHeld' /\ Remembered' /\ OnlySelected'
    BY <1>2 DEF Finish, At, Chosen, OwnHeld, Remembered, OnlySelected, VolumesOf, world, work
  <2> QED
    BY <2>1, <2>2
<1>3. CASE UNCHANGED vars
  BY <1>3 DEF TypeOK, Chosen, OwnHeld, Remembered, OnlySelected, VolumesOf, vars, world, work, plan
<1> QED
  BY <1>1, <1>2, <1>3

\* What the others do to a stack changes neither what is selected nor what was found.
LEMMA OthersKeepInv ==
  ASSUME VolInv, NEW s \in Stack, OtherDown(s) \/ OtherUp(s)
  PROVE  VolInv'
<1> USE StackIsJob DEF VolInv
<1>1. UNCHANGED <<opt, gone, main, targets, loose, pc, held, alive, told>> /\ others' \in 0..MaxOthers
  BY VolumesAssumption DEF OtherDown, OtherUp, Other, plan, TypeOK
<1>2. /\ up' \subseteq Stack /\ nets' \subseteq Stack /\ imgs' \subseteq Stack /\ stale' \subseteq Stack
      /\ hurt' \subseteq Job /\ deaf' \subseteq hurt'
  BY DEF OtherDown, OtherUp, TypeOK
<1>3. vols \subseteq vols' /\ linked' \subseteq vols' /\ vols' \subseteq used' /\ used' \subseteq Vol
      /\ used \subseteq used' /\ used' \subseteq used \cup vols'
  <2>1. CASE OtherDown(s)
    BY <2>1 DEF OtherDown, TypeOK
  <2>2. CASE OtherUp(s)
    <3> DEFINE mine == (VolumesOf(s) \cap Named) \cup (VolumesOf(s) \ used)
    <3>1. vols' = vols \cup mine /\ linked' = linked \cup mine /\ used' = used \cup mine
      BY <2>2 DEF OtherUp
    <3>2. mine \subseteq Vol
      BY DEF VolumesOf
    <3> HIDE DEF mine
    <3> QED
      BY <3>1, <3>2 DEF TypeOK
  <2> QED
    BY <2>1, <2>2
<1>4. TypeOK'
  BY <1>1, <1>2, <1>3 DEF TypeOK
<1>5. Chosen' /\ OwnHeld' /\ OnlySelected'
  BY <1>1 DEF Chosen, OwnHeld, OnlySelected, VolumesOf
<1>6. Remembered'
  BY <1>1, <1>3 DEF Remembered
<1> QED
  BY <1>4, <1>5, <1>6

LEMMA VolStep == VolInv /\ [Next]_vars => VolInv'
<1> SUFFICES ASSUME VolInv, [Next]_vars PROVE VolInv'
  OBVIOUS
<1>1. CASE Choose
  BY <1>1, ChooseKeepsInv
<1>2. ASSUME NEW s \in Stack, Teardown(s) PROVE VolInv'
  BY <1>2, HandKeepsInv, ReadKeepsInv, TakeDownKeepsInv DEF Teardown
<1>3. ASSUME NEW j \in Job, ReapVolumes(j) PROVE VolInv'
  BY <1>3, ReapVolumesKeepsInv
<1>4. ASSUME NEW s \in Stack, OtherDown(s) \/ OtherUp(s) PROVE VolInv'
  BY <1>4, OthersKeepInv
<1>5. CASE HandOrphans \/ Finish \/ UNCHANGED vars
  BY <1>5, EndKeepsInv
<1> QED
  BY <1>1, <1>2, <1>3, <1>4, <1>5 DEF Next, Command1, Ended

LEMMA VolInductive == Spec => []VolInv
BY VolInitInv, VolStep, PTL DEF Spec

\* The variables keep their types, for any stacks and volumes.
THEOREM VolumesTypeCorrect == Spec => []TypeOK
<1>1. VolInv => TypeOK
  BY DEF VolInv
<1> QED
  BY <1>1, VolInductive, PTL

\* No interleaving of teardowns, of a docker that fails and of other users makes a teardown
\* take a volume of a stack that was not selected, or an orphan it was not asked for.
THEOREM SelectedOnly == Spec => []OnlySelected
<1>1. VolInv => OnlySelected
  BY DEF VolInv
<1> QED
  BY <1>1, VolInductive, PTL

\* What is reported is reported at the end.
Settled == \A j \in Job : told[j] # {} => pc[j] = "done"

\* The report of one teardown after a step: the one it had, with what it is about; what
\* docker did not list; or, where the listing failed, everything.
ReportStep(j) ==
  \/ told'[j] = told[j] /\ (told[j] # {} => held'[j] = held[j])
  \/ told'[j] = held[j] \ vols
  \/ told'[j] = held[j] /\ held'[j] = held[j] /\ j \in deaf'

LEMMA ReportSteps ==
  ASSUME VolInv, Settled, [Next]_vars, NEW j \in Job
  PROVE  ReportStep(j) /\ (told'[j] # {} => pc'[j] = "done")
<1> USE StackIsJob DEF VolInv
<1>1. CASE Choose
  <2>1. pc[j] = "idle" /\ told' = told
    BY <1>1 DEF Choose, Chosen
  <2> QED
    BY <2>1 DEF Settled, ReportStep
<1>2. ASSUME NEW s \in Stack, Hand(s) \/ ReadLabels(s) \/ ReadMounts(s) \/ TakeDown(s)
      PROVE  ReportStep(j) /\ (told'[j] # {} => pc'[j] = "done")
  <2>1. pc[s] # "done" /\ told' = told /\ (j # s => pc'[j] = pc[j] /\ held'[j] = held[j])
    BY <1>2 DEF Hand, ReadLabels, ReadMounts, TakeDown, At, To, TypeOK
  <2> QED
    BY <2>1 DEF Settled, ReportStep
<1>3. ASSUME NEW i \in Job, ReapVolumes(i)
      PROVE  ReportStep(j) /\ (told'[j] # {} => pc'[j] = "done")
  <2>1. pc[i] # "done" /\ held' = held /\ told[i] = {}
    BY <1>3 DEF ReapVolumes, ListAlive, Reap, ListAfter, At, Settled
  <2>2. j # i => pc'[j] = pc[j] /\ told'[j] = told[j]
    BY <1>3 DEF ReapVolumes, ListAlive, Reap, ListAfter, To, TypeOK
  <2>3. \/ told'[i] = told[i]
        \/ pc'[i] = "done" /\ told'[i] = held[i] \ vols
        \/ pc'[i] = "done" /\ told'[i] = held[i] /\ i \in deaf'
    <3>1. CASE ListAlive(i)
      <4>1. PICK seen \in {vols, {}} :
              /\ Existing(i, seen)
              /\ IF held[i] \cap seen = {}
                 THEN To(i, "done") /\ told' = [told EXCEPT ![i] = held[i] \ seen]
                 ELSE To(i, "reap") /\ UNCHANGED told
        BY <3>1 DEF ListAlive
      <4>2. CASE held[i] \cap seen = {}
        <5>1. pc'[i] = "done" /\ told'[i] = held[i] \ seen
          BY <4>1, <4>2 DEF To, TypeOK
        <5>2. seen = vols \/ (seen = {} /\ i \in deaf')
          BY <4>1 DEF Existing
        <5> QED
          BY <5>1, <5>2
      <4>3. CASE held[i] \cap seen # {}
        BY <4>1, <4>3
      <4> QED
        BY <4>2, <4>3
    <3>2. CASE Reap(i)
      BY <3>2 DEF Reap
    <3>3. CASE ListAfter(i)
      <4>1. PICK seen \in {vols, {}} :
              Existing(i, seen) /\ told' = [told EXCEPT ![i] = held[i] \ seen] /\ To(i, "done")
        BY <3>3 DEF ListAfter
      <4> QED
        BY <4>1 DEF Existing, To, TypeOK
    <3> QED
      BY <1>3, <3>1, <3>2, <3>3 DEF ReapVolumes
  <2> QED
    BY <2>1, <2>2, <2>3 DEF Settled, ReportStep
<1>4. CASE HandOrphans
  <2>1. pc[Orphaned] # "done" /\ told' = told /\ held' = held /\ (j # Orphaned => pc'[j] = pc[j])
    BY <1>4 DEF HandOrphans, At, To, TypeOK
  <2> QED
    BY <2>1 DEF Settled, ReportStep
<1>5. CASE Finish \/ UNCHANGED vars
  BY <1>5 DEF Finish, vars, work, Settled, ReportStep
<1>6. ASSUME NEW s \in Stack, OtherDown(s) \/ OtherUp(s)
      PROVE  ReportStep(j) /\ (told'[j] # {} => pc'[j] = "done")
  BY <1>6 DEF OtherDown, OtherUp, Settled, ReportStep
<1> QED
  BY <1>1, <1>2, <1>3, <1>4, <1>5, <1>6 DEF Next, Command1, Teardown, Ended

LEMMA ToldStep ==
  ASSUME VolInv, Settled, ToldIsGone, [Next]_vars
  PROVE  Settled' /\ ToldIsGone'
<1> USE StackIsJob DEF VolInv
<1>1. gone \subseteq gone'
  BY DEF Next, Command1, Teardown, ReapVolumes, Choose, HandOrphans, Finish, Ended, OtherDown, OtherUp,
         Hand, ReadLabels, ReadMounts, TakeDown, ListAlive, Reap, ListAfter, Vanish, vars, world
<1>2. deaf \subseteq deaf'
  BY DEF Next, Command1, Teardown, ReapVolumes, Choose, HandOrphans, Finish, Ended, OtherDown, OtherUp,
         Hand, ReadLabels, ReadMounts, TakeDown, ListAlive, Reap, ListAfter, Existing, vars, work
<1>3. ASSUME NEW j \in Job
      PROVE  told'[j] \subseteq gone' \/ (j \in deaf' /\ told'[j] = held'[j])
  <2>1. ReportStep(j)
    BY ReportSteps
  <2>2. held[j] \ vols \subseteq gone
    BY DEF Remembered
  <2>3. told[j] \subseteq gone \/ (j \in deaf /\ told[j] = held[j])
    BY DEF ToldIsGone
  <2> QED
    BY <1>1, <1>2, <2>1, <2>2, <2>3 DEF ReportStep
<1> QED
  BY <1>3, ReportSteps DEF Settled, ToldIsGone

\* A volume reported deleted has disappeared, whoever removed it and whatever else failed,
\* unless docker failed when that teardown asked which volumes exist; then it may report
\* everything it held, and never a part of it.
THEOREM ReportedIsGone == Spec => []ToldIsGone
<1>1. Init => Settled /\ ToldIsGone
  BY DEF Init, Settled, ToldIsGone
<1>2. VolInv /\ Settled /\ ToldIsGone /\ [Next]_vars => Settled' /\ ToldIsGone'
  BY ToldStep
<1> QED
  BY <1>1, <1>2, VolInductive, PTL DEF Spec

(***************************************************************************)
(* What an undisturbed teardown leaves.                                    *)
(***************************************************************************)

OfStack(V, s) == {v \in V : Owner[v] = s}

LinkedAreUp == \A v \in linked : Owner[v] \in up

LooseAnonymous == loose \cap Named = {}

\* A stack that nobody has touched yet is as it was when the command started.
Standing(s) ==
  /\ s \in imgs => s \in up
  /\ s \in up => OfStack(vols \cap Named, s) \subseteq linked
  /\ s \in targets \cap Solo => s \in up
  /\ OfStack(gone, s) \subseteq loose
  /\ main # "list" => /\ OfStack(linked, s) \cap loose = {}
                      /\ OfStack(vols \ Named, s) \subseteq linked \cup loose
  /\ told[s] = {}

\* The two sources together find every volume of it that is not loose.
Found(s) ==
  /\ pc[s] = "down" => held[s] = OfStack(vols, s) \cap (Named \cup linked)
  /\ pc[s] # "down" =>
       held[s] = IF pc[s] = "mounts" /\ s \notin Solo THEN OfStack(vols \cap Named, s) ELSE {}
  /\ pc[s] = "labels" => s \notin Solo

\* Once its containers are gone, what remains of it was found and has no link.
TakenDown(s) ==
  /\ s \notin up \cup nets
  /\ held[s] \cap loose = {}
  /\ OfStack(vols, s) \subseteq held[s] \cup loose
  /\ OfStack(gone, s) \ loose = held[s] \ vols
  /\ pc[s] # "done" => told[s] = {}
  /\ pc[s] = "reap" => held[s] \cap vols \subseteq alive[s]
  /\ pc[s] \in {"after", "done"} => held[s] \cap vols = {}
  /\ pc[s] = "done" => told[s] = held[s]

BeforeDown == {"idle", "waiting", "labels", "mounts", "down"}
AfterDown  == {"alive", "reap", "after", "done"}

Undisturbed(s) ==
  /\ pc[s] \in BeforeDown => Standing(s) /\ (Drops => Found(s))
  /\ pc[s] \in AfterDown /\ Drops => TakenDown(s)

LeftInv == /\ LinkedAreUp /\ LooseAnonymous
           /\ \A s \in Stack \ hurt : Undisturbed(s)

\* A step that leaves a stack alone: what is loose may go.
Spares(s) ==
  /\ pc'[s] = pc[s] /\ held'[s] = held[s] /\ told'[s] = told[s] /\ alive'[s] = alive[s]
  /\ UNCHANGED <<opt, targets, loose, main>>
  /\ (s \in up' <=> s \in up) /\ (s \in nets' <=> s \in nets) /\ (s \in imgs' <=> s \in imgs)
  /\ OfStack(linked', s) = OfStack(linked, s)
  /\ OfStack(vols', s) \subseteq OfStack(vols, s)
  /\ OfStack(vols', s) \ loose = OfStack(vols, s) \ loose
  /\ OfStack(gone', s) \ loose = OfStack(gone, s) \ loose
  /\ main = "list" => UNCHANGED vols

LEMMA SparedStays ==
  ASSUME VolInv, LeftInv, NEW s \in Stack \ hurt, Spares(s)
  PROVE  Undisturbed(s)'
<1> USE DEF Spares, VolInv
<1>1. held[s] \subseteq VolumesOf(s) /\ linked \subseteq vols /\ loose \cap Named = {}
  BY DEF OwnHeld, TypeOK, LeftInv, LooseAnonymous
<1>2. Drops' = Drops
  BY DEF Drops
<1>3. CASE pc[s] \in BeforeDown
  <2>1. Standing(s) /\ (Drops => Found(s))
    BY <1>3 DEF LeftInv, Undisturbed
  <2>2. pc[s] \notin AfterDown
    BY <1>3 DEF BeforeDown, AfterDown
  <2>3. Standing(s)'
    BY <1>1, <2>1 DEF Standing, OfStack
  <2>4. main = "list" => pc[s] # "down"
    BY StackIsJob DEF Chosen
  <2>5. OfStack(vols', s) \cap (Named \cup linked') = OfStack(vols, s) \cap (Named \cup linked)
        \/ pc[s] # "down"
    BY <1>1, <2>1, <2>4 DEF Standing, OfStack
  <2>6. OfStack(vols' \cap Named, s) = OfStack(vols \cap Named, s)
    BY <1>1 DEF OfStack
  <2>7. Drops => Found(s)'
    BY <2>1, <2>5, <2>6 DEF Found
  <2> QED
    BY <1>2, <2>2, <2>3, <2>7 DEF Undisturbed
<1>4. CASE pc[s] \in AfterDown /\ Drops
  <2>1. TakenDown(s)
    BY <1>4 DEF LeftInv, Undisturbed
  <2>2. pc[s] \notin BeforeDown
    BY <1>4 DEF BeforeDown, AfterDown
  <2>3. held[s] \cap vols' = held[s] \cap vols /\ held[s] \ vols' = held[s] \ vols
    BY <1>1, <2>1 DEF TakenDown, OfStack, VolumesOf
  <2>4. TakenDown(s)'
    BY <2>1, <2>3 DEF TakenDown, OfStack
  <2> QED
    BY <2>2, <2>4 DEF Undisturbed
<1> QED
  BY <1>2, <1>3, <1>4 DEF Undisturbed

LEMMA LeftInit == Init => LeftInv
<1> SUFFICES ASSUME Init PROVE LeftInv
  OBVIOUS
<1>1. PICK m \in Machines : up = m.up /\ vols = m.vols /\ linked = m.linked /\ used = m.vols
  BY DEF Init
<1>2. /\ up \subseteq Stack /\ linked \subseteq vols /\ vols \subseteq Vol
      /\ \A v \in linked : Owner[v] \in up
      /\ \A v \in vols \cap Named : Owner[v] \in up => v \in linked
  BY <1>1, VolumesAssumption
<1>3. ASSUME NEW s \in Stack PROVE Undisturbed(s)
  <2>1. pc[s] = "idle" /\ held[s] = {} /\ told[s] = {} /\ gone = {} /\ imgs = up /\ main = "list"
        /\ targets = {}
    BY StackIsJob DEF Init
  <2>2. Standing(s) /\ Found(s)
    BY <1>2, <2>1 DEF Standing, Found, OfStack
  <2> QED
    BY <2>1, <2>2 DEF Undisturbed, AfterDown
<1> QED
  BY <1>2, <1>3 DEF LeftInv, LinkedAreUp, LooseAnonymous, Init

\* What the command chooses is still as it was, and what it holds loose has no link.
LEMMA ChooseLeaves ==
  ASSUME VolInv, LeftInv, Choose
  PROVE  LeftInv'
<1> USE StackIsJob DEF VolInv
<1>1. /\ main = "list" /\ main' # "list" /\ loose' = Orphans
      /\ UNCHANGED <<opt, up, vols, linked, nets, imgs, used, gone, alive, told, hurt>>
      /\ \E heard \in Heard :
           targets' = IF opt.cmd = "stop" THEN Discovered \cap opt.wanted ELSE CleanTargets(heard)
  BY DEF Choose, world
<1>2. LinkedAreUp' /\ LooseAnonymous'
  BY <1>1 DEF LeftInv, LinkedAreUp, LooseAnonymous, Orphans
<1>3. ASSUME NEW s \in Stack \ hurt PROVE Undisturbed(s)'
  <2>1. pc[s] = "idle" /\ pc'[s] \in {"idle", "waiting"} /\ held'[s] = held[s] /\ gone = {}
    BY <1>1 DEF Choose, Chosen, TypeOK
  <2>2. Standing(s) /\ (Drops => Found(s))
    BY <2>1 DEF LeftInv, Undisturbed, BeforeDown
  <2>3. s \in targets' \cap Solo => s \in up
    <3>1. PICK heard \in Heard :
            targets' = IF opt.cmd = "stop" THEN Discovered \cap opt.wanted ELSE CleanTargets(heard)
      BY <1>1
    <3>2. s \in Solo /\ s \in CleanTargets(heard) => s \in up \/ s \in imgs
      BY DEF CleanTargets
    <3> QED
      BY <2>2, <3>1, <3>2 DEF Standing, Discovered
  <2>4. Standing(s)'
    BY <1>1, <2>1, <2>2, <2>3 DEF Standing, OfStack, Orphans
  <2>5. (Drops => Found(s))'
    BY <1>1, <2>1, <2>2 DEF Found, Drops
  <2> QED
    BY <2>1, <2>4, <2>5 DEF Undisturbed, AfterDown
<1> QED
  BY <1>1, <1>2, <1>3 DEF LeftInv

\* The stacks other than the one a teardown is of.
LEMMA ReadSpares ==
  ASSUME VolInv, NEW s \in Stack, NEW t \in Stack \ {s},
         Hand(s) \/ ReadLabels(s) \/ ReadMounts(s)
  PROVE  Spares(t)
<1>1. pc'[t] = pc[t] /\ held'[t] = held[t]
  BY StackIsJob DEF VolInv, TypeOK, Hand, ReadLabels, ReadMounts, To
<1> QED
  BY <1>1 DEF Spares, Hand, ReadLabels, ReadMounts, world, plan

LEMMA HandLeaves ==
  ASSUME VolInv, LeftInv, NEW s \in Stack, Hand(s)
  PROVE  LeftInv'
<1> USE StackIsJob DEF VolInv
<1>1. UNCHANGED <<opt, up, vols, linked, nets, imgs, gone, main, targets, loose, held, alive, told, hurt>>
  BY DEF Hand, world, plan
<1>2. ASSUME s \notin hurt PROVE Undisturbed(s)'
  <2>1. pc[s] = "waiting" /\ pc'[s] = IF ~Drops THEN "down" ELSE IF s \in Solo THEN "mounts" ELSE "labels"
    BY DEF Hand, At, To, TypeOK
  <2>2. Standing(s) /\ (Drops => Found(s))
    BY <1>2, <2>1 DEF LeftInv, Undisturbed, BeforeDown
  <2>3. Standing(s)' /\ Drops' = Drops
    BY <1>1, <2>2 DEF Standing, Drops
  <2>4. Drops => Found(s)'
    BY <1>1, <2>1, <2>2 DEF Found
  <2> QED
    BY <2>1, <2>3, <2>4 DEF Undisturbed, AfterDown
<1>3. \A t \in Stack \ (hurt \cup {s}) : Undisturbed(t)'
  BY ReadSpares, SparedStays
<1> QED
  BY <1>1, <1>2, <1>3 DEF LeftInv, LinkedAreUp, LooseAnonymous

\* First the labels, then the mounts: together all that is not loose.
LEMMA ReadLeaves ==
  ASSUME VolInv, LeftInv, NEW s \in Stack, ReadLabels(s) \/ ReadMounts(s)
  PROVE  LeftInv'
<1> USE StackIsJob DEF VolInv
<1>1. /\ UNCHANGED <<opt, up, vols, linked, nets, imgs, gone, main, targets, loose, alive, told>>
      /\ hurt \subseteq hurt' /\ main = "teardown"
  BY DEF ReadLabels, ReadMounts, world, plan, Fails, At
<1>2. ASSUME s \notin hurt' PROVE Undisturbed(s)'
  <2>1. /\ pc[s] \in {"labels", "mounts"} /\ held \in [Job -> SUBSET Vol]
        /\ pc'[s] = IF pc[s] = "labels" THEN "mounts" ELSE "down"
    BY DEF ReadLabels, ReadMounts, At, To, TypeOK
  <2>2. Standing(s) /\ (Drops => Found(s)) /\ s \notin hurt
    BY <1>1, <1>2, <2>1 DEF LeftInv, Undisturbed, BeforeDown
  <2>3. Standing(s)' /\ Drops' = Drops
    BY <1>1, <2>2 DEF Standing, Drops
  <2>4. CASE ReadLabels(s)
    <3>1. held'[s] = OfStack(vols \cap Named, s) /\ pc[s] = "labels"
      BY <1>2, <2>1, <2>4 DEF ReadLabels, Fails, At, OfStack
    <3>2. Drops => s \notin Solo
      BY <2>2, <3>1 DEF Found
    <3> QED
      BY <1>1, <2>1, <2>3, <3>1, <3>2 DEF Undisturbed, Found, AfterDown
  <2>5. CASE ReadMounts(s)
    <3>1. held'[s] = held[s] \cup OfStack(linked, s) /\ pc[s] = "mounts"
      BY <1>2, <2>1, <2>5 DEF ReadMounts, Fails, At, OfStack
    <3>2. linked \subseteq vols /\ s \in targets
      BY <2>1 DEF TypeOK, Chosen
    <3>3. s \in Solo => OfStack(vols \cap Named, s) \subseteq linked
      BY <2>2, <3>2 DEF Standing
    <3>4. Drops => held'[s] = OfStack(vols, s) \cap (Named \cup linked)
      BY <2>2, <3>1, <3>2, <3>3 DEF Found, OfStack
    <3> QED
      BY <1>1, <2>1, <2>3, <3>1, <3>4 DEF Undisturbed, Found, AfterDown
  <2> QED
    BY <2>4, <2>5
<1>3. \A t \in Stack \ (hurt' \cup {s}) : Undisturbed(t)'
  BY <1>1, ReadSpares, SparedStays
<1> QED
  BY <1>1, <1>2, <1>3 DEF LeftInv, LinkedAreUp, LooseAnonymous

LEMMA TakeDownLeaves ==
  ASSUME VolInv, LeftInv, NEW s \in Stack, TakeDown(s)
  PROVE  LeftInv'
<1> USE StackIsJob DEF VolInv
<1>1. /\ UNCHANGED <<opt, used, main, targets, loose, held, alive, told, stale>>
      /\ hurt \subseteq hurt' /\ main = "teardown" /\ Drops' = Drops
  BY DEF TakeDown, plan, Fails, At, Drops
<1>2. pc[s] = "down" /\ pc'[s] = (IF held[s] = {} THEN "done" ELSE "alive")
      /\ \A t \in Stack \ {s} : pc'[t] = pc[t]
  BY DEF TakeDown, At, To, TypeOK
<1>3. PICK V \in SUBSET VolumesOf(s), S \in {{}, {s}} :
        /\ vols' = vols \ V /\ gone' = gone \cup (V \cap vols)
        /\ up' = up \ S /\ nets' = nets \ S /\ imgs' \in {imgs, imgs \ {s}}
        /\ linked' = IF S = {} THEN linked ELSE linked \ VolumesOf(s)
        /\ s \notin hurt' => S = {s} /\ V \in GoAlong(s)
  <2>1. CASE UNCHANGED <<up, vols, linked, nets, imgs, gone>> /\ s \in hurt'
    <3>1. /\ vols' = vols \ {} /\ gone' = gone \cup ({} \cap vols)
          /\ up' = up \ {} /\ nets' = nets \ {} /\ imgs' \in {imgs, imgs \ {s}}
          /\ linked' = linked
      BY <2>1
    <3> QED
      BY <2>1, <3>1
  <2>2. CASE \E V \in GoAlong(s) :
               /\ Vanish(V)
               /\ up' = up \ {s} /\ linked' = linked \ VolumesOf(s) /\ nets' = nets \ {s}
               /\ imgs' = IF opt.images THEN imgs \ {s} ELSE imgs
    <3>1. PICK V \in GoAlong(s) :
            /\ Vanish(V)
            /\ up' = up \ {s} /\ linked' = linked \ VolumesOf(s) /\ nets' = nets \ {s}
            /\ imgs' \in {imgs, imgs \ {s}}
      BY <2>2
    <3>2. V \subseteq VolumesOf(s)
      BY GoAlongIsOwn DEF TypeOK
    <3> QED
      BY <3>1, <3>2 DEF Vanish
  <2>3. UNCHANGED <<up, vols, linked, nets, imgs, gone>> /\ Fails(s) => s \in hurt'
    BY DEF Fails
  <2> QED
    BY <2>1, <2>2, <2>3 DEF TakeDown
<1>4. LinkedAreUp' /\ LooseAnonymous'
  BY <1>1, <1>3 DEF LeftInv, LinkedAreUp, LooseAnonymous, VolumesOf, TypeOK
<1>5. ASSUME s \notin hurt' PROVE Undisturbed(s)'
  <2>1. Standing(s) /\ (Drops => Found(s)) /\ s \notin hurt /\ loose \cap Named = {}
    BY <1>1, <1>2, <1>5 DEF LeftInv, Undisturbed, BeforeDown, LooseAnonymous
  <2>2. SUFFICES ASSUME Drops PROVE TakenDown(s)'
    BY <1>1, <1>2 DEF Undisturbed, BeforeDown
  <2>3. held[s] = OfStack(vols, s) \cap (Named \cup linked)
    BY <1>2, <2>1, <2>2 DEF Found
  <2>4. V \in GoAlong(s) /\ V \subseteq VolumesOf(s) /\ s \notin up' \cup nets'
    BY <1>3, <1>5
  <2>5. V \subseteq Named \cup linked
    <3> DEFINE named == IF Drops /\ ~Forced(s) /\ s \notin Solo THEN VolumesOf(s) \cap Named ELSE {}
    <3>1. V \in {Anonymous(s)} \cup {named \cup W : W \in SUBSET Anonymous(s)} \cup {{}}
      BY <2>4 DEF GoAlong
    <3>2. Anonymous(s) \subseteq linked /\ named \subseteq Named
      BY DEF Anonymous
    <3> QED
      BY <3>1, <3>2
  <2>6. main # "list" /\ OfStack(linked, s) \cap loose = {} /\ OfStack(vols \ Named, s) \subseteq linked \cup loose
    BY <1>1, <2>1 DEF Standing
  <2>7. held[s] \cap loose = {}
    BY <2>1, <2>3, <2>6 DEF OfStack
  <2>8. OfStack(vols', s) \subseteq held[s] \cup loose
    BY <1>3, <2>3, <2>6 DEF OfStack
  <2>9. OfStack(gone', s) \ loose = held[s] \ vols'
    <3>1. OfStack(gone, s) \subseteq loose /\ vols' = vols \ V /\ gone' = gone \cup (V \cap vols)
      BY <1>3, <2>1 DEF Standing
    <3>2. V \cap vols \subseteq held[s] /\ held[s] \subseteq vols
      BY <2>3, <2>4, <2>5 DEF OfStack, VolumesOf
    <3>3. OfStack(V \cap vols, s) = V \cap vols
      BY <2>4 DEF OfStack, VolumesOf
    <3>4. OfStack(gone', s) = OfStack(gone, s) \cup (V \cap vols)
      BY <3>1, <3>3 DEF OfStack
    <3> QED
      BY <3>1, <3>2, <3>4, <2>7
  <2>10. told[s] = {} /\ (held[s] = {} => pc'[s] = "done") /\ (held[s] # {} => pc'[s] = "alive")
    BY <1>2, <2>1 DEF Standing
  <2> QED
    BY <1>1, <2>4, <2>7, <2>8, <2>9, <2>10 DEF TakenDown
<1>6. ASSUME NEW t \in Stack \ (hurt' \cup {s}) PROVE Spares(t)
  <2>1. \A v \in V : Owner[v] # t
    BY <1>3 DEF VolumesOf
  <2> QED
    BY <1>1, <1>2, <1>3, <2>1 DEF Spares, OfStack, VolumesOf
<1>7. \A t \in Stack \ (hurt' \cup {s}) : Undisturbed(t)'
  BY <1>1, <1>6, SparedStays
<1> QED
  BY <1>4, <1>5, <1>7 DEF LeftInv

\* Reaping is told of what docker says is left, while it says.
LEMMA ReapLeaves ==
  ASSUME VolInv, LeftInv, NEW j \in Job, ReapVolumes(j)
  PROVE  LeftInv'
<1> USE StackIsJob DEF VolInv
<1>1. /\ UNCHANGED <<opt, up, linked, nets, imgs, used, main, targets, loose, held, stale>>
      /\ hurt \subseteq hurt' /\ main = "teardown" /\ Drops' = Drops
  BY DEF ReapVolumes, ListAlive, Reap, ListAfter, Existing, world, plan, Fails, At, Drops
<1>2. \A t \in Job \ {j} : pc'[t] = pc[t] /\ told'[t] = told[t] /\ alive'[t] = alive[t]
  BY DEF ReapVolumes, ListAlive, Reap, ListAfter, To, TypeOK
<1>3. PICK V \in SUBSET (held[j] \ linked) :
        /\ vols' = vols \ V /\ gone' = gone \cup (V \cap vols)
        /\ Reap(j) /\ j \notin hurt' => V = (held[j] \cap alive[j]) \ linked
        /\ ~Reap(j) => V = {}
  <2>1. CASE Reap(j) /\ Vanish((held[j] \cap alive[j]) \ linked)
    BY <2>1 DEF Vanish
  <2>2. CASE UNCHANGED <<vols, gone>> /\ (Reap(j) => j \in hurt')
    <3>1. vols' = vols \ {} /\ gone' = gone \cup ({} \cap vols)
      BY <2>2
    <3> QED
      BY <2>2, <3>1
  <2>3. Reap(j) /\ Fails(j) => j \in hurt'
    BY DEF Fails
  <2> QED
    BY <2>1, <2>2, <2>3 DEF ReapVolumes, ListAlive, Reap, ListAfter, world
<1>4. LinkedAreUp' /\ LooseAnonymous'
  BY <1>1 DEF LeftInv, LinkedAreUp, LooseAnonymous
<1>5. ASSUME j \in Stack, j \notin hurt' PROVE Undisturbed(j)'
  <2>1. pc[j] \in {"alive", "reap", "after"}
    BY DEF ReapVolumes, ListAlive, Reap, ListAfter, At
  <2>2. pc'[j] \in {"reap", "after", "done"}
    BY DEF ReapVolumes, ListAlive, Reap, ListAfter, To, TypeOK
  <2>3. SUFFICES ASSUME Drops PROVE TakenDown(j)'
    BY <1>1, <2>2 DEF Undisturbed, BeforeDown
  <2>4. TakenDown(j) /\ LinkedAreUp
    BY <1>1, <1>5, <2>1, <2>3 DEF LeftInv, Undisturbed, AfterDown
  <2>5. /\ j \notin up \cup nets /\ held[j] \cap loose = {} /\ OfStack(vols, j) \subseteq held[j] \cup loose
        /\ OfStack(gone, j) \ loose = held[j] \ vols /\ told[j] = {}
    BY <2>1, <2>4 DEF TakenDown
  <2>6. held[j] \subseteq VolumesOf(j) /\ held[j] \cap linked = {} /\ vols \subseteq Vol
    BY <1>5, <2>4, <2>5 DEF OwnHeld, LinkedAreUp, VolumesOf, TypeOK
  <2>7. OfStack(vols', j) \subseteq held[j] \cup loose /\ OfStack(gone', j) \ loose = held[j] \ vols'
    <3>1. OfStack(V \cap vols, j) = V \cap vols /\ V \cap loose = {} /\ V \subseteq held[j]
      BY <1>3, <2>5, <2>6 DEF OfStack, VolumesOf
    <3>2. OfStack(gone', j) = OfStack(gone, j) \cup (V \cap vols) /\ OfStack(vols', j) \subseteq OfStack(vols, j)
      BY <1>3, <3>1 DEF OfStack
    <3> QED
      BY <1>3, <2>5, <3>1, <3>2
  <2>8. CASE ListAlive(j)
    <3>1. /\ alive'[j] = vols /\ vols' = vols
          /\ IF held[j] \cap vols = {} THEN pc'[j] = "done" /\ told'[j] = held[j] \ vols
             ELSE pc'[j] = "reap" /\ told'[j] = told[j]
      <4>1. PICK seen \in {vols, {}} :
              /\ Existing(j, seen) /\ alive' = [alive EXCEPT ![j] = seen]
              /\ IF held[j] \cap seen = {}
                 THEN To(j, "done") /\ told' = [told EXCEPT ![j] = held[j] \ seen]
                 ELSE To(j, "reap") /\ UNCHANGED told
        BY <2>8 DEF ListAlive
      <4>2. seen = vols
        BY <1>5, <4>1 DEF Existing, Fails
      <4> QED
        BY <2>8, <4>1, <4>2 DEF ListAlive, To, TypeOK, world
    <3> QED
      BY <1>1, <2>5, <2>7, <3>1 DEF TakenDown
  <2>9. CASE Reap(j)
    <3>1. pc[j] = "reap" /\ pc'[j] = "after" /\ told'[j] = told[j] /\ alive'[j] = alive[j]
      BY <2>9 DEF Reap, At, To, TypeOK
    <3>2. held[j] \cap vols \subseteq alive[j] /\ V = (held[j] \cap alive[j]) \ linked
      BY <1>3, <1>5, <2>4, <2>9, <3>1 DEF TakenDown
    <3>3. held[j] \cap vols' = {}
      BY <1>3, <2>6, <3>2
    <3> QED
      BY <1>1, <2>5, <2>7, <3>1, <3>3 DEF TakenDown
  <2>10. CASE ListAfter(j)
    <3>1. pc[j] = "after" /\ pc'[j] = "done" /\ told'[j] = held[j] \ vols /\ vols' = vols
      <4>1. PICK seen \in {vols, {}} :
              Existing(j, seen) /\ told' = [told EXCEPT ![j] = held[j] \ seen]
        BY <2>10 DEF ListAfter
      <4>2. seen = vols
        BY <1>5, <4>1 DEF Existing, Fails
      <4> QED
        BY <2>10, <4>1, <4>2 DEF ListAfter, At, To, TypeOK, world
    <3>2. held[j] \cap vols = {}
      BY <2>4, <3>1 DEF TakenDown
    <3> QED
      BY <1>1, <2>5, <2>7, <3>1, <3>2 DEF TakenDown
  <2> QED
    BY <2>8, <2>9, <2>10 DEF ReapVolumes
<1>6. ASSUME NEW t \in Stack \ (hurt' \cup {j}) PROVE Spares(t)
  <2>1. \A v \in V : Owner[v] # t \/ v \in loose
    <3>1. CASE j \in Stack
      BY <3>1, <1>3, <1>6 DEF OwnHeld, VolumesOf
    <3>2. CASE j = Orphaned
      BY <3>2, <1>3 DEF OwnHeld
    <3> QED
      BY <3>1, <3>2 DEF Job
  <2> QED
    BY <1>1, <1>2, <1>3, <2>1 DEF Spares, OfStack
<1>7. \A t \in Stack \ (hurt' \cup {j}) : Undisturbed(t)'
  BY <1>1, <1>6, SparedStays
<1> QED
  BY <1>4, <1>5, <1>7 DEF LeftInv, Job

\* What others do is told of in hurt.
LEMMA OthersLeave ==
  ASSUME VolInv, LeftInv, NEW s \in Stack, OtherDown(s) \/ OtherUp(s)
  PROVE  LeftInv'
<1> USE StackIsJob DEF VolInv
<1>1. /\ UNCHANGED <<opt, gone, main, targets, loose, pc, held, alive, told>>
      /\ hurt' = hurt \cup {s}
  BY DEF OtherDown, OtherUp, plan
<1>2. PICK V \in SUBSET VolumesOf(s) :
        \/ linked' = linked \ VolumesOf(s) /\ vols' = vols /\ up' = up \ {s} /\ nets' = nets \ {s} /\ imgs' = imgs
        \/ linked' = linked \cup V /\ vols' = vols \cup V /\ up' = up \cup {s} /\ imgs' = imgs \cup {s}
           /\ nets' \in {nets, nets \cup {s}}
  <2>1. CASE OtherDown(s)
    BY <2>1 DEF OtherDown
  <2>2. CASE OtherUp(s)
    <3> DEFINE mine == (VolumesOf(s) \cap Named) \cup (VolumesOf(s) \ used)
    <3>1. vols' = vols \cup mine /\ linked' = linked \cup mine /\ up' = up \cup {s} /\ imgs' = imgs \cup {s}
          /\ nets' \in {nets, nets \cup {s}}
      BY <2>2 DEF OtherUp
    <3>2. mine \in SUBSET VolumesOf(s)
      OBVIOUS
    <3> HIDE DEF mine
    <3> QED
      BY <3>1, <3>2
  <2> QED
    BY <2>1, <2>2
<1>3. LinkedAreUp' /\ LooseAnonymous'
  BY <1>1, <1>2 DEF LeftInv, LinkedAreUp, LooseAnonymous, VolumesOf, TypeOK
<1>4. ASSUME NEW t \in Stack \ hurt' PROVE Undisturbed(t)'
  <2>1. t # s /\ t \notin hurt /\ \A v \in VolumesOf(s) : Owner[v] # t
    BY <1>1 DEF VolumesOf
  <2>2. UNCHANGED <<opt, gone, targets, loose, main, pc, held, alive, told>> /\ Drops' = Drops
    BY <1>1 DEF Drops
  <2>3. OfStack(linked', t) = OfStack(linked, t) /\ OfStack(vols', t) = OfStack(vols, t)
    BY <1>2, <2>1 DEF OfStack
  <2>4. (t \in up' <=> t \in up) /\ (t \in nets' <=> t \in nets) /\ (t \in imgs' <=> t \in imgs)
    BY <1>2, <2>1
  <2>5. held[t] \subseteq VolumesOf(t)
    BY DEF OwnHeld
  <2>6. Undisturbed(t)
    BY <2>1 DEF LeftInv
  <2>7. Standing(t) => Standing(t)'
    BY <2>2, <2>3, <2>4 DEF Standing, OfStack
  <2>8. Found(t) => Found(t)'
    BY <2>2, <2>3 DEF Found, OfStack
  <2>9. TakenDown(t) => TakenDown(t)'
    <3>1. held[t] \cap vols' = held[t] \cap vols /\ held[t] \ vols' = held[t] \ vols
      BY <2>3, <2>5 DEF OfStack, VolumesOf
    <3> QED
      BY <2>2, <2>3, <2>4, <3>1 DEF TakenDown
  <2> QED
    BY <2>2, <2>6, <2>7, <2>8, <2>9 DEF Undisturbed
<1> QED
  BY <1>3, <1>4 DEF LeftInv

LEMMA EndLeaves ==
  ASSUME VolInv, LeftInv, HandOrphans \/ Finish \/ UNCHANGED vars
  PROVE  LeftInv'
<1> USE StackIsJob DEF VolInv
<1>1. /\ UNCHANGED <<opt, up, vols, linked, nets, imgs, used, gone, targets, loose, held, alive, told, hurt>>
      /\ \A s \in Stack : pc'[s] = pc[s]
      /\ main # "list" => main' # "list"
      /\ main = "list" => main' = main
  BY DEF HandOrphans, Finish, At, To, TypeOK, vars, world, work, plan
<1>2. Drops' = Drops
  BY <1>1 DEF Drops
<1>3. ASSUME NEW s \in Stack \ hurt, Undisturbed(s) PROVE Undisturbed(s)'
  BY <1>1, <1>2, <1>3 DEF Undisturbed, Standing, Found, TakenDown, OfStack
<1> QED
  BY <1>1, <1>3 DEF LeftInv, LinkedAreUp, LooseAnonymous

LEMMA LeftStep == ASSUME VolInv, LeftInv, [Next]_vars PROVE LeftInv'
<1>1. CASE Choose
  BY <1>1, ChooseLeaves
<1>2. ASSUME NEW s \in Stack, Teardown(s) PROVE LeftInv'
  BY <1>2, HandLeaves, ReadLeaves, TakeDownLeaves DEF Teardown
<1>3. ASSUME NEW j \in Job, ReapVolumes(j) PROVE LeftInv'
  BY <1>3, ReapLeaves
<1>4. ASSUME NEW s \in Stack, OtherDown(s) \/ OtherUp(s) PROVE LeftInv'
  BY <1>4, OthersLeave
<1>5. CASE HandOrphans \/ Finish \/ UNCHANGED vars
  BY <1>5, EndLeaves
<1> QED
  BY <1>1, <1>2, <1>3, <1>4, <1>5 DEF Next, Command1, Ended

\* A teardown that drops the volumes, that docker served and nobody disturbed, leaves neither containers nor network
\* of its stack and no volume of it that had a link when the command looked, and it reports
\* every volume that went - whatever happens to the other stacks meanwhile.
THEOREM NothingIsLeft == Spec => []NothingLeft
<1>1. VolInv /\ LeftInv => NothingLeft
  <2> SUFFICES ASSUME VolInv, LeftInv, NEW s \in targets, pc[s] = "done", Drops, s \notin hurt
               PROVE  /\ s \notin up \cup nets
                      /\ \A v \in vols : Owner[v] = s => v \in loose
                      /\ told[s] = {v \in gone : Owner[v] = s} \ loose
    BY DEF NothingLeft
  <2>1. TakenDown(s) /\ s \in Stack
    BY DEF VolInv, TypeOK, LeftInv, Undisturbed, AfterDown
  <2> QED
    BY <2>1 DEF TakenDown, OfStack
<1>2. VolInv /\ LeftInv /\ [Next]_vars => LeftInv'
  BY LeftStep
<1> QED
  BY <1>1, <1>2, LeftInit, VolInductive, PTL DEF Spec
==============================================================================
