------------------------------- MODULE Volumes -------------------------------
(***************************************************************************)
(* `stop` and `clean`: which stacks and volumes a teardown takes, and what *)
(* it says it took.  A stack's volumes are found in two ways, because      *)
(* neither is complete: named volumes carry a project label, anonymous     *)
(* ones are linked only by the containers that mount them.  A stack is one *)
(* app, variant and mode; `stop` tears Width of them down at a time.       *)
(*                                                                         *)
(* The rest of the machine goes on: somebody else may take a stack down,   *)
(* or bring it up again, at any moment.                                    *)
(***************************************************************************)
EXTENDS Integers, FiniteSets

CONSTANTS
  Stack,           \* the stacks that can exist
  Solo,            \* those that are one standalone container
  Known,           \* those whose app is in the catalog
  Ours,            \* those launched from this checkout (ownedByThisRepo)
  Index,           \* the order of the targets
  Vol, Named,      \* the volumes that can exist, and the named ones among them
  Owner,           \* [Vol -> Stack]
  Commands,        \* the command lines to consider
  Machines,        \* what may be up, exist and be mounted when the command starts
  Width,           \* 4
  ReadFails, ListFails, ActFails, \* docker may fail to tell what the stacks hold,
                   \* which volumes exist, to remove
  MaxOthers        \* how often others take a stack down or bring it up

Command == [cmd : {"stop", "clean"}, wanted : SUBSET Stack, volumes : BOOLEAN,
            force : BOOLEAN, images : BOOLEAN, orphans : BOOLEAN]

\* clean reaps the orphaned volumes the way it reaps those of a stack.
Orphaned == "orphans"
Job == Stack \cup {Orphaned}

ASSUME VolumesAssumption ==
  /\ Orphaned \notin Stack
  /\ Solo \subseteq Stack /\ Known \subseteq Stack /\ Ours \subseteq Stack
  /\ Solo \subseteq Ours            \* a bare container has no directory to tell
  /\ Named \subseteq Vol /\ Owner \in [Vol -> Stack] /\ Index \in [Stack -> Nat]
  /\ \A m \in Machines :
       /\ m.up \subseteq Stack /\ m.linked \subseteq m.vols /\ m.vols \subseteq Vol
       /\ \A v \in m.linked : Owner[v] \in m.up
       /\ \A v \in m.vols \cap Named : Owner[v] \in m.up => v \in m.linked
  /\ Commands \subseteq Command /\ Width \in Nat \ {0} /\ MaxOthers \in Nat

VARIABLES
  opt,        \* the command line
  up,         \* the stacks that have containers
  vols,       \* the volumes that exist
  linked,     \* those a container mounts
  nets,       \* the stacks that have a network
  imgs,       \* the stacks whose images are built
  used,       \* every volume there has been: names are never used again
  main,       \* where the command is
  targets,    \* the stacks it takes down
  pc,         \* where each teardown is
  held,       \* the volumes found for each target
  alive,      \* the volumes that exist, as docker told
  told,       \* the volumes reported deleted, per target
  stale,      \* stacks brought up anew since the containers were listed
  loose,      \* the anonymous volumes nothing linked at that moment
  gone,       \* every volume that has disappeared
  hurt,       \* stacks whose teardown met a failing docker
  deaf,       \* those that could not be told which volumes exist (both for the properties only)
  others

world == <<up, vols, linked, nets, imgs, used, gone>>
work  == <<pc, held, alive, told, hurt, deaf>>
plan  == <<main, targets, loose>>
vars  == <<opt, world, plan, work, stale, others>>

VolumesOf(s) == {v \in Vol : Owner[v] = s}

\* What happens to the machine when these volumes disappear.
Vanish(V) == vols' = vols \ V /\ gone' = gone \cup (V \cap vols)

-----------------------------------------------------------------------------
(* Choosing the targets. *)

\* discoverStacks: containers named as the bench names them, of this checkout.
Discovered == up \cap Ours

\* clean goes through the catalog: what still owns a container, a labelled volume
\* or a network, and with --images what still has an image; of these three lists, one
\* that docker fails to give is empty.
Lists == {"volumes", "networks", "images"}
Heard == IF ReadFails THEN SUBSET Lists ELSE {Lists}
CleanTargets(heard) ==
  {s \in Known \cap opt.wanted :
     \/ s \in up
     \/ /\ s \notin Solo
        /\ \/ "networks" \in heard /\ s \in nets
           \/ "volumes" \in heard /\ \E v \in vols \cap Named : Owner[v] = s
     \/ "images" \in heard /\ opt.images /\ s \in imgs}

Orphans == {v \in vols \ Named : v \notin linked}

\* Listing, the prompt, and for clean the orphaned volumes.
Choose ==
  /\ main = "list"
  /\ \E heard \in Heard :
       targets' = IF opt.cmd = "stop" THEN Discovered \cap opt.wanted ELSE CleanTargets(heard)
  /\ loose' = Orphans
  /\ \/ opt.orphans /\ held' = [held EXCEPT ![Orphaned] = Orphans]
     \/ (~opt.orphans \/ ReadFails) /\ UNCHANGED held
  /\ main' \in {"teardown", "end"}         \* the answer to the prompt
  /\ pc' = [j \in Job |-> IF j \in targets' \cup {Orphaned} THEN "waiting" ELSE "idle"]
  /\ UNCHANGED <<opt, world, alive, told, hurt, deaf, stale, others>>

-----------------------------------------------------------------------------
(* One teardown: stopStack, or forceStopStack for --force and for stacks   *)
(* whose app is no longer on disk.                                         *)

Busy    == {s \in targets : pc[s] \notin {"waiting", "done"}}
Forced(s) == s \notin Known \/ (opt.cmd = "stop" /\ opt.force)
Drops   == opt.cmd = "clean" \/ opt.volumes
At(j, l)  == main = "teardown" /\ pc[j] = l
To(j, l)  == pc' = [pc EXCEPT ![j] = l]
Fails(j)  == hurt' = hurt \cup {j}

\* Mutant: one worker too few.
Hand_OneFewer(s) ==
  /\ At(s, "waiting")
  /\ \A t \in targets : pc[t] = "waiting" => Index[s] <= Index[t]
  /\ Cardinality(Busy) < (IF opt.cmd = "stop" THEN Width ELSE 1) - 1
  /\ To(s, IF ~Drops THEN "down" ELSE IF s \in Solo THEN "mounts" ELSE "labels")
  /\ UNCHANGED <<opt, world, plan, held, alive, told, hurt, deaf, stale, others>>

\* pooled, or clean's loop: the next target in order.
Hand(s) ==
  /\ At(s, "waiting")
  /\ \A t \in targets : pc[t] = "waiting" => Index[s] <= Index[t]
  /\ Cardinality(Busy) < (IF opt.cmd = "stop" THEN Width ELSE 1)
  /\ To(s, IF ~Drops THEN "down" ELSE IF s \in Solo THEN "mounts" ELSE "labels")
  /\ UNCHANGED <<opt, world, plan, held, alive, told, hurt, deaf, stale, others>>

\* Mutant: only what the containers mount is looked for.
ReadLabels_Skipped(s) ==
  /\ At(s, "labels") /\ To(s, "mounts")
  /\ UNCHANGED <<opt, world, plan, held, alive, told, hurt, deaf, stale, others>>

\* stackVolumes, first source: the volumes with the project's label.
ReadLabels(s) ==
  /\ At(s, "labels") /\ To(s, "mounts")
  /\ \/ held' = [held EXCEPT ![s] = {v \in vols \cap Named : Owner[v] = s}] /\ UNCHANGED hurt
     \/ ReadFails /\ Fails(s) /\ UNCHANGED held
  /\ UNCHANGED <<opt, world, plan, alive, told, deaf, stale, others>>

\* Mutant: the list of containers is not filtered by project.
ReadMounts_Unfiltered(s) ==
  /\ At(s, "mounts") /\ To(s, "down")
  /\ held' = [held EXCEPT ![s] = @ \cup linked]
  /\ UNCHANGED <<opt, world, plan, alive, told, hurt, deaf, stale, others>>

\* Second source: what its containers mount.
ReadMounts(s) ==
  /\ At(s, "mounts") /\ To(s, "down")
  /\ \/ held' = [held EXCEPT ![s] = @ \cup {v \in linked : Owner[v] = s}] /\ UNCHANGED hurt
     \/ ReadFails /\ Fails(s) /\ UNCHANGED held
  /\ UNCHANGED <<opt, world, plan, alive, told, deaf, stale, others>>

\* The volumes that may go with the containers: with -v the named ones of the
\* compose file and whichever anonymous ones docker gets to; a standalone container
\* takes its anonymous volumes with it.
Anonymous(s) == {v \in linked \ Named : Owner[v] = s}
GoAlong(s) ==
  LET named == IF Drops /\ ~Forced(s) /\ s \notin Solo THEN VolumesOf(s) \cap Named ELSE {}
  IN  IF s \in Solo /\ ~Forced(s) THEN {Anonymous(s)}
      ELSE IF s \in Solo \/ Drops THEN {named \cup V : V \in SUBSET Anonymous(s)} ELSE {{}}

\* compose down, or rm -f of the containers --force has seen and then its network.
TakeDown(s) ==
  /\ At(s, "down")
  /\ To(s, IF held[s] = {} THEN "done" ELSE "alive")
  /\ \/ \E V \in GoAlong(s) :
          /\ Forced(s) => s \notin stale
          /\ Vanish(V)
          /\ up' = up \ {s} /\ linked' = linked \ VolumesOf(s)
          /\ nets' = nets \ {s}
          /\ imgs' = IF opt.images THEN imgs \ {s} ELSE imgs
          /\ UNCHANGED hurt
     \/ /\ ActFails \/ (Forced(s) /\ s \in stale)
        /\ Fails(s) /\ UNCHANGED <<up, vols, linked, nets, imgs, gone>>
  /\ UNCHANGED <<opt, used, plan, held, alive, told, deaf, stale, others>>

\* existingVolumes: a docker that fails to answer lists nothing.
Existing(j, seen) ==
  \/ seen = vols /\ UNCHANGED <<hurt, deaf>>
  \/ ListFails /\ seen = {} /\ Fails(j) /\ deaf' = deaf \cup {j}

\* Mutant: survivors are not looked for.
ListAlive_Trusting(j) ==
  /\ At(j, "alive") /\ To(j, "done")
  /\ told' = [told EXCEPT ![j] = held[j]]
  /\ UNCHANGED <<opt, world, plan, held, alive, hurt, deaf, stale, others>>

\* reapVolumes: what of it still stands?
ListAlive(j) ==
  /\ At(j, "alive")
  /\ \E seen \in {vols, {}} :
       /\ Existing(j, seen)
       /\ alive' = [alive EXCEPT ![j] = seen]
       /\ IF held[j] \cap seen = {}
          THEN To(j, "done") /\ told' = [told EXCEPT ![j] = held[j] \ seen]
          ELSE To(j, "reap") /\ UNCHANGED told
  /\ UNCHANGED <<opt, world, plan, held, stale, others>>

\* docker volume rm -f of the survivors; it leaves what is mounted.
Reap(j) ==
  /\ At(j, "reap") /\ To(j, "after")
  /\ \/ Vanish((held[j] \cap alive[j]) \ linked) /\ UNCHANGED hurt
     \/ ActFails /\ Fails(j) /\ UNCHANGED <<vols, gone>>
  /\ UNCHANGED <<opt, up, linked, nets, imgs, used, plan, held, alive, told, deaf, stale, others>>

ListAfter(j) ==
  /\ At(j, "after") /\ To(j, "done")
  /\ \E seen \in {vols, {}} : Existing(j, seen) /\ told' = [told EXCEPT ![j] = held[j] \ seen]
  /\ UNCHANGED <<opt, world, plan, held, alive, stale, others>>

\* clean's last step, when every target is down.
HandOrphans ==
  /\ At(Orphaned, "waiting") /\ \A s \in targets : pc[s] = "done"
  /\ To(Orphaned, IF held[Orphaned] = {} THEN "done" ELSE "alive")
  /\ UNCHANGED <<opt, world, plan, held, alive, told, hurt, deaf, stale, others>>

Finish ==
  /\ At(Orphaned, "done") /\ main' = "end"
  /\ UNCHANGED <<opt, world, targets, loose, work, stale, others>>

Ended == main = "end" /\ UNCHANGED vars

Teardown(s) == Hand(s) \/ ReadLabels(s) \/ ReadMounts(s) \/ TakeDown(s)
ReapVolumes(j) == ListAlive(j) \/ Reap(j) \/ ListAfter(j)

-----------------------------------------------------------------------------
(* Everybody else. *)

Other == main # "end" /\ others < MaxOthers /\ others' = others + 1

\* A `down` without -v: the anonymous volumes lose their only link.
OtherDown(s) ==
  /\ Other /\ s \in up
  /\ up' = up \ {s} /\ linked' = linked \ VolumesOf(s) /\ nets' = nets \ {s}
  /\ hurt' = hurt \cup {s}
  /\ UNCHANGED <<opt, vols, imgs, used, gone, plan, pc, held, alive, told, deaf, stale>>

\* An `up`: the named volumes as they are or anew, new anonymous ones.
OtherUp(s) ==
  /\ Other /\ s \notin up
  /\ LET mine == (VolumesOf(s) \cap Named) \cup (VolumesOf(s) \ used)
     IN  /\ vols' = vols \cup mine /\ linked' = linked \cup mine /\ used' = used \cup mine
  /\ up' = up \cup {s} /\ nets' = (IF s \in Solo THEN nets ELSE nets \cup {s})
  /\ imgs' = imgs \cup {s} /\ hurt' = hurt \cup {s}
  /\ stale' = stale \cup {s}
  /\ UNCHANGED <<opt, gone, plan, pc, held, alive, told, deaf>>

-----------------------------------------------------------------------------
Init ==
  /\ opt \in Commands
  /\ \E m \in Machines : up = m.up /\ vols = m.vols /\ linked = m.linked /\ used = m.vols
  /\ nets = up \ Solo /\ imgs = up
  /\ main = "list" /\ targets = {} /\ pc = [j \in Job |-> "idle"]
  /\ held = [j \in Job |-> {}] /\ alive = held /\ told = held
  /\ stale = {} /\ loose = {} /\ gone = {} /\ hurt = {} /\ deaf = {} /\ others = 0

Command1 == \/ Choose \/ HandOrphans \/ Finish
            \/ (\E s \in Stack : Teardown(s)) \/ (\E j \in Job : ReapVolumes(j))

Next == Command1 \/ (\E s \in Stack : OtherDown(s) \/ OtherUp(s)) \/ Ended

Spec == Init /\ [][Next]_vars /\ WF_vars(Command1)

-----------------------------------------------------------------------------
(* Properties. *)

TypeOK ==
  /\ opt \in Command
  /\ up \subseteq Stack /\ nets \subseteq Stack /\ imgs \subseteq Stack
  /\ targets \subseteq Stack /\ stale \subseteq Stack /\ hurt \subseteq Job /\ deaf \subseteq hurt
  /\ used \subseteq Vol /\ loose \subseteq Vol /\ gone \subseteq Vol
  /\ linked \subseteq vols /\ vols \subseteq used
  /\ main \in {"list", "teardown", "end"}
  /\ pc \in [Job -> {"idle", "waiting", "labels", "mounts", "down", "alive", "reap", "after", "done"}]
  /\ held \in [Job -> SUBSET Vol] /\ alive \in [Job -> SUBSET Vol] /\ told \in [Job -> SUBSET Vol]
  /\ others \in 0..MaxOthers

\* What disappears belonged to a stack that was selected, or was an orphan when the
\* command looked and was asked to take orphans: no interleaving makes a teardown
\* take another stack's data.
OnlySelected == \A v \in gone : Owner[v] \in targets \/ (opt.orphans /\ v \in loose)

\* Nor does any command: a stack of that name launched elsewhere is somebody
\* else's (the comment of ownedByThisRepo).
OnlyOurs == \A v \in gone \ loose : Owner[v] \in Ours

\* A volume reported deleted has disappeared, unless docker failed when that teardown
\* asked which volumes exist - and then it reports either nothing or all it held.
ToldIsGone ==
  \A j \in Job : told[j] \subseteq gone \/ (j \in deaf /\ told[j] = held[j])

\* "Returns the volumes that actually disappeared" (the comment of stopStack).
ReturnsDisappeared == \A s \in Stack : told[s] \subseteq gone

\* A teardown with volumes that docker served and nobody disturbed leaves of its
\* stack neither containers nor network, and of its volumes only what had lost its
\* link before; every volume of it that went is reported, by whichever source it was
\* found.
NothingLeft ==
  \A s \in targets :
    pc[s] = "done" /\ Drops /\ s \notin hurt =>
      /\ s \notin up \cup nets
      /\ \A v \in vols : Owner[v] = s => v \in loose
      /\ told[s] = {v \in gone : Owner[v] = s} \ loose

\* Every teardown ends.
TeardownEnds == <>(main = "end")
=============================================================================
