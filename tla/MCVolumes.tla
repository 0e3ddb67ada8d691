----------------------------- MODULE MCVolumes ------------------------------
(* Instances of Volumes: a compose stack "c" with a named and two anonymous *)
(* volumes, a standalone "s", an orphan "o" whose app left the catalog, and *)
(* a stack "f" of the catalog's name launched from another checkout.        *)
EXTENDS Volumes

MCOwner == [v \in Vol |-> CASE v \in {"c1", "c2", "c3"} -> "c" [] v = "s1" -> "s"
                           [] v \in {"o1"} -> "o" [] OTHER -> "f"]
MCIndex == [s \in Stack |-> CASE s = "c" -> 1 [] s = "f" -> 2 [] s = "o" -> 3 [] OTHER -> 4]

Line(cmd, wanted, volumes, force, orphans) ==
  [cmd |-> cmd, wanted |-> wanted, volumes |-> volumes, force |-> force,
   images |-> orphans, orphans |-> orphans]

StopOne == {Line("stop", {"c"}, TRUE, FALSE, FALSE)}
Stops == {Line("stop", Stack, TRUE, f, FALSE) : f \in BOOLEAN} \cup {Line("stop", Stack, FALSE, TRUE, FALSE)} \cup StopOne
Cleans == {Line("clean", Stack, TRUE, FALSE, o) : o \in BOOLEAN}
\* An earlier `stop` left c3 without a link; of a stack that is down the named
\* volume may still be there.
Machine(S, V) ==
  [up |-> S, vols |-> {"c3"} \cup V \cup {v \in Vol : MCOwner[v] \in S},
   linked |-> {v \in Vol \ {"c3"} : MCOwner[v] \in S}]
MCMachines == {Machine(S \cup {"o"}, {"c1"}) : S \in SUBSET {"c", "s", "f"}}
              \cup {Machine({}, {"f1"})}

StopsAndCleans == Stops \cup Cleans
=============================================================================
