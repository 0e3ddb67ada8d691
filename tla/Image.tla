--------------------------------- MODULE Image ---------------------------------
(***************************************************************************)
(* How an app's image is built and what `check` lets through               *)
(* (src/check/annotations.ts): its Dockerfile copies the app only from a   *)
(* stage that ran the stripper, its compose file hands that stage the      *)
(* stripper, and no label is left in the files once they are stripped.     *)
(*                                                                         *)
(* A Dockerfile is a sequence of instructions [op, as, from, path, to]: a  *)
(* stage begins ("from"), files are copied ("copy"; from "" is the raw     *)
(* context), the stripper runs over /src ("strip").  A build of a compose  *)
(* file is [ctx, holds]: it names the stripper's context, which has it.    *)
(***************************************************************************)
EXTENDS Strip

Ctx   == "dynast-annotations"
Stage == "dynast-src"

-----------------------------------------------------------------------------
(* The check. *)

\* Mutant: the instruction that follows the next stage's FROM is skipped.
RawCopies_Skip(d, at, next) == {i \in DOMAIN d \ (at + 1)..(next + 1) : d[i].op = "copy" /\ d[i].from = ""}

\* What is copied past the stage.
RawCopies(d, at, next) == {i \in DOMAIN d \ (at + 1)..(next - 1) : d[i].op = "copy" /\ d[i].from = ""}

Froms(d) == {i \in DOMAIN d : d[i].op = "from"}
NextFrom(d, at) == Min({i \in Froms(d) : i > at} \cup {Len(d) + 1})

Strips(body) == (\E x \in body : x.op = "copy" /\ x.from = Ctx) /\ \E x \in body : x.op = "strip"

\* The stage has to be the first, to fetch the stripper and to run it.
DockerfileIssues(d) ==
  LET at == Min({i \in Froms(d) : d[i].as = Stage} \cup {Len(d) + 1})
      next == NextFrom(d, at) IN
  IF Froms(d) = {} \/ at # Min(Froms(d)) THEN {"first stage"}
  ELSE {e \in {"strip", "raw"} : CASE e = "strip" -> ~Strips({d[i] : i \in (at + 1)..(next - 1)})
                                   [] e = "raw"   -> RawCopies(d, at, next) # {}}

ComposeIssues(builds) == {b \in builds : ~b.ctx \/ ~b.holds}

\* The rows of a file that bear a label once it is stripped (of an app without shipped
\* labels that are known).
AnnotationLeaks(lines, syntax) == {r \in DOMAIN lines : Marks(StripText(lines, syntax)[r]) # {}}

-----------------------------------------------------------------------------
(* docker's build.  A stage holds files of a place, labelled as in the      *)
(* repository ("raw") or stripped.                                          *)

Copied(st, x) ==
  LET source == IF x.from = "" THEN {<<x.path, "raw">>}
                ELSE IF x.from \in DOMAIN st.stages THEN st.stages[x.from] ELSE {} IN
  {<<x.to, f[2]>> : f \in {y \in source : y[1] = x.path}}

\* What can be copied from once the stage is over.
Left(st) == [n \in DOMAIN st.stages \cup {st.name} |-> IF n = st.name THEN st.files ELSE st.stages[n]]

Step(st, x) ==
  CASE x.op = "from"  -> [st EXCEPT !.stages = Left(st), !.name = x.as, !.files = {}, !.tool = FALSE]
    [] x.op = "copy"  -> [st EXCEPT !.files = @ \cup Copied(st, x), !.tool = @ \/ x.from = Ctx]
    [] x.op = "strip" -> [st EXCEPT !.files = {IF f[1] = "/src" THEN <<"/src", "stripped">> ELSE f : f \in @},
                                    !.fails = @ \/ ~st.tool]

NothingBuilt == [stages |-> [n \in {} |-> {}], name |-> "", files |-> {}, tool |-> FALSE, fails |-> FALSE]

\* What the image holds; a build that cannot find its stripper makes none.
Image(d, builds) ==
  LET built[i \in 0..Len(d)] == IF i = 0 THEN NothingBuilt ELSE Step(built[i - 1], d[i]) IN
  IF built[Len(d)].fails \/ ((\E i \in DOMAIN d : d[i].from = Ctx) /\ ComposeIssues(builds) # {}) THEN {}
  ELSE {f[2] : f \in built[Len(d)].files}
=============================================================================
