------------------------------- MODULE Assign -------------------------------
(***************************************************************************)
(* match.ts, assign(): which finding is credited with which bug.  Kuhn's   *)
(* algorithm: findings are taken in turn, the one with the strongest       *)
(* candidate first, and tryAssign looks for a bug for each along its       *)
(* candidates, best first; a bug that is held is freed if its holder finds *)
(* another.                                                                *)
(*                                                                         *)
(* The recursion of tryAssign is the stack path: path[i] is the finding of *)
(* the i-th call, via[i] the bug it is looking at.  A call looks at its    *)
(* candidates in order and skips those in seen, which only grows, so the   *)
(* next one is always the best that is not in seen.                        *)
(***************************************************************************)
EXTENDS Integers, Sequences, FiniteSets

CONSTANTS
  Finding, Bug,        \* finding and ground-truth indices
  None,                \* a Map has no entry
  Inputs               \* the candidate lists to consider

\* A candidate list: what a pair <finding, bug> scored, and its tier's weight.
IsCandidateList(c) ==
  /\ DOMAIN c \subseteq Finding \X Bug
  /\ \A d \in DOMAIN c : c[d] \in [score : Nat, tier : Nat]

ASSUME AssignAssumption ==
  /\ Finding \subseteq Nat /\ Bug \subseteq Nat /\ None \notin Nat
  /\ IsFiniteSet(Finding) /\ IsFiniteSet(Bug)
  /\ \A c \in Inputs : IsCandidateList(c)

VARIABLES
  cand,        \* the candidates, never changed
  phase,       \* "next", "search", "take" (the calls return true), "done"
  todo,        \* the findings of `order` still to be tried
  path, via,   \* the calls of tryAssign in progress
  seen,        \* the bugs this attempt has looked at
  gtOwner, chosen,
  byFinding, byGt, duplicates     \* the result

search == <<path, via, seen>>
result == <<byFinding, byGt, duplicates>>
vars == <<cand, phase, todo, search, gtOwner, chosen, result>>

-----------------------------------------------------------------------------
Adj(f) == {b \in Bug : <<f, b>> \in DOMAIN cand}

\* The order candidatesFor leaves one finding's candidates in.
Ahead(f, b, c) ==
  LET x == cand[<<f, b>>]
      y == cand[<<f, c>>]
  IN  \/ x.score > y.score
      \/ x.score = y.score /\ x.tier > y.tier
      \/ x.score = y.score /\ x.tier = y.tier /\ b < c

Best(f, S) == CHOOSE b \in S : \A c \in S \ {b} : Ahead(f, b, c)

\* Mutant: the weakest finding goes first.
Sooner_WeakestFirst(f, g) ==
  LET x == cand[<<f, Best(f, Adj(f))>>].score
      y == cand[<<g, Best(g, Adj(g))>>].score
  IN  x < y \/ (x = y /\ f < g)

\* The order findings are tried in.
Sooner(f, g) ==
  LET x == cand[<<f, Best(f, Adj(f))>>].score
      y == cand[<<g, Best(g, Adj(g))>>].score
  IN  x > y \/ (x = y /\ f < g)

Here   == path[Len(path)]
Unseen == Adj(Here) \ seen
IsNext(b) == b \in Unseen /\ \A c \in Unseen \ {b} : Ahead(Here, b, c)
Cut(s) == SubSeq(s, 1, Len(s) - 1)

Init ==
  /\ cand \in Inputs
  /\ phase = "next"
  /\ todo = {f \in Finding : Adj(f) # {}}
  /\ path = <<>> /\ via = <<>> /\ seen = {}
  /\ gtOwner = [b \in Bug |-> None]
  /\ chosen = [f \in Finding |-> None]
  /\ byFinding = <<>> /\ byGt = <<>> /\ duplicates = <<>>

\* for (const fi of order) tryAssign(fi, new Set())
Try(f) ==
  /\ phase = "next"
  /\ f \in todo
  /\ \A g \in todo \ {f} : Sooner(f, g)
  /\ todo' = todo \ {f}
  /\ path' = <<f>> /\ via' = <<>> /\ seen' = {}
  /\ phase' = "search"
  /\ UNCHANGED <<cand, gtOwner, chosen, result>>

\* The best candidate left is nobody's: this call returns true.
VisitFree(b) ==
  /\ phase = "search" /\ IsNext(b)
  /\ gtOwner[b] = None
  /\ seen' = seen \cup {b}
  /\ via' = Append(via, b)
  /\ phase' = "take"
  /\ UNCHANGED <<cand, todo, path, gtOwner, chosen, result>>

\* Mutant: a bug that is held is taken without asking its holder.
VisitHeld_Steals(b) ==
  /\ phase = "search" /\ IsNext(b)
  /\ gtOwner[b] # None
  /\ seen' = seen \cup {b}
  /\ via' = Append(via, b)
  /\ phase' = "take"
  /\ UNCHANGED <<cand, todo, path, gtOwner, chosen, result>>

\* It is held: its owner is asked for another, tryAssign(owner, seen).
VisitHeld(b) ==
  /\ phase = "search" /\ IsNext(b)
  /\ gtOwner[b] # None
  /\ seen' = seen \cup {b}
  /\ via' = Append(via, b)
  /\ path' = Append(path, gtOwner[b])
  /\ UNCHANGED <<cand, phase, todo, gtOwner, chosen, result>>

\* Mutant: one failed call fails the whole attempt.
DeadEnd_GivesUp ==
  /\ phase = "search" /\ Unseen = {}
  /\ path' = <<>> /\ via' = <<>>
  /\ phase' = "next"
  /\ UNCHANGED <<cand, todo, seen, gtOwner, chosen, result>>

\* Mutant: a finding that got nothing is tried again.
DeadEnd_Requeues ==
  /\ phase = "search" /\ Unseen = {}
  /\ path' = Cut(path)
  /\ via' = IF Len(path) = 1 THEN via ELSE Cut(via)
  /\ phase' = IF Len(path) = 1 THEN "next" ELSE "search"
  /\ todo' = IF Len(path) = 1 THEN todo \cup {path[1]} ELSE todo
  /\ UNCHANGED <<cand, seen, gtOwner, chosen, result>>

\* No candidate left: the call returns false and its caller looks on.
DeadEnd ==
  /\ phase = "search" /\ Unseen = {}
  /\ path' = Cut(path)
  /\ via' = IF Len(path) = 1 THEN via ELSE Cut(via)
  /\ phase' = IF Len(path) = 1 THEN "next" ELSE "search"
  /\ UNCHANGED <<cand, todo, seen, gtOwner, chosen, result>>

\* Mutant: the caller returns true without taking the bug that was freed for it.
Take_InnermostOnly ==
  /\ phase = "take"
  /\ gtOwner' = [gtOwner EXCEPT ![via[Len(via)]] = Here]
  /\ chosen' = [chosen EXCEPT ![Here] = via[Len(via)]]
  /\ path' = <<>> /\ via' = <<>>
  /\ phase' = "next"
  /\ UNCHANGED <<cand, todo, seen, result>>

\* A call that returns true takes its bug, then its caller does.
Take ==
  /\ phase = "take"
  /\ gtOwner' = [gtOwner EXCEPT ![via[Len(via)]] = Here]
  /\ chosen' = [chosen EXCEPT ![Here] = via[Len(via)]]
  /\ path' = Cut(path) /\ via' = Cut(via)
  /\ phase' = IF Len(path) = 1 THEN "next" ELSE "take"
  /\ UNCHANGED <<cand, todo, seen, result>>

\* The two loops that read the result off: a finding keeps the bug it chose if it
\* still owns that bug, otherwise one that it does own.
Kept    == {f \in Finding : chosen[f] # None /\ gtOwner[chosen[f]] = f}
Rehomed == {f \in Finding \ Kept : \E b \in Bug : gtOwner[b] = f}
Won(m)  == {m[f] : f \in DOMAIN m}

\* Mutant: the loop over the findings stops one short.
DuplicatesOf_OneShort(m) ==
  LET lost == {f \in Finding \ DOMAIN m : f + 1 \in Finding /\ Adj(f) \cap Won(m) # {}}
  IN  [f \in lost |-> Best(f, Adj(f) \cap Won(m))]

\* A finding that won nothing duplicates the best of its candidates that was won.
DuplicatesOf(m) ==
  LET lost == {f \in Finding \ DOMAIN m : Adj(f) \cap Won(m) # {}}
  IN  [f \in lost |-> Best(f, Adj(f) \cap Won(m))]

Finish ==
  /\ phase = "next" /\ todo = {}
  /\ \E other \in [Rehomed -> Bug] :
       /\ \A f \in Rehomed : gtOwner[other[f]] = f
       /\ byFinding' = [f \in Kept \cup Rehomed |-> IF f \in Kept THEN chosen[f] ELSE other[f]]
  /\ byGt' \in [Won(byFinding') -> DOMAIN byFinding']
  /\ \A b \in Won(byFinding') : byFinding'[byGt'[b]] = b
  /\ duplicates' = DuplicatesOf(byFinding')
  /\ phase' = "done"
  /\ UNCHANGED <<cand, todo, search, gtOwner, chosen>>

Returned == phase = "done" /\ UNCHANGED vars

Step ==
  \/ \E f \in Finding : Try(f)
  \/ \E b \in Bug : VisitFree(b) \/ VisitHeld(b)
  \/ DeadEnd \/ Take \/ Finish

Next == Step \/ Returned

Spec == Init /\ [][Next]_vars

-----------------------------------------------------------------------------
(* Properties. *)

TypeOK ==
  /\ IsCandidateList(cand)
  /\ phase \in {"next", "search", "take", "done"}
  /\ todo \in SUBSET Finding
  /\ path \in Seq(Finding) /\ via \in Seq(Bug)
  /\ seen \in SUBSET Bug
  /\ gtOwner \in [Bug -> Finding \cup {None}]
  /\ chosen \in [Finding -> Bug \cup {None}]

\* A tool cannot farm several credits from one bug, nor collect one twice: outside
\* the moves of one attempt no finding owns two bugs, and what is reported at the
\* end is that ownership, pair for pair (match.ts, header).
OneToOne ==
  /\ phase # "take" => \A b, c \in Bug : gtOwner[b] # None /\ gtOwner[b] = gtOwner[c] => b = c
  /\ \A b \in Bug : gtOwner[b] # None => <<gtOwner[b], b>> \in DOMAIN cand
  /\ phase = "done" =>
       /\ DOMAIN byGt = {b \in Bug : gtOwner[b] # None}
       /\ DOMAIN byFinding = {gtOwner[b] : b \in DOMAIN byGt}
       /\ \A b \in DOMAIN byGt : byGt[b] = gtOwner[b] /\ byFinding[gtOwner[b]] = b

\* What a finding has chosen is always what it owns: the loop that "re-homes"
\* findings after the search never finds one.
ChosenIsOwned ==
  /\ \A f \in Finding : chosen[f] # None => gtOwner[chosen[f]] = f
  /\ \A b \in Bug : phase # "take" /\ gtOwner[b] # None => chosen[gtOwner[b]] = b

\* Every way to credit findings with bugs one to one.
Matchings ==
  {m \in [Finding -> Bug \cup {None}] :
     /\ \A f \in Finding : m[f] # None => <<f, m[f]>> \in DOMAIN cand
     /\ \A f, g \in Finding : m[f] = m[g] /\ m[f] # None => f = g}
Matched(m) == {f \in Finding : m[f] # None}

\* Assignment maximises the number of matched bugs: no good pairing is lost to a
\* greedy first choice.
MostBugs ==
  phase = "done" =>
    \A m \in Matchings : Cardinality(Matched(m)) <= Cardinality(DOMAIN byFinding)

Stronger(g, f) == \E b \in Adj(g) : \A c \in Adj(f) : cand[<<g, b>>].score > cand[<<f, c>>].score

\* The findings with the strongest candidates go first, and stay: one left with
\* nothing could not have been credited next to the credited ones that outrank it.
StrongestWin ==
  phase = "done" =>
    \A f \in Finding \ DOMAIN byFinding : Adj(f) # {} =>
      LET above == {g \in DOMAIN byFinding : Stronger(g, f) \/ (g < f /\ ~Stronger(f, g))}
      IN  ~ \E m \in Matchings : above \cup {f} \subseteq Matched(m)

\* No finding with an admissible pair falls through: it is credited, or it is a
\* duplicate of a credited bug, and never charged as a false alarm.
NoneLost ==
  phase = "done" => {f \in Finding : Adj(f) # {}} = DOMAIN byFinding \cup DOMAIN duplicates

\* The search moves findings from bug to bug in several assignments to two maps;
\* with the calls that are about to return true taken as done, it is a sequence
\* of augmentations of a matching.
Applied(o, p, w) ==
  [b \in Bug |-> IF \E i \in DOMAIN w : w[i] = b THEN p[CHOOSE i \in DOMAIN w : w[i] = b] ELSE o[b]]
Pending == IF phase = "take" THEN Applied(gtOwner, path, via) ELSE gtOwner
Abstract == INSTANCE Matching WITH owner <- Pending
AugmentsOnly == Abstract!Spec

\* The search ends, whatever the candidates (seen keeps it from going round).
Returns == <>(phase = "done")
=============================================================================
