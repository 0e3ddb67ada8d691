---------------------------- MODULE AssignProofs ----------------------------
(* For any findings, bugs and candidates: assign() never credits one bug   *)
(* twice nor one finding twice, what a finding chose is what it owns, and  *)
(* the search implements the augmentations of Matching.                    *)
EXTENDS Assign, SequenceTheorems, FiniteSetTheorems, TLAPS

(***************************************************************************)
(* The inductive invariant.  While an attempt searches, the calls on the   *)
(* stack are a chain: each asks the holder of the bug its caller wants.    *)
(* While it takes, the last bug of via is the only one whose holder has    *)
(* another bug already.                                                    *)
(***************************************************************************)

Shape ==
  /\ phase \in {"next", "done"} => path = <<>> /\ via = <<>>
  /\ phase = "search" => Len(path) = Len(via) + 1
  /\ phase = "take" => Len(path) = Len(via) /\ Len(path) # 0

Wants == \A i \in 1..Len(via) : <<path[i], via[i]>> \in DOMAIN cand
Saw   == \A i \in 1..Len(via) : via[i] \in seen
Asks  == \A i \in 1..Len(via) : i + 1 <= Len(path) => gtOwner[via[i]] = path[i + 1]
Once  == \A i, k \in 1..Len(via) : via[i] = via[k] => i = k
Chain == Wants /\ Saw /\ Asks /\ Once

\* The finding an attempt is for owns nothing until the attempt succeeds.
Root == path # <<>> => path[1] \notin todo /\ \A b \in Bug : gtOwner[b] # path[1]

Untried == \A f \in todo : \A b \in Bug : gtOwner[b] # f

Admissible == \A b \in Bug : gtOwner[b] # None => <<gtOwner[b], b>> \in DOMAIN cand

ChosenOwned == \A f \in Finding : chosen[f] # None => gtOwner[chosen[f]] = f

\* The bug about to change hands: nobody has chosen it.
Moving(b) == phase = "take" /\ b = via[Len(via)]

OwnedChosen == \A b \in Bug : gtOwner[b] # None /\ ~Moving(b) => chosen[gtOwner[b]] = b
FreeToTake  == \A f \in Finding : \A b \in Bug : Moving(b) => chosen[f] # b

\* What Finish reports.
Reported ==
  phase = "done" =>
    /\ DOMAIN byGt = {b \in Bug : gtOwner[b] # None}
    /\ DOMAIN byFinding = {gtOwner[b] : b \in DOMAIN byGt}
    /\ \A b \in DOMAIN byGt : byGt[b] = gtOwner[b] /\ byFinding[gtOwner[b]] = b

Ownership == Admissible /\ ChosenOwned /\ OwnedChosen /\ FreeToTake

IInv == TypeOK /\ Shape /\ Chain /\ Root /\ Untried /\ Ownership /\ Reported

-----------------------------------------------------------------------------
LEMMA NoneIsNobody == None \notin Finding /\ None \notin Bug
BY AssignAssumption

LEMMA CutIs ==
  ASSUME NEW S, NEW s \in Seq(S), Len(s) # 0
  PROVE  /\ Cut(s) \in Seq(S) /\ Len(Cut(s)) = Len(s) - 1
         /\ \A i \in 1..Len(s) - 1 : Cut(s)[i] = s[i]
<1> DEFINE n == Len(s) - 1
           t == SubSeq(s, 1, n)
<1>1. n \in Nat /\ \A i \in 1..n : s[i] \in S
  BY LenProperties
<1> HIDE DEF n
<1>2. /\ t \in Seq(S) /\ Len(t) = (IF 1 <= n THEN n - 1 + 1 ELSE 0)
      /\ \A i \in 1..n - 1 + 1 : t[i] = s[1 + i - 1]
  BY <1>1, SubSeqProperties
<1> HIDE DEF t
<1>3. Len(t) = n
  BY <1>1, <1>2
<1>4. ASSUME NEW i \in 1..n PROVE t[i] = s[i]
  <2>1. i \in 1..n - 1 + 1 /\ 1 + i - 1 = i
    BY <1>1
  <2> QED
    BY <1>2, <2>1
<1> QED
  BY <1>2, <1>3, <1>4 DEF Cut, n, t

LEMMA AppendIs ==
  ASSUME NEW S, NEW s \in Seq(S), NEW e \in S
  PROVE  /\ Append(s, e) \in Seq(S) /\ Len(Append(s, e)) = Len(s) + 1
         /\ \A i \in 1..Len(s) : Append(s, e)[i] = s[i]
         /\ Append(s, e)[Len(s) + 1] = e
OBVIOUS

LEMMA InitIInv == Init => IInv
BY AssignAssumption DEF Init, IInv, TypeOK, Shape, Chain, Wants, Saw, Asks, Once, Wants, Saw, Asks, Once, Root, Untried, Ownership, Admissible,
   ChosenOwned, OwnedChosen, FreeToTake, Moving, Reported

LEMMA TryKeepsIInv == ASSUME IInv, NEW f \in Finding, Try(f) PROVE IInv'
<1>1. /\ phase = "next" /\ f \in todo /\ todo' = todo \ {f} /\ path' = <<f>> /\ via' = <<>>
      /\ seen' = {} /\ phase' = "search"
      /\ UNCHANGED <<cand, gtOwner, chosen, byFinding, byGt, duplicates>>
  BY DEF Try, result
<1>2. TypeOK'
  BY <1>1 DEF IInv, TypeOK
<1>3. Shape' /\ Chain'
  BY <1>1 DEF Shape, Chain, Wants, Saw, Asks, Once
<1>4. Root' /\ Untried'
  BY <1>1 DEF IInv, Root, Untried
<1>5. Ownership'
  BY <1>1 DEF IInv, Ownership, Admissible, ChosenOwned, OwnedChosen, FreeToTake, Moving
<1> QED
  BY <1>1, <1>2, <1>3, <1>4, <1>5 DEF IInv, Reported

\* A call looks at a bug b it has not seen.
LEMMA LookAt ==
  ASSUME IInv, phase = "search", NEW b \in Bug, IsNext(b), via' = Append(via, b)
  PROVE  /\ via' \in Seq(Bug) /\ Len(via') = Len(path)
         /\ \A i \in 1..Len(via) : via'[i] = via[i]
         /\ via'[Len(via')] = b
         /\ <<path[Len(path)], b>> \in DOMAIN cand /\ b \notin seen
         /\ \A i, k \in 1..Len(via') : via'[i] = via'[k] => i = k
<1>1. via \in Seq(Bug) /\ Len(path) = Len(via) + 1 /\ Len(via) \in Nat
  BY DEF IInv, TypeOK, Shape
<1>2. /\ via' \in Seq(Bug) /\ Len(via') = Len(via) + 1 /\ via'[Len(via) + 1] = b
      /\ \A i \in 1..Len(via) : via'[i] = via[i]
  BY <1>1, AppendIs
<1>3. b \in Adj(Here) /\ b \notin seen
  BY DEF IsNext, Unseen
<1>4. <<path[Len(path)], b>> \in DOMAIN cand
  BY <1>3 DEF Adj, Here
<1>5. \A i \in 1..Len(via) : via'[i] # b
  BY <1>2, <1>3 DEF IInv, Chain, Saw
<1>6. ASSUME NEW i \in 1..Len(via'), NEW k \in 1..Len(via'), via'[i] = via'[k]
      PROVE  i = k
  <2>1. (i \in 1..Len(via) \/ i = Len(via) + 1) /\ (k \in 1..Len(via) \/ k = Len(via) + 1)
    BY <1>1, <1>2
  <2>2. CASE i \in 1..Len(via) /\ k \in 1..Len(via)
    BY <1>2, <1>6, <2>2 DEF IInv, Chain, Wants, Saw, Asks, Once
  <2> QED
    BY <1>2, <1>5, <1>6, <2>1, <2>2
<1> QED
  BY <1>1, <1>2, <1>3, <1>4, <1>6

LEMMA VisitFreeKeepsIInv == ASSUME IInv, NEW b \in Bug, VisitFree(b) PROVE IInv'
<1>1. /\ phase = "search" /\ IsNext(b) /\ gtOwner[b] = None /\ seen' = seen \cup {b}
      /\ via' = Append(via, b) /\ phase' = "take"
      /\ UNCHANGED <<cand, todo, path, gtOwner, chosen, byFinding, byGt, duplicates>>
  BY DEF VisitFree, result
<1>2. /\ via' \in Seq(Bug) /\ Len(via') = Len(path) /\ via'[Len(via')] = b
      /\ \A i \in 1..Len(via) : via'[i] = via[i]
      /\ <<path[Len(path)], b>> \in DOMAIN cand
      /\ \A i, k \in 1..Len(via') : via'[i] = via'[k] => i = k
  BY <1>1, LookAt
<1>3. Len(via) \in Nat /\ Len(path) = Len(via) + 1
  BY <1>1 DEF IInv, TypeOK, Shape
<1>4. TypeOK' /\ Shape'
  BY <1>1, <1>2, <1>3 DEF IInv, TypeOK, Shape
<1>5. Chain'
  <2>1. \A i \in 1..Len(via') : i \in 1..Len(via) \/ i = Len(via')
    BY <1>2, <1>3
  <2>2. Wants' /\ Saw'
    BY <1>1, <1>2, <1>3, <2>1 DEF IInv, Chain, Wants, Saw
  <2>3. Asks'
    <3>1. \A i \in 1..Len(via) : i + 1 \in 1..Len(path)
      BY <1>3
    <3> QED
      BY <1>1, <1>2, <1>3, <2>1, <3>1 DEF IInv, Chain, Asks
  <2> QED
    BY <1>2, <2>2, <2>3 DEF Chain, Once
<1>6. Root' /\ Untried'
  BY <1>1 DEF IInv, Root, Untried
<1>7. Ownership'
  BY <1>1, <1>2, NoneIsNobody DEF IInv, TypeOK, Ownership, Admissible, ChosenOwned, OwnedChosen, FreeToTake, Moving
<1> QED
  BY <1>1, <1>4, <1>5, <1>6, <1>7 DEF IInv, Reported

LEMMA VisitHeldKeepsIInv == ASSUME IInv, NEW b \in Bug, VisitHeld(b) PROVE IInv'
<1>1. /\ phase = "search" /\ IsNext(b) /\ gtOwner[b] # None /\ seen' = seen \cup {b}
      /\ via' = Append(via, b) /\ path' = Append(path, gtOwner[b])
      /\ UNCHANGED <<cand, phase, todo, gtOwner, chosen, byFinding, byGt, duplicates>>
  BY DEF VisitHeld, result
<1>2. /\ via' \in Seq(Bug) /\ Len(via') = Len(path) /\ via'[Len(via')] = b
      /\ \A i \in 1..Len(via) : via'[i] = via[i]
      /\ <<path[Len(path)], b>> \in DOMAIN cand
      /\ \A i, k \in 1..Len(via') : via'[i] = via'[k] => i = k
  BY <1>1, LookAt
<1>3. /\ Len(via) \in Nat /\ Len(path) = Len(via) + 1 /\ path \in Seq(Finding) /\ gtOwner[b] \in Finding
  BY <1>1 DEF IInv, TypeOK, Shape
<1>4. /\ path' \in Seq(Finding) /\ Len(path') = Len(path) + 1
      /\ \A i \in 1..Len(path) : path'[i] = path[i]
      /\ path'[Len(path) + 1] = gtOwner[b]
  BY <1>1, <1>3, AppendIs
<1>5. TypeOK' /\ Shape'
  BY <1>1, <1>2, <1>3, <1>4 DEF IInv, TypeOK, Shape
<1>6. Chain'
  <2>1. \A i \in 1..Len(via') : i \in 1..Len(via) \/ i = Len(path)
    BY <1>2, <1>3
  <2>2. \A i \in 1..Len(via') : path'[i] = path[i]
    BY <1>2, <1>4
  <2>4. Wants' /\ Saw'
    BY <1>1, <1>2, <1>3, <2>1, <2>2 DEF IInv, Chain, Wants, Saw
  <2>3. \A i \in 1..Len(via') : gtOwner[via'[i]] = path'[i + 1]
    <3>1. \A i \in 1..Len(via) : gtOwner[via[i]] = path[i + 1] /\ i + 1 \in 1..Len(path)
      BY <1>3 DEF IInv, Chain, Wants, Saw, Asks, Once
    <3> QED
      BY <1>2, <1>3, <1>4, <2>1, <3>1
  <2> QED
    BY <1>1, <1>2, <2>3, <2>4 DEF Chain, Asks, Once
<1>7. Root' /\ Untried'
  <2>1. path # <<>> /\ path'[1] = path[1]
    BY <1>3, <1>4
  <2> QED
    BY <1>1, <2>1 DEF IInv, Root, Untried
<1>8. Ownership'
  BY <1>1 DEF IInv, Ownership, Admissible, ChosenOwned, OwnedChosen, FreeToTake, Moving
<1> QED
  BY <1>1, <1>5, <1>6, <1>7, <1>8 DEF IInv, Reported

LEMMA DeadEndKeepsIInv == ASSUME IInv, DeadEnd PROVE IInv'
<1>1. /\ phase = "search" /\ path' = Cut(path)
      /\ via' = (IF Len(path) = 1 THEN via ELSE Cut(via))
      /\ phase' = (IF Len(path) = 1 THEN "next" ELSE "search")
      /\ UNCHANGED <<cand, todo, seen, gtOwner, chosen, byFinding, byGt, duplicates>>
  BY DEF DeadEnd, result
<1>2. /\ path \in Seq(Finding) /\ via \in Seq(Bug) /\ Len(via) \in Nat /\ Len(path) = Len(via) + 1
  BY <1>1 DEF IInv, TypeOK, Shape
<1>3. /\ path' \in Seq(Finding) /\ Len(path') = Len(path) - 1
      /\ \A i \in 1..Len(path) - 1 : path'[i] = path[i]
  BY <1>1, <1>2, CutIs
<1>4. CASE Len(path) = 1
  <2>1. path' = <<>> /\ via' = <<>> /\ phase' = "next"
    BY <1>1, <1>2, <1>3, <1>4
  <2>2. TypeOK' /\ Shape' /\ Chain'
    BY <1>1, <2>1 DEF IInv, TypeOK, Shape, Chain, Wants, Saw, Asks, Once
  <2>3. Root' /\ Untried'
    BY <1>1, <2>1 DEF IInv, Root, Untried
  <2>4. Ownership'
    BY <1>1, <2>1 DEF IInv, Ownership, Admissible, ChosenOwned, OwnedChosen, FreeToTake, Moving
  <2> QED
    BY <1>1, <2>1, <2>2, <2>3, <2>4 DEF IInv, Reported
<1>5. CASE Len(path) # 1
  <2>1. /\ phase' = "search" /\ via' \in Seq(Bug) /\ Len(via') = Len(via) - 1 /\ Len(via) # 0
        /\ \A i \in 1..Len(via) - 1 : via'[i] = via[i]
    BY <1>1, <1>2, <1>5, CutIs
  <2>2. TypeOK' /\ Shape'
    BY <1>1, <1>2, <1>3, <2>1 DEF IInv, TypeOK, Shape
  <2>7. \A i \in 1..Len(via') : i \in 1..Len(via) /\ via'[i] = via[i] /\ path'[i] = path[i]
    BY <1>2, <1>3, <2>1
  <2>8. \A i \in 1..Len(via') : i + 1 \in 1..Len(path) - 1
    BY <1>2, <2>1
  <2>3. Chain'
    <3>1. Wants' /\ Saw' /\ Once'
      BY <1>1, <2>7 DEF IInv, Chain, Wants, Saw, Once
    <3>2. Asks'
      BY <1>1, <1>2, <1>3, <2>7, <2>8 DEF IInv, Chain, Asks
    <3> QED
      BY <3>1, <3>2 DEF Chain
  <2>4. path # <<>> /\ path'[1] = path[1]
    BY <1>2, <1>3, <2>1
  <2>5. Root' /\ Untried'
    BY <1>1, <2>4 DEF IInv, Root, Untried
  <2>6. Ownership'
    BY <1>1, <2>1 DEF IInv, Ownership, Admissible, ChosenOwned, OwnedChosen, FreeToTake, Moving
  <2> QED
    BY <1>1, <2>1, <2>2, <2>3, <2>5, <2>6 DEF IInv, Reported
<1> QED
  BY <1>4, <1>5

\* The last call that returned true takes its bug v: what the stack says of it.
LEMMA Taking ==
  ASSUME IInv, Take
  PROVE  LET n == Len(path)
             v == via[Len(via)]
         IN  /\ n \in Nat \ {0} /\ Len(via) = n /\ Here \in Finding /\ v \in Bug
             /\ gtOwner' = [gtOwner EXCEPT ![v] = Here]
             /\ chosen' = [chosen EXCEPT ![Here] = v]
             /\ phase' = (IF n = 1 THEN "next" ELSE "take")
             /\ path' \in Seq(Finding) /\ via' \in Seq(Bug) /\ Len(path') = n - 1 /\ Len(via') = n - 1
             /\ \A i \in 1..n - 1 : path'[i] = path[i] /\ via'[i] = via[i] /\ via[i] # v
             /\ <<Here, v>> \in DOMAIN cand
             /\ \A b \in Bug \ {v} : gtOwner[b] = Here => n # 1 /\ b = via[n - 1]
             /\ n # 1 => gtOwner[via[n - 1]] = Here /\ via[n - 1] \in Bug /\ Here # path[1]
             /\ Here \notin todo
             /\ UNCHANGED <<cand, todo, seen, byFinding, byGt, duplicates>>
<1> DEFINE n == Len(path)
           v == via[Len(via)]
<1>1. /\ phase = "take" /\ path' = Cut(path) /\ via' = Cut(via)
      /\ gtOwner' = [gtOwner EXCEPT ![v] = Here]
      /\ chosen' = [chosen EXCEPT ![Here] = v]
      /\ phase' = (IF n = 1 THEN "next" ELSE "take")
      /\ UNCHANGED <<cand, todo, seen, byFinding, byGt, duplicates>>
  BY DEF Take, result
<1>2. /\ path \in Seq(Finding) /\ via \in Seq(Bug) /\ n \in Nat \ {0} /\ Len(via) = n
      /\ Here = path[n] /\ Here \in Finding /\ v \in Bug /\ path # <<>>
  BY <1>1 DEF IInv, TypeOK, Shape, Here
<1>3. /\ path' \in Seq(Finding) /\ Len(path') = n - 1 /\ \A i \in 1..n - 1 : path'[i] = path[i]
  BY <1>1, <1>2, CutIs
<1>4. /\ via' \in Seq(Bug) /\ Len(via') = n - 1 /\ \A i \in 1..n - 1 : via'[i] = via[i]
  BY <1>1, <1>2, CutIs
<1>5. <<Here, v>> \in DOMAIN cand /\ \A i \in 1..n - 1 : via[i] # v
  BY <1>2 DEF IInv, Chain, Wants, Saw, Asks, Once
<1>6. n # 1 => gtOwner[via[n - 1]] = Here /\ via[n - 1] \in Bug
  <2>1. n # 1 => n - 1 \in 1..Len(via) /\ (n - 1) + 1 = n
    BY <1>2
  <2> QED
    BY <1>2, <2>1 DEF IInv, Chain, Wants, Saw, Asks, Once
<1>7. n # 1 => Here # path[1]
  BY <1>2, <1>6 DEF IInv, Root
<1>8. Here \notin todo
  BY <1>2, <1>6 DEF IInv, Root, Untried
<1>9. ASSUME NEW b \in Bug \ {v}, gtOwner[b] = Here
      PROVE  n # 1 /\ b = via[n - 1]
  <2>1. n # 1
    BY <1>2, <1>9 DEF IInv, Root
  <2>2. via[n - 1] # v
    BY <1>2, <1>5, <2>1
  <2>3. chosen[Here] = via[n - 1] /\ chosen[Here] = b
    BY <1>1, <1>2, <1>6, <1>9, <2>1, <2>2, NoneIsNobody DEF IInv, Ownership, OwnedChosen, Moving
  <2> QED
    BY <2>1, <2>3
<1> QED
  BY <1>1, <1>2, <1>3, <1>4, <1>5, <1>6, <1>7, <1>8, <1>9

LEMMA TakeKeepsIInv == ASSUME IInv, Take PROVE IInv'
<1> DEFINE n == Len(path)
           v == via[Len(via)]
<1>1. /\ n \in Nat \ {0} /\ Len(via) = n /\ Here \in Finding /\ v \in Bug
      /\ gtOwner' = [gtOwner EXCEPT ![v] = Here]
      /\ chosen' = [chosen EXCEPT ![Here] = v]
      /\ phase' = (IF n = 1 THEN "next" ELSE "take")
      /\ path' \in Seq(Finding) /\ via' \in Seq(Bug) /\ Len(path') = n - 1 /\ Len(via') = n - 1
      /\ UNCHANGED <<cand, todo, seen, byFinding, byGt, duplicates>>
  BY Taking
<1>2. \A i \in 1..n - 1 : path'[i] = path[i] /\ via'[i] = via[i] /\ via[i] # v
  BY Taking
<1>3. <<Here, v>> \in DOMAIN cand /\ Here \notin todo
  BY Taking
<1>4. \A b \in Bug \ {v} : gtOwner[b] = Here => n # 1 /\ b = via[n - 1]
  BY Taking
<1>5. n # 1 => gtOwner[via[n - 1]] = Here /\ via[n - 1] \in Bug /\ Here # path[1]
  BY Taking
<1>6. /\ gtOwner \in [Bug -> Finding \cup {None}] /\ chosen \in [Finding -> Bug \cup {None}]
      /\ phase = "take"
  BY DEF IInv, TypeOK, Take
<1>7. TypeOK'
  BY <1>1, <1>6 DEF IInv, TypeOK
<1>8. Shape'
  <2>1. n = 1 => path' = <<>> /\ via' = <<>>
    BY <1>1, EmptySeq
  <2>2. n # 1 => Len(path') # 0
    BY <1>1
  <2> QED
    BY <1>1, <2>1, <2>2 DEF Shape
<1>9. Chain'
  <2>1. \A i \in 1..Len(via') : i \in 1..Len(via) /\ i \in 1..n - 1
    BY <1>1
  <2>2. \A i \in 1..Len(via') : <<path'[i], via'[i]>> \in DOMAIN cand' /\ via'[i] \in seen'
    BY <1>1, <1>2, <2>1 DEF IInv, Chain, Wants, Saw, Asks, Once
  <2>3. ASSUME NEW i \in 1..Len(via'), i + 1 <= Len(path')
        PROVE  gtOwner'[via'[i]] = path'[i + 1]
    <3>1. i \in 1..n - 1 /\ i + 1 \in 1..n - 1 /\ via[i] # v /\ via'[i] = via[i]
      BY <1>1, <1>2, <2>3
    <3>2. gtOwner[via[i]] = path[i + 1] /\ via[i] \in Bug
      BY <1>1, <3>1 DEF IInv, Chain, Wants, Saw, Asks, Once, TypeOK
    <3> QED
      BY <1>1, <1>2, <1>6, <3>1, <3>2
  <2>4. \A i, k \in 1..Len(via') : via'[i] = via'[k] => i = k
    BY <1>2, <2>1 DEF IInv, Chain, Wants, Saw, Asks, Once
  <2> QED
    BY <2>2, <2>3, <2>4 DEF Chain, Wants, Saw, Asks, Once
<1>10. Root'
  <2>1. SUFFICES ASSUME path' # <<>>
                 PROVE  path'[1] \notin todo' /\ \A b \in Bug : gtOwner'[b] # path'[1]
    BY DEF Root
  <2>2. n # 1 /\ path'[1] = path[1] /\ path # <<>>
    BY <1>1, <1>2, <2>1
  <2> QED
    BY <1>1, <1>5, <1>6, <2>2 DEF IInv, Root
<1>11. Untried'
  BY <1>1, <1>3, <1>6 DEF IInv, Untried
<1>12. Admissible'
  BY <1>1, <1>3, <1>6 DEF IInv, Ownership, Admissible
<1>13. ChosenOwned'
  <2>1. \A f \in Finding : chosen[f] # v
    BY <1>1, <1>6 DEF IInv, Ownership, FreeToTake, Moving
  <2> QED
    BY <1>1, <1>6, <2>1 DEF IInv, Ownership, ChosenOwned
<1>14. OwnedChosen'
  <2>1. SUFFICES ASSUME NEW b \in Bug, gtOwner'[b] # None, ~Moving(b)'
                 PROVE  chosen'[gtOwner'[b]] = b
    BY DEF OwnedChosen
  <2>2. CASE b = v
    BY <1>1, <1>6, <2>2
  <2>3. CASE b # v
    <3>1. gtOwner'[b] = gtOwner[b] /\ chosen[gtOwner[b]] = b /\ gtOwner[b] \in Finding
      BY <1>1, <1>6, <2>1, <2>3 DEF IInv, Ownership, OwnedChosen, Moving
    <3>2. ASSUME gtOwner[b] = Here
          PROVE  FALSE
      <4>1. n # 1 /\ b = via[n - 1]
        BY <1>4, <2>3, <3>2
      <4>2. phase' = "take" /\ Len(via') = n - 1 /\ via'[n - 1] = via[n - 1]
        BY <1>1, <1>2, <4>1
      <4> QED
        BY <2>1, <4>1, <4>2 DEF Moving
    <3> QED
      BY <1>1, <1>6, <3>1, <3>2
  <2> QED
    BY <2>2, <2>3
<1>15. FreeToTake'
  <2>1. SUFFICES ASSUME NEW f \in Finding, NEW b \in Bug, Moving(b)', chosen'[f] = b
                 PROVE  FALSE
    BY DEF FreeToTake
  <2>2. n # 1 /\ b = via[n - 1] /\ b # v
    BY <1>1, <1>2, <2>1 DEF Moving
  <2>3. f # Here /\ chosen[f] = b
    BY <1>1, <1>6, <2>1, <2>2
  <2>4. gtOwner[b] = f
    BY <2>3, NoneIsNobody DEF IInv, Ownership, ChosenOwned
  <2> QED
    BY <1>5, <2>2, <2>3, <2>4
<1> QED
  BY <1>1, <1>7, <1>8, <1>9, <1>10, <1>11, <1>12, <1>13, <1>14, <1>15 DEF IInv, Ownership, Reported

\* When the search is over every finding that chose a bug owns it, so nobody is
\* re-homed, and the two maps of the result are one relation read both ways.
LEMMA FinishKeepsIInv == ASSUME IInv, Finish PROVE IInv'
<1>1. /\ phase = "next" /\ phase' = "done"
      /\ UNCHANGED <<cand, todo, path, via, seen, gtOwner, chosen>>
  BY DEF Finish, search
<1>2. /\ gtOwner \in [Bug -> Finding \cup {None}] /\ chosen \in [Finding -> Bug \cup {None}]
      /\ \A f \in Finding : chosen[f] # None => gtOwner[chosen[f]] = f
      /\ \A b \in Bug : gtOwner[b] # None => chosen[gtOwner[b]] = b
  BY <1>1 DEF IInv, TypeOK, Ownership, ChosenOwned, OwnedChosen, Moving
<1>3. Kept = {f \in Finding : chosen[f] # None} /\ Rehomed = {}
  BY <1>2, NoneIsNobody DEF Kept, Rehomed
<1>4. byFinding' = [f \in Kept |-> chosen[f]]
  BY <1>3 DEF Finish
<1>5. Won(byFinding') = {b \in Bug : gtOwner[b] # None}
  <2>1. ASSUME NEW b \in Bug, gtOwner[b] # None
        PROVE  gtOwner[b] \in Kept /\ chosen[gtOwner[b]] = b
    BY <1>2, <1>3, <2>1, NoneIsNobody
  <2>2. ASSUME NEW f \in Kept
        PROVE  chosen[f] \in Bug /\ gtOwner[chosen[f]] # None
    BY <1>2, <1>3, <2>2, NoneIsNobody
  <2> QED
    BY <1>4, <2>1, <2>2 DEF Won
<1>6. byGt' \in [Won(byFinding') -> DOMAIN byFinding'] /\ \A b \in Won(byFinding') : byFinding'[byGt'[b]] = b
  BY DEF Finish
<1>7. ASSUME NEW b \in Bug, gtOwner[b] # None
      PROVE  byGt'[b] = gtOwner[b] /\ byFinding'[gtOwner[b]] = b
  <2>1. byGt'[b] \in Kept /\ chosen[byGt'[b]] = b
    BY <1>4, <1>5, <1>6, <1>7
  <2>2. gtOwner[b] \in Kept /\ chosen[gtOwner[b]] = b
    BY <1>2, <1>3, <1>7, NoneIsNobody
  <2> QED
    BY <1>2, <1>3, <1>4, <2>1, <2>2
<1>8. DOMAIN byFinding' = {gtOwner[b] : b \in DOMAIN byGt'}
  <2>1. \A f \in Kept : chosen[f] \in DOMAIN byGt' /\ gtOwner[chosen[f]] = f
    BY <1>2, <1>3, <1>5, <1>6, NoneIsNobody
  <2>2. \A b \in DOMAIN byGt' : gtOwner[b] \in Kept
    BY <1>2, <1>3, <1>5, <1>6, NoneIsNobody
  <2> QED
    BY <1>4, <2>1, <2>2
<1>9. Reported'
  BY <1>1, <1>5, <1>6, <1>7, <1>8 DEF Reported
<1>10. TypeOK' /\ Shape' /\ Chain' /\ Root' /\ Untried'
  BY <1>1 DEF IInv, TypeOK, Shape, Chain, Wants, Saw, Asks, Once, Root, Untried
<1>11. Ownership'
  BY <1>1 DEF IInv, Ownership, Admissible, ChosenOwned, OwnedChosen, FreeToTake, Moving
<1> QED
  BY <1>9, <1>10, <1>11 DEF IInv

LEMMA NextKeepsIInv == IInv /\ [Next]_vars => IInv'
<1> SUFFICES ASSUME IInv, [Next]_vars PROVE IInv'
  OBVIOUS
<1>1. CASE Step
  BY <1>1, TryKeepsIInv, VisitFreeKeepsIInv, VisitHeldKeepsIInv, DeadEndKeepsIInv, TakeKeepsIInv,
     FinishKeepsIInv DEF Step
<1>2. CASE UNCHANGED vars
  BY <1>2 DEF vars, search, result, IInv, TypeOK, Shape, Chain, Wants, Saw, Asks, Once, Root, Untried, Ownership, Admissible,
     ChosenOwned, OwnedChosen, FreeToTake, Moving, Reported
<1> QED
  BY <1>1, <1>2 DEF Next, Returned

LEMMA Inductive == Spec => []IInv
BY InitIInv, NextKeepsIInv, PTL DEF Spec

(***************************************************************************)
(* What the invariant gives.                                               *)
(***************************************************************************)

\* The variables keep their types, whatever the candidates.
THEOREM TypeCorrect == Spec => []TypeOK
<1>1. IInv => TypeOK
  BY DEF IInv
<1> QED
  BY <1>1, Inductive, PTL

\* No bug is credited to two findings and no finding with two bugs, and what is
\* reported is exactly the ownership the search ended with.
THEOREM CreditOnce == Spec => []OneToOne
<1>1. IInv => OneToOne
  <2> SUFFICES ASSUME IInv PROVE OneToOne
    OBVIOUS
  <2>1. ASSUME phase # "take", NEW b \in Bug, NEW c \in Bug, gtOwner[b] # None, gtOwner[b] = gtOwner[c]
        PROVE  b = c
    BY <2>1 DEF IInv, Ownership, OwnedChosen, Moving
  <2> QED
    BY <2>1 DEF IInv, Ownership, Admissible, Reported, OneToOne
<1> QED
  BY <1>1, Inductive, PTL

\* chosen never disagrees with gtOwner: the loop of assign() that re-homes
\* findings has nothing to do.
THEOREM NothingToRehome == Spec => []ChosenIsOwned
<1>1. IInv => ChosenIsOwned
  BY DEF IInv, Ownership, ChosenOwned, OwnedChosen, Moving, ChosenIsOwned
<1> QED
  BY <1>1, Inductive, PTL

(***************************************************************************)
(* The search implements Matching.                                         *)
(***************************************************************************)

Owners == [Bug -> Finding \cup {None}]

\* The calls in p take the bugs in w: each its own, the other bugs stay.
LEMMA AppliedIs ==
  ASSUME NEW o \in Owners, NEW p \in Seq(Finding), NEW w \in Seq(Bug), Len(p) = Len(w),
         \A i, k \in 1..Len(w) : w[i] = w[k] => i = k
  PROVE  /\ Applied(o, p, w) \in Owners
         /\ \A i \in 1..Len(w) : Applied(o, p, w)[w[i]] = p[i]
         /\ \A b \in Bug : (\A i \in 1..Len(w) : w[i] # b) => Applied(o, p, w)[b] = o[b]
<1>1. /\ DOMAIN w = 1..Len(w) /\ \A i \in 1..Len(w) : w[i] \in Bug /\ p[i] \in Finding
  BY LenProperties
<1>2. ASSUME NEW i \in 1..Len(w)
      PROVE  Applied(o, p, w)[w[i]] = p[i]
  <2>1. (CHOOSE k \in DOMAIN w : w[k] = w[i]) = i
    BY <1>1
  <2> QED
    BY <1>1, <2>1 DEF Applied
<1>3. ASSUME NEW b \in Bug, \A i \in 1..Len(w) : w[i] # b
      PROVE  Applied(o, p, w)[b] = o[b]
  BY <1>1, <1>3 DEF Applied
<1>4. ASSUME NEW b \in Bug
      PROVE  Applied(o, p, w)[b] \in Finding \cup {None}
  <2>1. CASE \A i \in 1..Len(w) : w[i] # b
    BY <1>3, <2>1 DEF Owners
  <2>2. CASE \E i \in 1..Len(w) : w[i] = b
    BY <1>1, <1>2, <2>2
  <2> QED
    BY <2>1, <2>2
<1>5. Applied(o, p, w) \in Owners
  <2> DEFINE g == Applied(o, p, w)
  <2>1. g = [b \in Bug |-> g[b]]
    BY DEF Applied
  <2>2. \A b \in Bug : g[b] \in Finding \cup {None}
    BY <1>4
  <2> HIDE DEF g
  <2>3. g \in Owners
    BY <2>1, <2>2 DEF Owners
  <2> QED
    BY <2>3 DEF g
<1> QED
  BY <1>2, <1>3, <1>5

\* It makes no difference whether the last of them has taken its bug already.
LEMMA TakeOne ==
  ASSUME NEW o \in Owners, NEW p \in Seq(Finding), NEW w \in Seq(Bug), Len(p) = Len(w), Len(w) # 0,
         \A i, k \in 1..Len(w) : w[i] = w[k] => i = k,
         NEW q \in Seq(Finding), NEW x \in Seq(Bug), Len(q) = Len(w) - 1, Len(x) = Len(w) - 1,
         \A i \in 1..Len(w) - 1 : q[i] = p[i] /\ x[i] = w[i],
         NEW u \in Owners, u[w[Len(w)]] = p[Len(w)], \A b \in Bug \ {w[Len(w)]} : u[b] = o[b]
  PROVE  Applied(u, q, x) = Applied(o, p, w)
<1> DEFINE n == Len(w)
           A == Applied(o, p, w)
           B == Applied(u, q, x)
<1>1. n \in Nat \ {0} /\ w[n] \in Bug /\ p[n] \in Finding
  BY LenProperties
<1>2. u[w[n]] = p[n] /\ \A b \in Bug \ {w[n]} : u[b] = o[b]
  OBVIOUS
<1>3. /\ A \in Owners /\ \A i \in 1..n : A[w[i]] = p[i]
      /\ \A b \in Bug : (\A i \in 1..n : w[i] # b) => A[b] = o[b]
  BY AppliedIs
<1> HIDE DEF n, A
<1>4. Len(q) = Len(x) /\ \A i, k \in 1..Len(x) : x[i] = x[k] => i = k
  BY <1>1 DEF n
<1>5. /\ B \in Owners /\ \A i \in 1..Len(x) : B[x[i]] = q[i]
      /\ \A b \in Bug : (\A i \in 1..Len(x) : x[i] # b) => B[b] = u[b]
  BY <1>4, AppliedIs
<1> HIDE DEF B
<1>6. ASSUME NEW b \in Bug PROVE B[b] = A[b]
  <2>1. CASE b = w[n]
    <3>1. \A i \in 1..Len(x) : x[i] # b
      BY <1>1, <2>1 DEF n
    <3> QED
      BY <1>1, <1>2, <1>3, <1>5, <2>1, <3>1
  <2>2. CASE \E i \in 1..n - 1 : w[i] = b
    <3>1. PICK i \in 1..n - 1 : w[i] = b
      BY <2>2
    <3>2. i \in 1..n /\ i \in 1..Len(x) /\ x[i] = b /\ q[i] = p[i]
      BY <1>1, <3>1 DEF n
    <3> QED
      BY <1>3, <1>5, <3>1, <3>2
  <2>3. CASE \A i \in 1..n : w[i] # b
    <3>1. b # w[n] /\ \A i \in 1..Len(x) : x[i] # b
      BY <1>1, <2>3 DEF n
    <3> QED
      BY <1>2, <1>3, <1>5, <2>3, <3>1
  <2>4. \A i \in 1..n : i = n \/ i \in 1..n - 1
    BY <1>1
  <2> QED
    BY <2>1, <2>2, <2>3, <2>4
<1>7. B = A
  BY <1>3, <1>5, <1>6 DEF Owners
<1> QED
  BY <1>7 DEF A, B

\* With no call taking, nothing is applied.
LEMMA TakeNothing ==
  ASSUME NEW o \in Owners, NEW p \in Seq(Finding), NEW w \in Seq(Bug), Len(p) = 0, Len(w) = 0
  PROVE  Applied(o, p, w) = o
<1>1. Len(p) = Len(w) /\ \A i, k \in 1..Len(w) : w[i] = w[k] => i = k
  OBVIOUS
<1>2. /\ Applied(o, p, w) \in Owners
      /\ \A b \in Bug : (\A i \in 1..Len(w) : w[i] # b) => Applied(o, p, w)[b] = o[b]
  BY <1>1, AppliedIs
<1>3. \A b \in Bug : Applied(o, p, w)[b] = o[b]
  BY <1>2
<1> QED
  BY <1>2, <1>3 DEF Owners

\* Outside the taking no finding owns two bugs.
LEMMA OwnersDiffer ==
  ASSUME IInv, phase # "take", NEW b \in Bug, NEW c \in Bug, gtOwner[b] # None, gtOwner[b] = gtOwner[c]
  PROVE  b = c
BY DEF IInv, Ownership, OwnedChosen, Moving

\* A call that takes its bug does what was pending.
LEMMA TakeStutters == ASSUME IInv, Take PROVE Pending' = Pending
<1>1. /\ phase = "take" /\ path \in Seq(Finding) /\ via \in Seq(Bug) /\ Len(path) = Len(via) /\ Len(via) # 0
      /\ gtOwner \in Owners /\ \A i, k \in 1..Len(via) : via[i] = via[k] => i = k
  BY DEF Take, IInv, TypeOK, Shape, Chain, Once, Owners
<1>2. /\ Len(via) \in Nat \ {0}
      /\ gtOwner' = [gtOwner EXCEPT ![via[Len(via)]] = path[Len(via)]]
      /\ phase' = (IF Len(via) = 1 THEN "next" ELSE "take")
      /\ path' \in Seq(Finding) /\ via' \in Seq(Bug)
      /\ Len(path') = Len(via) - 1 /\ Len(via') = Len(via) - 1
      /\ \A i \in 1..Len(via) - 1 : path'[i] = path[i] /\ via'[i] = via[i]
      /\ path[Len(via)] \in Finding /\ via[Len(via)] \in Bug
  BY <1>1, Taking DEF Here
<1>3. Applied(gtOwner', path', via') = Applied(gtOwner, path, via)
  <2>1. /\ gtOwner' \in Owners /\ gtOwner'[via[Len(via)]] = path[Len(via)]
        /\ \A b \in Bug \ {via[Len(via)]} : gtOwner'[b] = gtOwner[b]
    BY <1>1, <1>2 DEF Owners
  <2>2. ASSUME NEW q \in Seq(Finding), NEW x \in Seq(Bug), Len(q) = Len(via) - 1, Len(x) = Len(via) - 1,
               \A i \in 1..Len(via) - 1 : q[i] = path[i] /\ x[i] = via[i],
               NEW u \in Owners, u[via[Len(via)]] = path[Len(via)],
               \A b \in Bug \ {via[Len(via)]} : u[b] = gtOwner[b]
        PROVE  Applied(u, q, x) = Applied(gtOwner, path, via)
    <3>1. PICK o, p, w : o = gtOwner /\ p = path /\ w = via
      OBVIOUS
    <3>2. /\ o \in Owners /\ p \in Seq(Finding) /\ w \in Seq(Bug) /\ Len(p) = Len(w) /\ Len(w) # 0
          /\ \A i, k \in 1..Len(w) : w[i] = w[k] => i = k
      BY ONLY <1>1, <3>1
    <3>3. /\ q \in Seq(Finding) /\ x \in Seq(Bug) /\ Len(q) = Len(w) - 1 /\ Len(x) = Len(w) - 1
          /\ \A i \in 1..Len(w) - 1 : q[i] = p[i] /\ x[i] = w[i]
      BY ONLY <2>2, <3>1
    <3>4. u \in Owners /\ u[w[Len(w)]] = p[Len(w)] /\ \A b \in Bug \ {w[Len(w)]} : u[b] = o[b]
      BY ONLY <2>2, <3>1
    <3>5. Applied(u, q, x) = Applied(o, p, w)
      BY ONLY <3>2, <3>3, <3>4, TakeOne
    <3> QED
      BY ONLY <3>1, <3>5
  <2> QED
    BY <1>2, <2>1, <2>2
<1>4. gtOwner' \in Owners
  BY <1>1, <1>2 DEF Owners
<1>5. Len(via) = 1 => Applied(gtOwner', path', via') = gtOwner'
  <2>1. Len(via) = 1 => Len(path') = 0 /\ Len(via') = 0
    BY <1>2
  <2> QED
    BY <1>2, <1>4, <2>1, TakeNothing
<1>6. Pending' = Applied(gtOwner', path', via')
  BY <1>2, <1>5 DEF Pending
<1> QED
  BY <1>1, <1>3, <1>6 DEF Pending

\* Moving every caller one bug on along a chain that ends at a free bug serves
\* the first caller, and nobody loses.
LEMMA ChainAugments ==
  ASSUME NEW o \in Owners, NEW p \in Seq(Finding), NEW w \in Seq(Bug), Len(p) = Len(w), Len(w) # 0,
         \A i, k \in 1..Len(w) : w[i] = w[k] => i = k,
         \A b, c \in Bug : o[b] # None /\ o[b] = o[c] => b = c,
         \A i \in 1..Len(w) - 1 : o[w[i]] = p[i + 1],
         \A b \in Bug : o[b] # p[1],
         o[w[Len(w)]] = None
  PROVE  LET q == Applied(o, p, w)
         IN  /\ q \in Owners
             /\ Abstract!OneToOne(q)
             /\ Abstract!Held(q) = Abstract!Held(o) \cup {w[Len(w)]}
             /\ Abstract!Winners(q) = Abstract!Winners(o) \cup {p[1]}
             /\ w[Len(w)] \in Bug \ Abstract!Held(o) /\ p[1] \in Finding \ Abstract!Winners(o)
<1> DEFINE n == Len(w)
           q == Applied(o, p, w)
           Taken(b) == \E i \in 1..n : w[i] = b
<1>1. /\ n \in Nat \ {0} /\ n \in 1..n /\ 1 \in 1..n
      /\ \A i \in 1..n : w[i] \in Bug /\ p[i] \in Finding /\ p[i] # None
  BY LenProperties, NoneIsNobody
<1>2. /\ q \in Owners /\ \A i \in 1..n : q[w[i]] = p[i]
      /\ \A b \in Bug : ~Taken(b) => q[b] = o[b]
  <2>1. /\ q \in Owners /\ \A i \in 1..Len(w) : q[w[i]] = p[i]
        /\ \A b \in Bug : (\A i \in 1..Len(w) : w[i] # b) => q[b] = o[b]
    BY AppliedIs, Zenon
  <2> QED
    BY <2>1, Zenon
<1> HIDE DEF q
<1>3. \A i \in 1..n : i # 1 => i - 1 \in 1..n /\ o[w[i - 1]] = p[i]
  <2> SUFFICES ASSUME NEW i \in 1..n, i # 1 PROVE i - 1 \in 1..n /\ o[w[i - 1]] = p[i]
    OBVIOUS
  <2>1. i - 1 \in 1..n - 1 /\ i - 1 \in 1..n /\ (i - 1) + 1 = i
    BY <1>1
  <2> QED
    BY <2>1
<1>4. \A i \in 1..n : i # n => o[w[i]] = p[i + 1] /\ i + 1 \in 1..n
  BY <1>1
<1>5. ASSUME NEW b \in Bug, NEW c \in Bug, q[b] # None, q[b] = q[c] PROVE b = c
  <2>1. CASE ~Taken(b) /\ ~Taken(c)
    BY <1>2, <1>5, <2>1
  <2>2. CASE Taken(b) /\ Taken(c)
    <3>1. PICK i \in 1..n, k \in 1..n : w[i] = b /\ w[k] = c
      BY <2>2
    <3>2. p[i] = p[k]
      BY <1>2, <1>5, <3>1
    <3>3. CASE i = 1 \/ k = 1
      BY <1>1, <1>3, <3>1, <3>2, <3>3
    <3>4. CASE i # 1 /\ k # 1
      <4>1. o[w[i - 1]] = o[w[k - 1]] /\ o[w[i - 1]] # None /\ i - 1 \in 1..n /\ k - 1 \in 1..n
        BY <1>1, <1>3, <3>2, <3>4
      <4>2. w[i - 1] = w[k - 1]
        BY <1>1, <4>1
      <4>3. i - 1 = k - 1
        BY <4>1, <4>2
      <4> QED
        BY <1>1, <3>1, <4>3
    <3> QED
      BY <3>3, <3>4
  <2>3. ASSUME NEW x \in Bug, NEW y \in Bug, Taken(x), ~Taken(y), q[x] = q[y] PROVE FALSE
    <3>1. PICK i \in 1..n : w[i] = x
      BY <2>3
    <3>2. o[y] = p[i]
      BY <1>2, <2>3, <3>1
    <3>3. i # 1
      BY <3>2
    <3>4. o[w[i - 1]] = o[y] /\ o[y] # None /\ i - 1 \in 1..n
      BY <1>1, <1>3, <3>2, <3>3
    <3> QED
      BY <1>1, <2>3, <3>4
  <2> QED
    BY <1>5, <2>1, <2>2, <2>3
<1>6. ASSUME NEW b \in Bug PROVE q[b] # None <=> o[b] # None \/ b = w[n]
  <2>1. CASE ~Taken(b)
    BY <1>1, <1>2, <2>1
  <2>2. CASE Taken(b)
    <3>1. PICK i \in 1..n : w[i] = b
      BY <2>2
    <3>2. q[b] # None
      BY <1>1, <1>2, <3>1
    <3>3. i # n => o[b] # None
      BY <1>1, <1>4, <3>1
    <3> QED
      BY <3>1, <3>2, <3>3
  <2> QED
    BY <2>1, <2>2
<1>7. ASSUME NEW f PROVE (\E b \in Bug : q[b] # None /\ q[b] = f) <=> (\E b \in Bug : o[b] # None /\ o[b] = f) \/ f = p[1]
  <2>1. ASSUME NEW b \in Bug, q[b] # None PROVE q[b] = p[1] \/ \E c \in Bug : o[c] # None /\ o[c] = q[b]
    <3>1. CASE ~Taken(b)
      BY <1>2, <2>1, <3>1
    <3>2. CASE Taken(b)
      <4>1. PICK i \in 1..n : w[i] = b
        BY <3>2
      <4>2. q[b] = p[i]
        BY <1>2, <4>1
      <4>3. i # 1 => w[i - 1] \in Bug /\ o[w[i - 1]] = q[b]
        BY <1>1, <1>3, <4>2
      <4> QED
        BY <2>1, <4>2, <4>3
    <3> QED
      BY <3>1, <3>2
  <2>2. ASSUME NEW b \in Bug, o[b] # None PROVE \E c \in Bug : q[c] # None /\ q[c] = o[b]
    <3>1. CASE ~Taken(b)
      BY <1>2, <2>2, <3>1
    <3>2. CASE Taken(b)
      <4>1. PICK i \in 1..n : w[i] = b
        BY <3>2
      <4>2. i # n
        BY <2>2, <4>1
      <4>3. i + 1 \in 1..n /\ o[b] = p[i + 1]
        BY <1>4, <4>1, <4>2
      <4>4. q[w[i + 1]] = o[b] /\ w[i + 1] \in Bug
        BY <1>1, <1>2, <4>3
      <4> QED
        BY <2>2, <4>4
    <3> QED
      BY <3>1, <3>2
  <2>3. q[w[1]] = p[1] /\ w[1] \in Bug /\ p[1] # None
    BY <1>1, <1>2
  <2> QED
    BY <2>1, <2>2, <2>3
<1>8. Abstract!OneToOne(q)
  BY <1>5 DEF Abstract!OneToOne, Abstract!Held
<1>9. Abstract!Held(q) = Abstract!Held(o) \cup {w[n]}
  BY <1>1, <1>6 DEF Abstract!Held
<1>10. Abstract!Winners(q) = Abstract!Winners(o) \cup {p[1]}
  <2>1. \A f : f \in Abstract!Winners(q) <=> \E b \in Bug : q[b] # None /\ q[b] = f
    BY DEF Abstract!Winners, Abstract!Held
  <2>2. \A f : f \in Abstract!Winners(o) <=> \E b \in Bug : o[b] # None /\ o[b] = f
    BY DEF Abstract!Winners, Abstract!Held
  <2> QED
    BY <1>7, <2>1, <2>2
<1>11. w[n] \in Bug \ Abstract!Held(o)
  BY <1>1 DEF Abstract!Held
<1>12. p[1] \in Finding \ Abstract!Winners(o)
  BY <1>1 DEF Abstract!Winners, Abstract!Held
<1> QED
  BY <1>2, <1>8, <1>9, <1>10, <1>11, <1>12 DEF q

\* Reaching a free bug is the augmentation: from here on every call takes.
LEMMA VisitFreeAugments == ASSUME IInv, NEW b \in Bug, VisitFree(b) PROVE Abstract!Augment
<1>1. /\ phase = "search" /\ IsNext(b) /\ gtOwner[b] = None /\ phase' = "take"
      /\ via' = Append(via, b) /\ path' = path /\ gtOwner' = gtOwner
  BY DEF VisitFree
<1>2. /\ via' \in Seq(Bug) /\ Len(via') = Len(path) /\ via'[Len(via')] = b
      /\ \A i \in 1..Len(via) : via'[i] = via[i]
      /\ \A i, k \in 1..Len(via') : via'[i] = via'[k] => i = k
  BY <1>1, LookAt
<1>3. /\ path \in Seq(Finding) /\ via \in Seq(Bug) /\ Len(path) = Len(via) + 1 /\ Len(via) \in Nat
      /\ gtOwner \in Owners /\ path # <<>>
  BY <1>1 DEF IInv, TypeOK, Shape, Owners
<1>4. /\ Len(path) = Len(via') /\ Len(via') # 0
      /\ \A i \in 1..Len(via') - 1 : gtOwner[via'[i]] = path[i + 1]
      /\ \A c \in Bug : gtOwner[c] # path[1]
      /\ gtOwner[via'[Len(via')]] = None
  <2>1. \A i \in 1..Len(via') - 1 : i \in 1..Len(via) /\ i + 1 <= Len(path)
    BY <1>2, <1>3
  <2>2. \A i \in 1..Len(via') - 1 : gtOwner[via'[i]] = path[i + 1]
    BY <1>2, <2>1 DEF IInv, Chain, Asks
  <2> QED
    BY <1>1, <1>2, <1>3, <2>2 DEF IInv, Root
<1>5. \A c, d \in Bug : gtOwner[c] # None /\ gtOwner[c] = gtOwner[d] => c = d
  BY <1>1, OwnersDiffer
<1>6. LET q == Applied(gtOwner, path, via')
      IN  /\ q \in Owners
          /\ Abstract!OneToOne(q)
          /\ Abstract!Held(q) = Abstract!Held(gtOwner) \cup {via'[Len(via')]}
          /\ Abstract!Winners(q) = Abstract!Winners(gtOwner) \cup {path[1]}
          /\ via'[Len(via')] \in Bug \ Abstract!Held(gtOwner)
          /\ path[1] \in Finding \ Abstract!Winners(gtOwner)
  BY <1>2, <1>3, <1>4, <1>5, ChainAugments
<1>7. Pending = gtOwner /\ Pending' = Applied(gtOwner, path, via')
  BY <1>1 DEF Pending
<1> QED
  BY <1>6, <1>7 DEF Abstract!Augment, Owners

\* Every other step leaves what is pending alone.
LEMMA NextAugments == ASSUME IInv, [Next]_vars PROVE [Abstract!Augment]_Pending
<1>1. ASSUME NEW f \in Finding, Try(f) PROVE Pending' = Pending
  BY <1>1 DEF Try, Pending
<1>2. ASSUME NEW b \in Bug, VisitHeld(b) PROVE Pending' = Pending
  BY <1>2 DEF VisitHeld, Pending
<1>3. ASSUME DeadEnd PROVE Pending' = Pending
  BY <1>3 DEF DeadEnd, Pending
<1>4. ASSUME Finish PROVE Pending' = Pending
  BY <1>4 DEF Finish, Pending
<1>5. ASSUME UNCHANGED vars PROVE Pending' = Pending
  BY <1>5 DEF vars, search, Pending
<1> QED
  BY <1>1, <1>2, <1>3, <1>4, <1>5, VisitFreeAugments, TakeStutters DEF Next, Step, Returned

\* The search, in as many assignments to gtOwner and chosen as it makes, only ever
\* augments a matching: no finding that has credit loses it to a later one.
THEOREM Implements == Spec => AugmentsOnly
<1>1. Init => Abstract!Init
  BY DEF Init, Pending, Abstract!Init
<1>2. IInv /\ [Next]_vars => [Abstract!Augment]_Pending
  BY NextAugments
<1> QED
  BY <1>1, <1>2, Inductive, PTL DEF Spec, AugmentsOnly, Abstract!Spec

-----------------------------------------------------------------------------
(* No finding with a candidate falls through.  Who has been tried and owns *)
(* nothing found every candidate held, and a bug once held stays held.     *)

\* The one who is about to lose a bug has chosen another already.
HolderRehomed ==
  phase = "take" /\ gtOwner[via[Len(via)]] # None => chosen[gtOwner[via[Len(via)]]] # None

SeenHeld == phase = "search" => \A b \in seen : gtOwner[b] # None

OwnsNone(f) == \A b \in Bug : gtOwner[b] # f

Served ==
  \A f \in Finding \ todo :
    (path # <<>> => f # path[1]) /\ OwnsNone(f) => \A b \in Adj(f) : gtOwner[b] # None

AtTheEnd ==
  phase = "done" =>
    /\ todo = {}
    /\ DOMAIN duplicates = {f \in Finding \ DOMAIN byFinding : Adj(f) \cap Won(byFinding) # {}}

Coverage == HolderRehomed /\ SeenHeld /\ Served /\ AtTheEnd

LEMMA InitCoverage == Init => Coverage
BY DEF Init, Coverage, HolderRehomed, SeenHeld, Served, AtTheEnd

LEMMA TryCovers == ASSUME IInv, Coverage, NEW f \in Finding, Try(f) PROVE Coverage'
<1>1. /\ phase = "next" /\ phase' = "search" /\ todo' = todo \ {f} /\ path' = <<f>> /\ seen' = {}
      /\ UNCHANGED <<cand, gtOwner, chosen>> /\ path = <<>>
  BY DEF Try, IInv, Shape
<1>2. path' # <<>> /\ path'[1] = f
  BY <1>1
<1>3. HolderRehomed' /\ SeenHeld' /\ AtTheEnd'
  BY <1>1 DEF HolderRehomed, SeenHeld, AtTheEnd
<1>4. Served'
  BY <1>1, <1>2 DEF Coverage, Served, OwnsNone, Adj
<1> QED
  BY <1>3, <1>4 DEF Coverage

LEMMA VisitFreeCovers == ASSUME IInv, Coverage, NEW b \in Bug, VisitFree(b) PROVE Coverage'
<1>1. /\ phase' = "take" /\ via' = Append(via, b) /\ gtOwner[b] = None
      /\ UNCHANGED <<cand, todo, path, gtOwner, chosen>>
  BY DEF VisitFree
<1>2. via'[Len(via')] = b
  BY <1>1 DEF IInv, TypeOK
<1>3. HolderRehomed' /\ SeenHeld' /\ AtTheEnd'
  BY <1>1, <1>2 DEF HolderRehomed, SeenHeld, AtTheEnd
<1>4. Served'
  BY <1>1 DEF Coverage, Served, OwnsNone, Adj
<1> QED
  BY <1>3, <1>4 DEF Coverage

LEMMA VisitHeldCovers == ASSUME IInv, Coverage, NEW b \in Bug, VisitHeld(b) PROVE Coverage'
<1>1. /\ phase = "search" /\ phase' = phase /\ seen' = seen \cup {b} /\ gtOwner[b] # None
      /\ path' = Append(path, gtOwner[b])
      /\ UNCHANGED <<cand, todo, gtOwner, chosen>>
  BY DEF VisitHeld
<1>2. path # <<>> /\ path \in Seq(Finding) /\ gtOwner[b] \in Finding
  BY <1>1 DEF IInv, TypeOK, Shape
<1>3. path' # <<>> /\ path'[1] = path[1]
  BY <1>1, <1>2
<1>4. HolderRehomed' /\ SeenHeld' /\ AtTheEnd'
  BY <1>1 DEF Coverage, HolderRehomed, SeenHeld, AtTheEnd
<1>5. Served'
  BY <1>1, <1>2, <1>3 DEF Coverage, Served, OwnsNone, Adj
<1> QED
  BY <1>4, <1>5 DEF Coverage

LEMMA DeadEndCovers == ASSUME IInv, Coverage, DeadEnd PROVE Coverage'
<1>1. /\ phase = "search" /\ Unseen = {} /\ path' = Cut(path)
      /\ phase' = IF Len(path) = 1 THEN "next" ELSE "search"
      /\ UNCHANGED <<cand, todo, seen, gtOwner, chosen>>
  BY DEF DeadEnd
<1>2. path \in Seq(Finding) /\ Len(path) # 0 /\ via \in Seq(Bug)
  BY <1>1 DEF IInv, TypeOK, Shape
<1>3. HolderRehomed' /\ SeenHeld' /\ AtTheEnd'
  BY <1>1 DEF Coverage, HolderRehomed, SeenHeld, AtTheEnd
<1>4. CASE Len(path) = 1
  <2>1. \A b \in Adj(path[1]) : gtOwner[b] # None
    BY <1>1, <1>4 DEF Unseen, Here, Coverage, SeenHeld
  <2>2. path # <<>>
    BY <1>2
  <2>3. Served'
    BY <1>1, <2>1, <2>2 DEF Coverage, Served, OwnsNone, Adj
  <2> QED
    BY <1>3, <2>3 DEF Coverage
<1>5. CASE Len(path) # 1
  <2>1. /\ Cut(path) \in Seq(Finding) /\ Len(Cut(path)) = Len(path) - 1
        /\ \A i \in 1..Len(path) - 1 : Cut(path)[i] = path[i]
    BY <1>2, CutIs
  <2>2. path # <<>> /\ path' # <<>> /\ path'[1] = path[1]
    BY <1>1, <1>2, <1>5, <2>1
  <2>3. Served'
    BY <1>1, <2>2 DEF Coverage, Served, OwnsNone, Adj
  <2> QED
    BY <1>3, <2>3 DEF Coverage
<1> QED
  BY <1>4, <1>5

LEMMA FinishCovers == ASSUME IInv, Coverage, Finish PROVE Coverage'
<1>1. /\ phase' = "done" /\ todo = {} /\ duplicates' = DuplicatesOf(byFinding')
      /\ UNCHANGED <<cand, todo, path, gtOwner, chosen>>
  BY DEF Finish, search
<1>2. HolderRehomed' /\ SeenHeld'
  BY <1>1 DEF HolderRehomed, SeenHeld
<1>3. AtTheEnd'
  BY <1>1 DEF AtTheEnd, DuplicatesOf, Adj, Won
<1>4. Served'
  BY <1>1 DEF Coverage, Served, OwnsNone, Adj
<1> QED
  BY <1>2, <1>3, <1>4 DEF Coverage

\* Taking makes nobody lose: who is without a bug afterwards was without one before.
LEMMA WinnersStay == ASSUME IInv, Coverage, Take, NEW f \in Finding, ~OwnsNone(f) PROVE ~OwnsNone(f)'
<1> DEFINE v == via[Len(via)]
<1>1. phase = "take" /\ gtOwner' = [gtOwner EXCEPT ![v] = Here] /\ v \in Bug
  BY Taking DEF Take
<1>2. /\ gtOwner \in [Bug -> Finding \cup {None}] /\ chosen \in [Finding -> Bug \cup {None}]
      /\ None \notin Finding /\ None \notin Bug
  BY NoneIsNobody DEF IInv, TypeOK
<1>3. PICK b \in Bug : gtOwner[b] = f
  BY DEF OwnsNone
<1>4. CASE b # v
  BY <1>1, <1>2, <1>3, <1>4 DEF OwnsNone
<1>5. CASE b = v
  <2>1. chosen[f] # None
    BY <1>1, <1>2, <1>3, <1>5 DEF Coverage, HolderRehomed
  <2>2. chosen[f] \in Bug /\ gtOwner[chosen[f]] = f
    BY <1>2, <2>1 DEF IInv, Ownership, ChosenOwned
  <2>3. chosen[f] # v
    BY <1>1 DEF IInv, Ownership, FreeToTake, Moving
  <2> QED
    BY <1>1, <1>2, <2>2, <2>3 DEF OwnsNone
<1> QED
  BY <1>4, <1>5

LEMMA TakeCovers == ASSUME IInv, Coverage, Take PROVE Coverage'
<1> DEFINE n == Len(path)
           v == via[Len(via)]
<1>1. /\ phase = "take" /\ n \in Nat \ {0} /\ Len(via) = n /\ Here \in Finding /\ v \in Bug
      /\ gtOwner' = [gtOwner EXCEPT ![v] = Here]
      /\ chosen' = [chosen EXCEPT ![Here] = v]
      /\ phase' = (IF n = 1 THEN "next" ELSE "take")
      /\ path' \in Seq(Finding) /\ via' \in Seq(Bug) /\ Len(path') = n - 1 /\ Len(via') = n - 1
      /\ UNCHANGED <<cand, todo, byFinding, duplicates>>
  BY Taking DEF Take
<1>2. \A i \in 1..n - 1 : path'[i] = path[i] /\ via'[i] = via[i] /\ via[i] # v
  BY Taking
<1>3. n # 1 => gtOwner[via[n - 1]] = Here /\ via[n - 1] \in Bug
  BY Taking
<1>4. /\ gtOwner \in [Bug -> Finding \cup {None}] /\ chosen \in [Finding -> Bug \cup {None}]
      /\ None \notin Finding /\ None \notin Bug
  BY NoneIsNobody DEF IInv, TypeOK
<1>5. /\ gtOwner'[v] = Here /\ \A b \in Bug \ {v} : gtOwner'[b] = gtOwner[b]
      /\ chosen'[Here] = v
  BY <1>1, <1>4
<1>6. \A b \in Bug : gtOwner[b] # None => gtOwner'[b] # None
  BY <1>1, <1>4, <1>5
<1>7. \A f \in Finding : ~OwnsNone(f) => ~OwnsNone(f)'
  BY WinnersStay
<1>8. HolderRehomed'
  <2> SUFFICES ASSUME phase' = "take"
               PROVE  chosen'[gtOwner'[via'[Len(via')]]] # None
    BY DEF HolderRehomed
  <2>1. n # 1 /\ n - 1 \in 1..n - 1
    BY <1>1
  <2>2. via'[Len(via')] = via[n - 1] /\ via[n - 1] # v
    BY <1>1, <1>2, <2>1
  <2>3. gtOwner'[via[n - 1]] = Here
    BY <1>3, <1>5, <2>1, <2>2
  <2> QED
    BY <1>1, <1>4, <1>5, <2>2, <2>3
<1>9. Served'
  <2> SUFFICES ASSUME NEW f \in Finding \ todo, path' # <<>> => f # path'[1], OwnsNone(f)',
                      NEW b \in Adj(f)
               PROVE  gtOwner'[b] # None
    BY <1>1 DEF Served, Adj
  <2>1. OwnsNone(f) /\ b \in Bug
    BY <1>7 DEF Adj
  <2>2. f # Here
    BY <1>1, <1>5 DEF OwnsNone
  <2>3. f # path[1]
    <3>1. CASE n = 1
      BY <1>1, <2>2, <3>1 DEF Here
    <3>2. CASE n # 1
      <4>1. path' # <<>> /\ 1 \in 1..n - 1
        BY <1>1, <3>2
      <4> QED
        BY <1>2, <4>1
    <3> QED
      BY <3>1, <3>2
  <2>4. gtOwner[b] # None
    BY <2>1, <2>3 DEF Coverage, Served
  <2> QED
    BY <1>6, <2>1, <2>4
<1>10. SeenHeld' /\ AtTheEnd'
  BY <1>1 DEF SeenHeld, AtTheEnd
<1> QED
  BY <1>8, <1>9, <1>10 DEF Coverage

LEMMA StutterCovers == ASSUME Coverage, UNCHANGED vars PROVE Coverage'
<1>1. UNCHANGED <<cand, phase, todo, path, via, seen, gtOwner, chosen, byFinding, duplicates>>
  BY DEF vars, search, result
<1>2. HolderRehomed' /\ SeenHeld'
  BY <1>1 DEF Coverage, HolderRehomed, SeenHeld
<1>3. Served'
  BY <1>1 DEF Coverage, Served, OwnsNone, Adj
<1>4. AtTheEnd'
  BY <1>1 DEF Coverage, AtTheEnd, Won, Adj
<1> QED
  BY <1>2, <1>3, <1>4 DEF Coverage

LEMMA AlwaysCovered == Spec => [](IInv /\ Coverage)
<1>1. IInv /\ Coverage /\ [Next]_vars => Coverage'
  BY TryCovers, VisitFreeCovers, VisitHeldCovers, DeadEndCovers, TakeCovers, FinishCovers,
     StutterCovers DEF Next, Step, Returned
<1> QED
  BY <1>1, InitCoverage, Inductive, PTL DEF Spec

\* A finding without credit lost every bug it could have had.
Beaten == phase = "done" => \A f \in Finding \ DOMAIN byFinding : Adj(f) \subseteq Won(byFinding)

LEMMA LosersAreBeaten == IInv /\ Coverage => Beaten
<1> SUFFICES ASSUME IInv, Coverage, phase = "done", NEW f \in Finding \ DOMAIN byFinding,
                    NEW b \in Adj(f)
             PROVE  b \in Won(byFinding)
  BY DEF Beaten
<1>1. /\ DOMAIN byGt = {c \in Bug : gtOwner[c] # None}
      /\ DOMAIN byFinding = {gtOwner[c] : c \in DOMAIN byGt}
      /\ \A c \in DOMAIN byGt : byFinding[gtOwner[c]] = c
  BY DEF IInv, Reported
<1>2. b \in Bug /\ path = <<>> /\ todo = {}
  BY DEF Adj, IInv, Shape, Coverage, AtTheEnd
<1>3. OwnsNone(f)
  BY <1>1, NoneIsNobody DEF OwnsNone
<1>4. gtOwner[b] # None
  BY <1>2, <1>3 DEF Coverage, Served
<1>5. gtOwner[b] \in DOMAIN byFinding /\ byFinding[gtOwner[b]] = b
  BY <1>1, <1>2, <1>4
<1> QED
  BY <1>5 DEF Won

\* Every finding without credit lost all its bugs to credited ones.
LEMMA AlwaysBeaten == Spec => []Beaten
BY LosersAreBeaten, AlwaysCovered, PTL

\* Whatever the candidates, a finding with an admissible pair is credited or is a
\* duplicate of a credited bug; it is never left to be charged as a false alarm.
THEOREM NobodyFallsThrough == Spec => []NoneLost
<1>1. IInv /\ Coverage => NoneLost
  <2> SUFFICES ASSUME IInv, Coverage, phase = "done"
               PROVE  {f \in Finding : Adj(f) # {}} = DOMAIN byFinding \cup DOMAIN duplicates
    BY DEF NoneLost
  <2>1. DOMAIN duplicates = {f \in Finding \ DOMAIN byFinding : Adj(f) \cap Won(byFinding) # {}}
    BY DEF Coverage, AtTheEnd
  <2>2. ASSUME NEW f \in DOMAIN byFinding PROVE f \in Finding /\ Adj(f) # {}
    BY DEF IInv, Reported, TypeOK, IsCandidateList, Ownership, Admissible, Adj
  <2> QED
    BY <2>1, <2>2, LosersAreBeaten DEF Beaten
<1> QED
  BY <1>1, AlwaysCovered, PTL

-----------------------------------------------------------------------------
(***************************************************************************)
(* No assignment credits more, and none credits stronger findings.  An     *)
(* attempt that fails leaves a closed set of bugs behind: all are held, by *)
(* findings that were tried before and have no candidate outside the set.  *)
(* No later augmentation can enter it, because it could not leave it for a *)
(* free bug; and with one finding more than bugs, no assignment can credit *)
(* the holders and the one that failed.                                    *)
(***************************************************************************)

ClosedFor(S, f) ==
  /\ \A b \in S : /\ gtOwner[b] # None
                  /\ Adj(gtOwner[b]) \subseteq S
                  /\ Sooner(gtOwner[b], f)
  /\ phase = "take" => \A i \in 1..Len(via) : via[i] \notin S

Tried(f) == f \in Finding \ todo /\ Adj(f) # {} /\ (path # <<>> => f # path[1])

\* Whoever was tried in vain met a closed set.
Shut ==
  \A f : Tried(f) /\ OwnsNone(f) => \E S \in SUBSET Bug : Adj(f) \subseteq S /\ ClosedFor(S, f)

\* The set in the making: a bug looked at is still on the stack, or its holder's
\* other candidates have all been looked at.
Searched ==
  phase = "search" =>
    \A b \in seen : /\ gtOwner[b] # None
                    /\ (\E i \in 1..Len(via) : via[i] = b) \/ Adj(gtOwner[b]) \subseteq seen

InOrder ==
  /\ \A g \in Finding \ todo : Adj(g) # {} => \A h \in todo : Sooner(g, h)
  /\ path # <<>> => \A g \in Finding \ todo : Adj(g) # {} /\ g # path[1] => Sooner(g, path[1])

Exhausted == Shut /\ Searched /\ InOrder

\* A set of naturals has a least element.
LEMMA Least == ASSUME NEW A \in SUBSET Nat, A # {} PROVE \E m \in A : \A n \in A : m <= n
<1> DEFINE T == {0..n : n \in A}
<1>1. T \subseteq FiniteSubsetsOf(Nat)
  <2>1. ASSUME NEW n \in A PROVE IsFiniteSet(0..n) /\ 0..n \in SUBSET Nat
    BY FS_Interval
  <2> QED
    BY <2>1 DEF FiniteSubsetsOf
<1>2. T # {}
  OBVIOUS
<1>3. IsWellFoundedOn(StrictSubsetOrdering(Nat), FiniteSubsetsOf(Nat))
  BY FS_StrictSubsetOrderingWellFounded
<1> HIDE DEF T
<1>4. PICK x \in T : \A y \in T : <<y, x>> \notin StrictSubsetOrdering(Nat)
  BY <1>1, <1>2, <1>3, WFMin
<1>5. PICK m \in A : x = 0..m
  BY DEF T
<1>6. ASSUME NEW n \in A PROVE m <= n
  <2>1. SUFFICES ASSUME n < m PROVE FALSE
    OBVIOUS
  <2>2. 0..n \in T /\ 0..n \subseteq 0..m /\ m \in 0..m /\ m \notin 0..n
    BY <2>1 DEF T
  <2>3. <<0..n, 0..m>> \in StrictSubsetOrdering(Nat)
    BY <2>2 DEF StrictSubsetOrdering
  <2> QED
    BY <1>4, <1>5, <2>2, <2>3
<1> QED
  BY <1>6

LEMMA InitExhausted == Init => Exhausted
BY DEF Init, Exhausted, Shut, Searched, InOrder, Tried

LEMMA TryExhausts == ASSUME IInv, Exhausted, NEW f \in Finding, Try(f) PROVE Exhausted'
<1>1. /\ phase = "next" /\ phase' = "search" /\ todo' = todo \ {f} /\ path' = <<f>> /\ via' = <<>>
      /\ seen' = {} /\ f \in todo /\ (\A g \in todo \ {f} : Sooner(f, g))
      /\ UNCHANGED <<cand, gtOwner>> /\ path = <<>>
  BY DEF Try, IInv, Shape
<1>2. path' # <<>> /\ path'[1] = f
  BY <1>1
<1>3. Searched'
  BY <1>1 DEF Searched
<1>4. \A g, h : Sooner(g, h)' = Sooner(g, h) /\ Adj(g)' = Adj(g)
  BY <1>1 DEF Sooner, Adj, Best, Ahead
<1>5. InOrder'
  BY <1>1, <1>2, <1>4 DEF Exhausted, InOrder
<1>6. ASSUME NEW g, Tried(g)' PROVE Tried(g)
  BY <1>1, <1>2, <1>4, <1>6 DEF Tried
<1>7. \A g : \A S \in SUBSET Bug : ClosedFor(S, g) => ClosedFor(S, g)'
  BY <1>1, <1>4 DEF ClosedFor
<1>8. Shut'
  BY <1>1, <1>4, <1>6, <1>7 DEF Exhausted, Shut, OwnsNone
<1> QED
  BY <1>3, <1>5, <1>8 DEF Exhausted

\* A chain of calls that ends at a free bug passes no closed set.
LEMMA ChainAvoids ==
  ASSUME IInv, phase = "search", NEW b \in Bug, IsNext(b), gtOwner[b] = None, via' = Append(via, b),
         NEW f, NEW S \in SUBSET Bug, ClosedFor(S, f), NEW i \in 1..Len(via'), via'[i] \in S
  PROVE  FALSE
<1> DEFINE n == Len(via')
           A == {k \in i..n : via'[k] \notin S}
<1>1. /\ via' \in Seq(Bug) /\ n = Len(path) /\ via'[n] = b
      /\ \A k \in 1..Len(via) : via'[k] = via[k]
      /\ <<path[Len(path)], b>> \in DOMAIN cand
  BY LookAt
<1>2. Len(via) \in Nat /\ n = Len(via) + 1
  BY <1>1 DEF IInv, TypeOK, Shape
<1>3. n \in A
  BY <1>1, <1>2 DEF ClosedFor
<1>4. A \in SUBSET Nat
  BY <1>2
<1>5. PICK k \in A : \A l \in A : k <= l
  BY <1>3, <1>4, Least
<1>6. k \in i..n /\ k # i /\ via'[k] \notin S
  OBVIOUS
<1>7. k - 1 \in i..n /\ k - 1 \in 1..Len(via) /\ (k - 1) + 1 = k
  BY <1>2, <1>6
<1>8. via'[k - 1] \in S
  BY <1>2, <1>5, <1>6, <1>7
<1>9. gtOwner[via[k - 1]] = path[k] /\ via[k - 1] \in S
  BY <1>1, <1>2, <1>7, <1>8 DEF IInv, Chain, Asks
<1>10. Adj(path[k]) \subseteq S
  BY <1>9 DEF ClosedFor
<1>11. via'[k] \in Adj(path[k])
  <2>1. CASE k = n
    BY <1>1, <1>2, <2>1 DEF Adj
  <2>2. CASE k # n
    <3>1. k \in 1..Len(via) /\ via'[k] = via[k]
      BY <1>1, <1>2, <1>6, <2>2
    <3>2. via[k] \in Bug
      BY <3>1 DEF IInv, TypeOK
    <3> QED
      BY <3>1, <3>2 DEF IInv, Chain, Wants, Adj
  <2> QED
    BY <2>1, <2>2
<1> QED
  BY <1>6, <1>10, <1>11

LEMMA VisitFreeExhausts == ASSUME IInv, Exhausted, NEW b \in Bug, VisitFree(b) PROVE Exhausted'
<1>1. /\ phase = "search" /\ IsNext(b) /\ phase' = "take" /\ via' = Append(via, b) /\ gtOwner[b] = None
      /\ UNCHANGED <<cand, todo, path, gtOwner>>
  BY DEF VisitFree
<1>2. \A g, h : Sooner(g, h)' = Sooner(g, h) /\ Adj(g)' = Adj(g)
  BY <1>1 DEF Sooner, Adj, Best, Ahead
<1>3. Searched' /\ InOrder'
  BY <1>1, <1>2 DEF Exhausted, Searched, InOrder
<1>4. ASSUME NEW f, NEW S \in SUBSET Bug, ClosedFor(S, f) PROVE ClosedFor(S, f)'
  <2>1. \A i \in 1..Len(via') : via'[i] \notin S
    BY <1>1, <1>4, ChainAvoids
  <2> QED
    BY <1>1, <1>2, <1>4, <2>1 DEF ClosedFor
<1>5. Shut'
  BY <1>1, <1>2, <1>4 DEF Exhausted, Shut, Tried, OwnsNone
<1> QED
  BY <1>3, <1>5 DEF Exhausted

LEMMA VisitHeldExhausts == ASSUME IInv, Exhausted, NEW b \in Bug, VisitHeld(b) PROVE Exhausted'
<1>1. /\ phase = "search" /\ IsNext(b) /\ phase' = phase /\ seen' = seen \cup {b} /\ gtOwner[b] # None
      /\ via' = Append(via, b) /\ path' = Append(path, gtOwner[b])
      /\ UNCHANGED <<cand, todo, gtOwner>>
  BY DEF VisitHeld
<1>2. path # <<>> /\ path \in Seq(Finding) /\ gtOwner[b] \in Finding /\ via \in Seq(Bug)
  BY <1>1 DEF IInv, TypeOK, Shape
<1>3. path' # <<>> /\ path'[1] = path[1]
  BY <1>1, <1>2
<1>4. \A g, h : Sooner(g, h)' = Sooner(g, h) /\ Adj(g)' = Adj(g)
  BY <1>1 DEF Sooner, Adj, Best, Ahead
<1>5. InOrder'
  BY <1>1, <1>2, <1>3, <1>4 DEF Exhausted, InOrder
<1>6. Searched'
  <2>1. Len(via') = Len(via) + 1 /\ via'[Len(via) + 1] = b /\ \A i \in 1..Len(via) : via'[i] = via[i]
    BY <1>1, <1>2, AppendIs
  <2>2. Len(via) \in Nat
    BY <1>2
  <2>3. \E i \in 1..Len(via') : via'[i] = b
    BY <2>1, <2>2
  <2>4. ASSUME NEW c \in seen, \E i \in 1..Len(via) : via[i] = c PROVE \E i \in 1..Len(via') : via'[i] = c
    BY <2>1, <2>2, <2>4
  <2> QED
    BY <1>1, <1>4, <2>3, <2>4 DEF Exhausted, Searched
<1>7. \A g : \A S \in SUBSET Bug : ClosedFor(S, g) => ClosedFor(S, g)'
  BY <1>1, <1>4 DEF ClosedFor
<1>8. \A g : Tried(g)' => Tried(g)
  BY <1>1, <1>2, <1>3, <1>4 DEF Tried
<1>9. Shut'
  BY <1>1, <1>4, <1>7, <1>8 DEF Exhausted, Shut, OwnsNone
<1> QED
  BY <1>5, <1>6, <1>9 DEF Exhausted

LEMMA DeadEndExhausts == ASSUME IInv, Exhausted, DeadEnd PROVE Exhausted'
<1>1. /\ phase = "search" /\ Unseen = {} /\ path' = Cut(path)
      /\ via' = (IF Len(path) = 1 THEN via ELSE Cut(via))
      /\ phase' = IF Len(path) = 1 THEN "next" ELSE "search"
      /\ UNCHANGED <<cand, todo, seen, gtOwner>>
  BY DEF DeadEnd
<1>2. /\ path \in Seq(Finding) /\ via \in Seq(Bug) /\ Len(path) = Len(via) + 1 /\ Len(via) \in Nat
      /\ path # <<>> /\ seen \in SUBSET Bug
  BY <1>1 DEF IInv, TypeOK, Shape
<1>3. \A g, h : Sooner(g, h)' = Sooner(g, h) /\ Adj(g)' = Adj(g)
  BY <1>1 DEF Sooner, Adj, Best, Ahead
<1>4. \A g : \A S \in SUBSET Bug : ClosedFor(S, g) => ClosedFor(S, g)'
  BY <1>1, <1>3 DEF ClosedFor
<1>5. CASE Len(path) = 1
  <2>1. path' = <<>> /\ phase' = "next"
    BY <1>1, <1>2, <1>5, CutIs, EmptySeq
  <2>2. InOrder' /\ Searched'
    BY <1>1, <1>3, <2>1 DEF Exhausted, InOrder, Searched
  <2>3. Adj(path[1]) \subseteq seen
    BY <1>1, <1>5 DEF Unseen, Here
  <2>4. ASSUME NEW b \in seen
        PROVE  gtOwner[b] # None /\ Adj(gtOwner[b]) \subseteq seen /\ Sooner(gtOwner[b], path[1])
    <3>1. gtOwner[b] # None /\ Adj(gtOwner[b]) \subseteq seen
      BY <1>1, <1>2, <1>5 DEF Exhausted, Searched
    <3>2. gtOwner[b] \in Finding /\ b \in Adj(gtOwner[b])
      BY <1>2, <3>1 DEF IInv, TypeOK, Ownership, Admissible, Adj
    <3>3. gtOwner[b] \notin todo /\ gtOwner[b] # path[1]
      BY <1>2 DEF IInv, Untried, Root
    <3> QED
      BY <1>2, <3>1, <3>2, <3>3 DEF Exhausted, InOrder
  <2>5. ASSUME NEW f, f = path[1], NEW S, S = seen PROVE ClosedFor(S, f)'
    BY <1>1, <1>2, <1>3, <2>1, <2>4, <2>5 DEF ClosedFor
  <2>6. ASSUME NEW g, Tried(g)', OwnsNone(g)'
        PROVE  \E S \in SUBSET Bug : Adj(g)' \subseteq S /\ ClosedFor(S, g)'
    <3>1. CASE g = path[1]
      <4>1. PICK S \in SUBSET Bug : S = seen
        BY <1>2
      <4>2. ClosedFor(S, g)' /\ Adj(g)' \subseteq S
        BY <1>3, <2>3, <2>5, <3>1, <4>1
      <4> QED
        BY <4>2
    <3>2. CASE g # path[1]
      <4>1. Tried(g) /\ OwnsNone(g)
        BY <1>1, <1>3, <2>6, <3>2 DEF Tried, OwnsNone
      <4> QED
        BY <1>3, <1>4, <4>1 DEF Exhausted, Shut
    <3> QED
      BY <3>1, <3>2
  <2> QED
    BY <2>2, <2>6 DEF Exhausted, Shut
<1>6. CASE Len(path) # 1
  <2>1. /\ Cut(path) \in Seq(Finding) /\ Len(Cut(path)) = Len(path) - 1
        /\ \A i \in 1..Len(path) - 1 : Cut(path)[i] = path[i]
    BY <1>2, CutIs
  <2>2. path' # <<>> /\ path'[1] = path[1]
    BY <1>1, <1>2, <1>6, <2>1
  <2>3. InOrder'
    BY <1>1, <1>2, <1>3, <2>2 DEF Exhausted, InOrder
  <2>4. /\ via' \in Seq(Bug) /\ Len(via') = Len(via) - 1 /\ Len(via) # 0
        /\ \A i \in 1..Len(via) - 1 : via'[i] = via[i]
    BY <1>1, <1>2, <1>6, CutIs
  <2>5. ASSUME NEW b \in seen
        PROVE  gtOwner[b] # None
               /\ ((\E i \in 1..Len(via') : via'[i] = b) \/ Adj(gtOwner[b]) \subseteq seen)
    <3>1. gtOwner[b] # None /\ ((\E i \in 1..Len(via) : via[i] = b) \/ Adj(gtOwner[b]) \subseteq seen)
      BY <1>1 DEF Exhausted, Searched
    <3>2. CASE via[Len(via)] = b
      <4>1. gtOwner[b] = Here
        BY <1>2, <2>4, <3>2 DEF IInv, Chain, Asks, Here
      <4> QED
        BY <1>1, <3>1, <4>1 DEF Unseen
    <3>3. ASSUME NEW i \in 1..Len(via), via[i] = b, i # Len(via)
          PROVE  \E k \in 1..Len(via') : via'[k] = b
      <4>1. i \in 1..Len(via) - 1 /\ i \in 1..Len(via')
        BY <1>2, <2>4, <3>3
      <4> QED
        BY <2>4, <3>3, <4>1
    <3> QED
      BY <3>1, <3>2, <3>3
  <2>6. Searched'
    BY <1>1, <1>3, <2>5 DEF Searched
  <2>7. \A g : Tried(g)' => Tried(g)
    BY <1>1, <1>2, <1>3, <2>2 DEF Tried
  <2>8. Shut'
    BY <1>1, <1>3, <1>4, <2>7 DEF Exhausted, Shut, OwnsNone
  <2> QED
    BY <2>3, <2>6, <2>8 DEF Exhausted
<1> QED
  BY <1>5, <1>6

LEMMA TakeExhausts == ASSUME IInv, Coverage, Exhausted, Take PROVE Exhausted'
<1> DEFINE n == Len(path)
           v == via[Len(via)]
<1>1. /\ phase = "take" /\ n \in Nat \ {0} /\ Len(via) = n /\ Here \in Finding /\ v \in Bug
      /\ gtOwner' = [gtOwner EXCEPT ![v] = Here]
      /\ phase' = (IF n = 1 THEN "next" ELSE "take")
      /\ path' \in Seq(Finding) /\ via' \in Seq(Bug) /\ Len(path') = n - 1 /\ Len(via') = n - 1
      /\ UNCHANGED <<cand, todo>>
  BY Taking DEF Take
<1>2. \A i \in 1..n - 1 : path'[i] = path[i] /\ via'[i] = via[i]
  BY Taking
<1>3. gtOwner \in [Bug -> Finding \cup {None}]
  BY DEF IInv, TypeOK
<1>4. \A g, h : Sooner(g, h)' = Sooner(g, h) /\ Adj(g)' = Adj(g)
  BY <1>1 DEF Sooner, Adj, Best, Ahead
<1>5. path # <<>> /\ (path' # <<>> => n # 1 /\ path'[1] = path[1])
  <2>1. path' # <<>> => n # 1
    BY <1>1
  <2>2. n # 1 => 1 \in 1..n - 1
    BY <1>1
  <2> QED
    BY <1>1, <1>2, <2>1, <2>2
<1>6. InOrder' /\ Searched'
  BY <1>1, <1>4, <1>5 DEF Exhausted, InOrder, Searched
<1>7. ASSUME NEW g, NEW S \in SUBSET Bug, ClosedFor(S, g) PROVE ClosedFor(S, g)'
  <2>1. v \notin S
    BY <1>1, <1>7 DEF ClosedFor
  <2>2. \A b \in S : gtOwner'[b] = gtOwner[b]
    BY <1>1, <1>3, <2>1
  <2>3. phase' = "take" => \A i \in 1..Len(via') : i \in 1..Len(via) /\ via'[i] = via[i]
    BY <1>1, <1>2
  <2> QED
    BY <1>1, <1>4, <1>7, <2>2, <2>3 DEF ClosedFor
<1>8. ASSUME NEW g, Tried(g)', OwnsNone(g)' PROVE Tried(g) /\ OwnsNone(g)
  <2>1. g \in Finding \ todo /\ Adj(g) # {}
    BY <1>1, <1>4, <1>8 DEF Tried
  <2>2. OwnsNone(g)
    BY <1>8, <2>1, WinnersStay
  <2>3. g # path[1]
    <3>1. CASE n = 1
      BY <1>1, <1>3, <1>8, <3>1 DEF OwnsNone, Here
    <3>2. CASE n # 1
      <4>1. path' # <<>>
        BY <1>1, <3>2
      <4> QED
        BY <1>5, <1>8, <4>1 DEF Tried
    <3> QED
      BY <3>1, <3>2
  <2> QED
    BY <2>1, <2>2, <2>3 DEF Tried
<1>9. Shut'
  BY <1>4, <1>7, <1>8 DEF Exhausted, Shut
<1> QED
  BY <1>6, <1>9 DEF Exhausted

LEMMA FinishExhausts == ASSUME IInv, Exhausted, Finish \/ UNCHANGED vars PROVE Exhausted'
<1>1. UNCHANGED <<cand, todo, path, via, seen, gtOwner>> /\ (phase' = "done" \/ phase' = phase)
  BY DEF Finish, vars, search
<1>2. \A g, h : Sooner(g, h)' = Sooner(g, h) /\ Adj(g)' = Adj(g)
  BY <1>1 DEF Sooner, Adj, Best, Ahead
<1>3. InOrder' /\ Searched'
  BY <1>1, <1>2 DEF Exhausted, InOrder, Searched
<1>4. \A g : \A S \in SUBSET Bug : ClosedFor(S, g) => ClosedFor(S, g)'
  BY <1>1, <1>2 DEF ClosedFor
<1>5. Shut'
  BY <1>1, <1>2, <1>4 DEF Exhausted, Shut, Tried, OwnsNone
<1> QED
  BY <1>3, <1>5 DEF Exhausted

LEMMA AlwaysExhausted == Spec => [](IInv /\ Coverage /\ Exhausted)
<1>1. IInv /\ Coverage /\ Exhausted /\ [Next]_vars => Exhausted'
  BY TryExhausts, VisitFreeExhausts, VisitHeldExhausts, DeadEndExhausts, TakeExhausts, FinishExhausts
     DEF Next, Step, Returned
<1> QED
  BY <1>1, InitExhausted, AlwaysCovered, PTL DEF Spec

\* The order of candidatesFor is total, so that some candidate comes first.
IsBest(f, S, b) == b \in S /\ \A c \in S \ {b} : Ahead(f, b, c)

LEMMA AheadIsAnOrder ==
  ASSUME IsCandidateList(cand), NEW f, NEW x \in Adj(f), NEW y \in Adj(f), x # y
  PROVE  /\ Ahead(f, x, y) \/ Ahead(f, y, x)
         /\ \A z \in Adj(f) : Ahead(f, x, y) /\ Ahead(f, y, z) => Ahead(f, x, z)
<1>1. \A z \in Adj(f) : z \in Nat /\ cand[<<f, z>>].score \in Nat /\ cand[<<f, z>>].tier \in Nat
  BY AssignAssumption DEF IsCandidateList, Adj
<1> QED
  BY <1>1 DEF Ahead

LEMMA SomeBest ==
  ASSUME IsCandidateList(cand), NEW f, NEW S \in SUBSET Adj(f), S # {}
  PROVE  IsBest(f, S, Best(f, S))
<1> DEFINE Bad == {T \in SUBSET S : T # {} /\ ~ \E b : IsBest(f, T, b)}
<1>1. IsFiniteSet(S)
  <2>1. S \in SUBSET Bug
    BY DEF Adj
  <2> QED
    BY <2>1, AssignAssumption, FS_Subset
<1>2. Bad = {}
  <2> SUFFICES ASSUME Bad # {} PROVE FALSE
    OBVIOUS
  <2>1. Bad \subseteq FiniteSubsetsOf(S)
    BY <1>1, FS_FiniteSubsetsOfFinite
  <2>2. IsWellFoundedOn(StrictSubsetOrdering(S), FiniteSubsetsOf(S))
    BY FS_StrictSubsetOrderingWellFounded
  <2> HIDE DEF Bad
  <2>3. PICK T \in Bad : \A U \in Bad : <<U, T>> \notin StrictSubsetOrdering(S)
    BY <2>1, <2>2, WFMin
  <2>4. T \in SUBSET S /\ T # {} /\ ~ \E b : IsBest(f, T, b)
    BY DEF Bad
  <2>5. PICK x \in T : TRUE
    BY <2>4
  <2>6. CASE T = {x}
    BY <2>4, <2>6 DEF IsBest
  <2>7. CASE T # {x}
    <3>1. T \ {x} \in SUBSET S /\ T \ {x} # {} /\ T \ {x} # T /\ T \ {x} \subseteq T
      BY <2>4, <2>7
    <3>2. <<T \ {x}, T>> \in StrictSubsetOrdering(S)
      BY <2>4, <3>1 DEF StrictSubsetOrdering
    <3>3. PICK y : IsBest(f, T \ {x}, y)
      BY <2>3, <3>1, <3>2 DEF Bad
    <3>4. y \in T /\ y # x /\ x \in Adj(f) /\ y \in Adj(f) /\ T \subseteq Adj(f)
      BY <2>4, <3>3 DEF IsBest
    <3>5. CASE Ahead(f, y, x)
      BY <2>4, <3>3, <3>4, <3>5 DEF IsBest
    <3>6. CASE Ahead(f, x, y)
      <4>1. ASSUME NEW c \in T \ {x} PROVE Ahead(f, x, c)
        BY <3>3, <3>4, <3>6, <4>1, AheadIsAnOrder DEF IsBest
      <4> QED
        BY <2>4, <4>1 DEF IsBest
    <3> QED
      BY <3>4, <3>5, <3>6, AheadIsAnOrder
  <2> QED
    BY <2>6, <2>7
<1>3. \E b : IsBest(f, S, b)
  BY <1>2
<1>4. \E b \in S : \A c \in S \ {b} : Ahead(f, b, c)
  BY <1>3 DEF IsBest
<1> QED
  BY <1>4 DEF Best, IsBest

\* Who is tried sooner has the stronger candidate, or as strong a one and came first.
LEMMA SoonerIsStronger ==
  ASSUME IsCandidateList(cand), NEW g \in Finding, NEW f \in Finding, Adj(g) # {}, Adj(f) # {},
         Sooner(g, f)
  PROVE  Stronger(g, f) \/ (g < f /\ ~Stronger(f, g))
<1> DEFINE x == Best(g, Adj(g))
           y == Best(f, Adj(f))
<1>1. IsBest(g, Adj(g), x) /\ IsBest(f, Adj(f), y)
  BY SomeBest
<1>2. x \in Adj(g) /\ y \in Adj(f)
  BY <1>1 DEF IsBest
<1>3. /\ \A b \in Adj(g) : cand[<<g, b>>].score \in Nat
      /\ \A b \in Adj(f) : cand[<<f, b>>].score \in Nat
  BY DEF IsCandidateList, Adj
<1>4. /\ \A b \in Adj(g) : cand[<<g, b>>].score <= cand[<<g, x>>].score
      /\ \A b \in Adj(f) : cand[<<f, b>>].score <= cand[<<f, y>>].score
  BY <1>1, <1>2, <1>3 DEF IsBest, Ahead
<1>5. cand[<<g, x>>].score > cand[<<f, y>>].score \/ (cand[<<g, x>>].score = cand[<<f, y>>].score /\ g < f)
  BY DEF Sooner
<1> HIDE DEF x, y
<1>6. CASE cand[<<g, x>>].score > cand[<<f, y>>].score
  <2>1. ASSUME NEW c \in Adj(f) PROVE cand[<<g, x>>].score > cand[<<f, c>>].score
    <3>1. /\ cand[<<g, x>>].score \in Nat /\ cand[<<f, y>>].score \in Nat /\ cand[<<f, c>>].score \in Nat
          /\ cand[<<f, c>>].score <= cand[<<f, y>>].score
      BY <1>2, <1>3, <1>4
    <3> QED
      BY <1>6, <3>1
  <2> QED
    BY <1>2, <2>1 DEF Stronger
<1>7. CASE cand[<<g, x>>].score = cand[<<f, y>>].score /\ g < f
  <2>1. ASSUME NEW b \in Adj(f) PROVE ~(cand[<<f, b>>].score > cand[<<g, x>>].score)
    BY <1>2, <1>3, <1>4, <1>7, <2>1
  <2>2. ~Stronger(f, g)
    BY <1>2, <2>1 DEF Stronger
  <2> QED
    BY <1>7, <2>2
<1> QED
  BY <1>5, <1>6, <1>7

-----------------------------------------------------------------------------
(* Counting at the end. *)

\* One finding per bug: the holders of a set of bugs are as many as the bugs.
LEMMA HoldersMany ==
  ASSUME IInv, phase = "done", NEW S \in SUBSET Bug, \A b \in S : gtOwner[b] # None
  PROVE  LET H == {gtOwner[b] : b \in S}
         IN  /\ IsFiniteSet(S) /\ IsFiniteSet(H) /\ Cardinality(S) \in Nat
             /\ Cardinality(S) <= Cardinality(H)
             /\ H \subseteq DOMAIN byFinding
<1> DEFINE H == {gtOwner[b] : b \in S}
           h == [b \in S |-> gtOwner[b]]
<1>1. H \subseteq DOMAIN byFinding
  BY DEF IInv, Reported
<1>2. H \in SUBSET Finding
  BY DEF IInv, TypeOK
<1>3. IsFiniteSet(H) /\ IsFiniteSet(S)
  BY <1>2, AssignAssumption, FS_Subset
<1>4. h \in Injection(S, H)
  <2>1. \A b, c \in S : gtOwner[b] = gtOwner[c] => b = c
    BY OwnersDiffer
  <2> QED
    BY <2>1 DEF Injection, IsInjective
<1>5. Cardinality(S) <= Cardinality(H)
  BY <1>3, <1>4, FS_Injection
<1> QED
  BY <1>1, <1>3, <1>5, FS_CardinalityType

\* A one-to-one assignment credits no more findings with bugs of S than S has.
LEMMA CreditedWithin ==
  ASSUME NEW m \in Matchings, NEW S \in SUBSET Bug, NEW A \in SUBSET Matched(m), \A f \in A : m[f] \in S
  PROVE  IsFiniteSet(A) /\ Cardinality(A) \in Nat /\ Cardinality(A) <= Cardinality(S)
<1> DEFINE g == [f \in A |-> m[f]]
<1>1. g \in Injection(A, S)
  BY DEF Matchings, Matched, Injection, IsInjective
<1>2. IsFiniteSet(S)
  BY AssignAssumption, FS_Subset
<1> QED
  BY <1>1, <1>2, FS_Injection, FS_CardinalityType

\* Whoever is left with nothing at the end met a closed set.
LEMMA LoserIsShut ==
  ASSUME IInv, Coverage, Exhausted, phase = "done", NEW f \in Finding \ DOMAIN byFinding, Adj(f) # {}
  PROVE  \E S \in SUBSET Bug : Adj(f) \subseteq S /\ ClosedFor(S, f)
<1>1. todo = {} /\ path = <<>>
  BY DEF Coverage, AtTheEnd, IInv, Shape
<1>2. OwnsNone(f)
  BY NoneIsNobody DEF IInv, Reported, OwnsNone
<1> QED
  BY <1>1, <1>2 DEF Exhausted, Shut, Tried

\* No one-to-one assignment of findings to their candidates credits more bugs.
THEOREM NoneCreditsMore == Spec => []MostBugs
<1>1. IInv /\ Coverage /\ Exhausted => MostBugs
  <2> SUFFICES ASSUME IInv, Coverage, Exhausted, phase = "done", NEW m \in Matchings
               PROVE  Cardinality(Matched(m)) <= Cardinality(DOMAIN byFinding)
    BY DEF MostBugs
  <2> DEFINE W == DOMAIN byFinding
             M == Matched(m)
             U == UNION {S \in SUBSET Bug : \E f : ClosedFor(S, f)}
             H == {gtOwner[b] : b \in U}
             A == {f \in M : m[f] \in U}
             B == M \ A
  <2>1. /\ U \in SUBSET Bug
        /\ \A b \in U : gtOwner[b] # None /\ Adj(gtOwner[b]) \subseteq U
    BY DEF ClosedFor
  <2>2. \A f \in Finding \ W : Adj(f) # {} => Adj(f) \subseteq U
    BY LoserIsShut
  <2>3. /\ \A f \in M : f \in Finding /\ m[f] \in Adj(f) /\ m[f] \in Bug
        /\ M \subseteq Finding /\ W \subseteq Finding
    <3>1. W \subseteq Finding
      BY DEF IInv, Reported, TypeOK
    <3> QED
      BY <3>1 DEF Matchings, Matched, Adj
  <2> HIDE DEF U, W, M
  <2>4. /\ IsFiniteSet(U) /\ IsFiniteSet(H) /\ Cardinality(U) \in Nat
        /\ Cardinality(U) <= Cardinality(H) /\ H \subseteq W
    BY <2>1, HoldersMany DEF W
  <2>5. Cardinality(A) <= Cardinality(U) /\ IsFiniteSet(A) /\ Cardinality(A) \in Nat
    BY <2>1, CreditedWithin DEF M
  <2>6. B \subseteq W \ H
    BY <2>1, <2>2, <2>3
  <2>7. IsFiniteSet(W) /\ IsFiniteSet(M)
    BY <2>3, AssignAssumption, FS_Subset
  <2>8. /\ IsFiniteSet(W \ H) /\ Cardinality(W \ H) = Cardinality(W) - Cardinality(H)
    <3>1. W \cap H = H
      BY <2>4
    <3> QED
      BY <2>7, <3>1, FS_Difference
  <2>9. IsFiniteSet(B) /\ Cardinality(B) <= Cardinality(W \ H)
    BY <2>6, <2>8, FS_Subset
  <2>10. Cardinality(B) = Cardinality(M) - Cardinality(A)
    <3>1. M \cap A = A
      OBVIOUS
    <3> QED
      BY <2>7, <3>1, FS_Difference
  <2>11. /\ Cardinality(M) \in Nat /\ Cardinality(W) \in Nat /\ Cardinality(H) \in Nat
         /\ Cardinality(B) \in Nat
    BY <2>4, <2>7, <2>9, FS_CardinalityType
  <2> HIDE DEF A, B, H
  <2>12. Cardinality(M) <= Cardinality(W)
    BY <2>4, <2>5, <2>8, <2>9, <2>10, <2>11
  <2> QED
    BY <2>12 DEF M, W
<1> QED
  BY <1>1, AlwaysExhausted, PTL

\* A finding left with nothing could not have been credited next to the credited ones
\* that are stronger, or as strong and earlier in the report.
THEOREM StrongestFirst == Spec => []StrongestWin
<1>1. IInv /\ Coverage /\ Exhausted => StrongestWin
  <2> SUFFICES ASSUME IInv, Coverage, Exhausted, phase = "done",
                      NEW f \in Finding \ DOMAIN byFinding, Adj(f) # {}, NEW m \in Matchings,
                      {g \in DOMAIN byFinding : Stronger(g, f) \/ (g < f /\ ~Stronger(f, g))} \cup {f}
                        \subseteq Matched(m)
               PROVE  FALSE
    BY DEF StrongestWin
  <2>1. PICK S \in SUBSET Bug : Adj(f) \subseteq S /\ ClosedFor(S, f)
    BY LoserIsShut
  <2> DEFINE H == {gtOwner[b] : b \in S}
  <2>2. \A b \in S : gtOwner[b] # None /\ Adj(gtOwner[b]) \subseteq S /\ Sooner(gtOwner[b], f)
    BY <2>1 DEF ClosedFor
  <2>3. /\ IsFiniteSet(S) /\ IsFiniteSet(H) /\ Cardinality(S) \in Nat
        /\ Cardinality(S) <= Cardinality(H) /\ H \subseteq DOMAIN byFinding
    BY <2>2, HoldersMany
  <2>4. ASSUME NEW b \in S PROVE gtOwner[b] \in Finding /\ Adj(gtOwner[b]) # {}
    BY <2>2, <2>4 DEF IInv, TypeOK, Ownership, Admissible, Adj
  <2>5. ASSUME NEW g \in H PROVE Stronger(g, f) \/ (g < f /\ ~Stronger(f, g))
    BY <2>2, <2>4, <2>5, SoonerIsStronger DEF IInv, TypeOK
  <2>6. H \cup {f} \in SUBSET Matched(m) /\ f \notin H
    BY <2>3, <2>5
  <2>7. ASSUME NEW g \in H \cup {f} PROVE m[g] \in S
    <3>1. m[g] \in Adj(g)
      BY <2>6 DEF Matchings, Matched, Adj
    <3> QED
      BY <2>1, <2>2, <3>1
  <2>8. Cardinality(H \cup {f}) <= Cardinality(S) /\ Cardinality(H \cup {f}) \in Nat
    BY <2>6, <2>7, CreditedWithin
  <2>9. Cardinality(H \cup {f}) = Cardinality(H) + 1 /\ Cardinality(H) \in Nat
    BY <2>3, <2>6, FS_AddElement, FS_CardinalityType
  <2> HIDE DEF H
  <2> QED
    BY <2>3, <2>8, <2>9
<1> QED
  BY <1>1, AlwaysExhausted, PTL
=============================================================================
