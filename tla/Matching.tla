------------------------------ MODULE Matching ------------------------------
(* What an assignment of findings to bugs promises, with the search left   *)
(* out: nobody holds two bugs, and credit only ever grows, by one bug and  *)
(* one finding at a time, never at the expense of a finding that had some. *)
CONSTANTS Finding, Bug, None

VARIABLE owner       \* [Bug -> the finding that holds it, or None]

Held(o)    == {b \in Bug : o[b] # None}
Winners(o) == {o[b] : b \in Held(o)}
OneToOne(o) == \A b, c \in Held(o) : o[b] = o[c] => b = c

Init == owner = [b \in Bug |-> None]

\* One more bug is held by one more finding; the others may be shuffled.
Augment ==
  /\ owner' \in [Bug -> Finding \cup {None}]
  /\ OneToOne(owner')
  /\ \E b \in Bug \ Held(owner) : Held(owner') = Held(owner) \cup {b}
  /\ \E f \in Finding \ Winners(owner) : Winners(owner') = Winners(owner) \cup {f}

Spec == Init /\ [][Augment]_owner
=============================================================================
