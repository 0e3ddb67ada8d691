------------------------------ MODULE MCScore -------------------------------
(* Instances of Score.  Weights are in quarters of the code's (match.ts,      *)
(* weigh), an exact CWE included in a claim's score.                          *)
EXTENDS Score, TLC

Two == {0, 1}       \* all the inputs but the last have two findings and two bugs

Some(S, kinds) == UNION {[D -> kinds] : D \in SUBSET S}

RouteClaim  == [score |-> 28, tier |-> 5, spec |-> 20]
SymbolClaim == [score |-> 27, tier |-> 4, spec |-> 18]
LineClaim   == [score |-> 27, tier |-> 4, spec |-> 16]   \* within the tolerance only
WeakClaim   == [score |-> 10, tier |-> 1, spec |-> 0]
ProofClaim  == [score |-> 36, tier |-> 6, spec |-> 28]

NearParam  == [is |-> [score |-> 22, tier |-> 5, spec |-> 22], specific |-> TRUE]
NearLine   == [is |-> [score |-> 19, tier |-> 4, spec |-> 20], specific |-> TRUE]
NearSymbol == [is |-> [score |-> 19, tier |-> 4, spec |-> 18], specific |-> TRUE]
NearFile   == [is |-> [score |-> 14, tier |-> 4, spec |-> 12], specific |-> FALSE]

\* A finding that names nothing earns no CWE credit.
Unnamed(m, v) == [d \in DOMAIN m |-> IF d[1] \in v THEN [m[d] EXCEPT !.score = @ - 8] ELSE m[d]]
Nameable(b, v) == \A d \in DOMAIN b : d[1] \in v => b[d].tier # WEAK

Reports(bugs, nears, incs, vagues, ports) ==
  {[bug |-> Unnamed(x[1], x[4]), near |-> x[2], inc |-> Unnamed(x[3], x[4]), vague |-> x[4],
    ports |-> ports] :
     x \in {y \in bugs \X nears \X incs \X vagues : Nameable(y[1], y[4])}}

\* Two findings on the vulnerable twin compete for two bugs, next to two near-misses:
\* a symbol and a line score the same, the line pins more.
Competing ==
  Reports({[d \in DOMAIN b \cup DOMAIN c |-> IF d \in DOMAIN b THEN b[d] ELSE c[d]] :
             b \in Some({0} \X Two, {RouteClaim, SymbolClaim, WeakClaim}),
             c \in Some({1} \X Two, {RouteClaim, LineClaim})},
          {n @@ m : n \in Some({0} \X NearMiss, {NearLine, NearSymbol, NearFile}), m \in Some({<<1, 0>>}, {NearParam})},
          Some({0} \X Incidental, {RouteClaim}), {{}, {0}}, {})

\* One of them faces a finding on the patched twin, which may be anything.
Patched ==
  Reports(Some({<<0, 0>>} \cup SafeFinding \X Two, {RouteClaim, SymbolClaim}),
          Some(SafeFinding \X {0}, {NearLine, NearSymbol, NearFile}),
          Some(SafeFinding \X Incidental, {RouteClaim, LineClaim}), {{}, SafeFinding, Two \cup SafeFinding}, {})

\* A port reported as closed lines up with a marker or with nothing.
Closed ==
  Reports(Some((Two \cup SafeFinding) \X Two, {ProofClaim}), {<<>>}, {<<>>}, {{}, AllFindings}, AllFindings)

\* Three findings and three bugs, any pairs: two strengths; then one strength and two
\* tiers, which only break ties.
SourceClaim == [RouteClaim EXCEPT !.tier = 4]
ThreeByThree ==
  [bug : Some(Finding \X Bug, {RouteClaim, LineClaim}) \cup Some(Finding \X Bug, {RouteClaim, SourceClaim}),
   near : {<<>>}, inc : {<<>>}, vague : {{}}, ports : {{}}]

MCScorings == Competing \cup Patched \cup Closed \cup ThreeByThree

\* Every list assign() may be given.
Plain(k) == [score |-> k.score, tier |-> k.tier]
Lists ==
  Some(Two \X Two, {Plain(k) : k \in {RouteClaim, SymbolClaim, WeakClaim, ProofClaim,
                                     [SymbolClaim EXCEPT !.score = @ - 8], [ProofClaim EXCEPT !.score = @ - 8]}})
  \cup Some(Finding \X Bug, {Plain(RouteClaim), Plain(LineClaim)})
  \cup Some(Finding \X Bug, {Plain(RouteClaim), Plain(SourceClaim)})
=============================================================================
