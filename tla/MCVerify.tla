------------------------------ MODULE MCVerify ------------------------------
(* Instances of Verify: two PoCs; the command lines that differ in what     *)
(* they start, judge and take down.                                         *)
EXTENDS Verify

Line(cmd, mode, keep, takeover, target, expect) ==
  [cmd |-> cmd, mode |-> mode, keep |-> keep, keepFailed |-> FALSE, takeover |-> takeover,
   volumes |-> FALSE, variant |-> "vuln", target |-> target, expect |-> expect]

Validates == {Line("validate", "compose", FALSE, t, NoTarget, NoTarget) : t \in BOOLEAN}
Lines ==
  Validates
  \cup {Line("verify", m, FALSE, TRUE, NoTarget, e) : m \in {"compose", "solo"}, e \in {NoTarget, "safe"}}
  \cup {Line("run", m, FALSE, TRUE, NoTarget, NoTarget) : m \in {"compose", "solo"}}
  \cup {Line("make", "solo", FALSE, FALSE, NoTarget, NoTarget)}
  \cup {Line(c, "compose", FALSE, FALSE, NoTarget, NoTarget) : c \in {"reset", "restart"}}
\* The kept ones.
KeptLines == {[l EXCEPT !.keep = TRUE, !.keepFailed = TRUE] : l \in {m \in Lines : m.cmd \in {"validate", "run"}}}
AllLines == Lines \cup KeptLines

\* PoC 1 works on either twin or not; PoC 2 is as it should be.
FirstUnknown == {[v \in Variant |-> (IF v \in S THEN {1} ELSE {}) \cup (IF v = "vuln" THEN {2} ELSE {})] :
                   S \in SUBSET Variant}
=============================================================================
