------------------------------ MODULE MCStress ------------------------------
(* Instances of Stress: samples that are idle, busy, and of a growing heap. *)
EXTENDS Stress

MCLoads == {[cpu |-> 5, rss |-> 100], [cpu |-> 130, rss |-> 100], [cpu |-> 5, rss |-> 120]}
=============================================================================
