----------------------------- MODULE PortLease ------------------------------
(* What port planning promises, with the planning left out: a host port    *)
(* is leased to at most one stack at a time, a lease is granted only while *)
(* no other stack has the port, and a stack gives up only its own leases.  *)
CONSTANTS Tenant,     \* the stacks
          Port        \* the host ports

VARIABLE leases      \* a set of <<tenant, port>>

Init == /\ leases \in SUBSET (Tenant \X Port)
        /\ \A l, m \in leases : l[2] = m[2] => l = m

Grant(t, p) ==
  /\ \A u \in Tenant \ {t} : <<u, p>> \notin leases
  /\ leases' = leases \cup {<<t, p>>}

Vacate(t) ==
  \E S \in SUBSET {l \in leases : l[1] = t} : leases' = leases \ S

Next == \E t \in Tenant : Vacate(t) \/ \E p \in Port : Grant(t, p)

Spec == Init /\ [][Next]_leases

\* No port has two tenants.
OneTenant == \A l, m \in leases : l[2] = m[2] => l = m
=============================================================================
