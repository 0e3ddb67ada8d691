----------------------------- MODULE MCPortPlan -----------------------------
(* Instances of PortPlan: two apps, "x" with a sidecar and "y" without, on *)
(* app ports 1 and 2, sidecar ports 3 and 4, and a pool from port 5 up;    *)
(* a third, "z", is past the slot range and has no standalone image.       *)
EXTENDS PortPlan

XY  == <<"x", "y">>
XXZ == <<"x", "x", "z">>

MCIndex == [a \in App |-> IF a = "y" THEN 1 ELSE IF a = "z" THEN 2 ELSE 0]
MCDecls == [a \in App |-> IF a = "x" THEN 2 ELSE 1]

Relocated == IF PORT_FALLBACK_SPAN < 3 THEN 5 ELSE 6

\* What a stack of app x may publish when the command starts: nothing, its home
\* ports, or its app port relocated into the pool.
XMayPublish == {{}, {<<1, 1>>, <<2, 3>>}, {<<1, Relocated>>, <<2, 3>>}}
YMayPublish == {{}, {<<1, 2>>}}
\* `make up` publishes the compose default, which is port 1 whatever the app.
YTwinMayPublish == {{}, {<<1, 1>>}}

Placed(xs, xt, ys, yt) ==
  [s \in Stacks |-> CASE s = <<"x", "self">> -> xs [] s = <<"x", "twin">> -> xt
                      [] s = <<"y", "self">> -> ys [] s = <<"y", "twin">> -> yt
                      [] OTHER -> {}]
Compatible(S, T) == PortsOf(S) \cap PortsOf(T) = {}

\* Any placement in which no port is published twice.
AnyPlacement ==
  {Placed(t[1], t[2], t[3], t[4]) : t \in
     {u \in XMayPublish \X XMayPublish \X YMayPublish \X YTwinMayPublish :
        /\ Compatible(u[1], u[2]) /\ Compatible(u[1], u[4]) /\ Compatible(u[2], u[4])}}
=============================================================================
