-------------------------- MODULE MCSessionRouting ---------------------------
(* Instances of SessionRouting for TLC: the bounds of each run.            *)
EXTENDS SessionRouting

Bounds(f, t, i, o, c, k, r) ==
    [fault |-> f, transfer |-> t, login |-> i, logout |-> o, cancel |-> c, kick |-> k,
     refuse |-> r]

Moving  == Bounds(2, 1, 2, 0, 1, 1, 0)
Leaving == Bounds(1, 1, 2, 1, 0, 0, 1)
Routing == Bounds(1, 0, 0, 0, 0, 0, 0)
=============================================================================
