------------------------------ MODULE MCTraffic ------------------------------
(* Traffic with one machine that has two tunnels.                            *)
EXTENDS Traffic

CONSTANTS t1, t2, c1

MCTunnels == {t1, t2}
MCOwner == [t \in MCTunnels |-> c1]
=============================================================================
