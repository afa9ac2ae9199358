----------------------------- MODULE MCListeners -----------------------------
(* Listeners with four tunnels: t1 and t2 use one port after the other (one  *)
(* is deleted before the other is created), t3 is hostname-routed only, t4   *)
(* was stored with the Minecraft router's port.                              *)
EXTENDS Listeners

CONSTANTS t1, t2, t3, t4

MCTunnels == {t1, t2, t3, t4}
MCPublicPort == [t \in MCTunnels |-> CASE t = t3 -> 0 [] t = t4 -> RouterPort [] OTHER -> 1]
=============================================================================
