---------------------------- MODULE TrafficLedger ----------------------------
(***************************************************************************)
(* What traffic accounting promises: every byte carried through a tunnel   *)
(* is accounted for at most once, and what has been accounted for is never *)
(* taken back.  "Accounted for" is persisted in the database or given up   *)
(* in a crash.                                                             *)
(***************************************************************************)
EXTENDS Naturals

CONSTANTS Tunnels, Dirs

VARIABLES
    carried,    \* bytes that went through each tunnel, per direction
    accounted   \* of these, the bytes accounted for

Counts == [Tunnels -> [Dirs -> Nat]]
Zero == [t \in Tunnels |-> [d \in Dirs |-> 0]]

Init == carried = Zero /\ accounted = Zero

Carry(t, d) ==
    /\ carried' = [carried EXCEPT ![t][d] = @ + 1]
    /\ UNCHANGED accounted

Account ==
    /\ accounted' \in Counts
    /\ \A t \in Tunnels, d \in Dirs :
           accounted[t][d] <= accounted'[t][d] /\ accounted'[t][d] <= carried[t][d]
    /\ UNCHANGED carried

Next == (\E t \in Tunnels, d \in Dirs : Carry(t, d)) \/ Account

Spec == Init /\ [][Next]_<<carried, accounted>>
=============================================================================
