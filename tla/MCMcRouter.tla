---------------------------- MODULE MCMcRouter ----------------------------
(* Instances of McRouter: every edge of the four numbers, one at a time.    *)
EXTENDS McRouter

Host == <<97, Dot, 98>>           \* "a.b"
Other == <<99>>                   \* "c"

Plain == [host |-> Host, upper |-> FALSE, dot |-> FALSE, forge |-> FALSE,
          length |-> 16, id |-> 0, version |-> 763, addrLen |-> 0]

MCHandshakes ==
    {[Plain EXCEPT !.upper = u, !.dot = d, !.forge = f, !.host = h] :
        u \in BOOLEAN, d \in BOOLEAN, f \in BOOLEAN, h \in {Host, Other, <<>>}}
    \cup {[Plain EXCEPT !.version = v] : v \in {-2147483647 - 1, -1, 0, 127, 128, 2147483647}}
    \cup {[Plain EXCEPT !.length = n] : n \in {-1, 0, 1, 2048, 2049}}
    \cup {[Plain EXCEPT !.id = n] : n \in {1, 128}}
    \cup {[Plain EXCEPT !.addrLen = n] : n \in {-1, 255, 256}}

\* The legacy ping, a VarInt of six bytes, and an address of the final dot only.
MCGarbage == {<<254, 1>>, <<16, 0, 255, 255, 255, 255, 255, 15, 1, 97>>, <<5, 0, 0, 1, Dot>>}

\* Two have no host name.
MCTunnelRows == {[hostname |-> Host, protocol |-> "tcp"], [hostname |-> Other, protocol |-> "udp"],
                 [hostname |-> <<>>, protocol |-> "tcp"], [hostname |-> <<>>, protocol |-> "udp"]}
=============================================================================
