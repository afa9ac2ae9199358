------------------------------- MODULE Traffic -------------------------------
(***************************************************************************)
(* Traffic accounting and traffic limits: the live byte counters and the   *)
(* flush loop of internal/tunnel/server.go, AddTunnelTraffic of            *)
(* internal/db/db.go, and the totals the live feed of internal/api shows.  *)
(*                                                                         *)
(* A byte stands for the unit of traffic.  A tunnel ID is a UUID and is    *)
(* never used again once its row is gone.                                  *)
(***************************************************************************)
EXTENDS Integers, FiniteSetsExt

CONSTANTS
    Tunnels,
    Clients,
    Owner,        \* the client of each tunnel
    Limits,       \* traffic limits the administrator may set
    NoLimit,      \* NULL
    MaxBytes,     \* bound: bytes carried in all
    MaxEdits,     \* bound: administrator's changes
    MaxRestarts   \* bound: restarts of the server

ASSUME TrafficAssumption ==
    /\ Owner \in [Tunnels -> Clients]
    /\ Limits \subseteq Nat \ {0}
    /\ NoLimit \notin Nat
    /\ MaxBytes \in Nat /\ MaxEdits \in Nat /\ MaxRestarts \in Nat

Dirs == {"in", "out"}

VARIABLES
    rows,         \* DB: tunnels that exist
    enabled,      \* DB: tunnels with enabled = 1
    total,        \* DB: bytes_in_total and bytes_out_total
    limit,        \* DB: traffic_limit_bytes of tunnels
    clientLimit,  \* DB: traffic_limit_bytes of clients
    listening,    \* tunnels with a public listener
    streaming,    \* tunnels with an established connection
    liveBytes,    \* Server.liveBytes: the tunnels that have a counter
    live,         \* the counters
    lastFlushed,  \* trafficFlushLoop's lastFlushed
    pending,      \* tunnels the current flush tick has still to handle
    snap,         \* the LiveBytesSnapshot of that tick
    edits, restarts,   \* counters of the bounds
    carried,      \* history: bytes carried since installation
    lost          \* history: bytes a restart threw away

memory == <<liveBytes, live, lastFlushed, pending, snap>>
config == <<limit, clientLimit>>
bounds == <<edits, restarts>>
history == <<carried, lost>>
vars == <<rows, enabled, total, config, listening, streaming, memory, bounds, history>>

Counts == [Tunnels -> [Dirs -> Nat]]
Zero == [t \in Tunnels |-> [d \in Dirs |-> 0]]

TypeOK ==
    /\ rows \subseteq Tunnels /\ enabled \subseteq Tunnels
    /\ total \in Counts
    /\ limit \in [Tunnels -> Limits \cup {NoLimit}]
    /\ clientLimit \in [Clients -> Limits \cup {NoLimit}]
    /\ listening \subseteq Tunnels /\ streaming \subseteq Tunnels
    /\ liveBytes \subseteq Tunnels
    /\ live \in Counts /\ lastFlushed \in Counts
    /\ pending \subseteq liveBytes
    /\ snap \in Counts
    /\ edits \in Nat /\ restarts \in Nat
    /\ carried \in Counts /\ lost \in Counts

Init ==
    /\ rows = Tunnels /\ enabled = Tunnels
    /\ total = Zero
    /\ limit = [t \in Tunnels |-> NoLimit]
    /\ clientLimit = [c \in Clients |-> NoLimit]
    /\ listening = {} /\ streaming = {}
    /\ liveBytes = {}
    /\ live = Zero /\ lastFlushed = Zero
    /\ pending = {}
    /\ snap = Zero
    /\ edits = 0 /\ restarts = 0
    /\ carried = Zero /\ lost = Zero

-----------------------------------------------------------------------------
(* Connections and their bytes.                                             *)

\* reconcileListeners, as far as the limits depend on it (module Listeners).
ReconcileListeners ==
    /\ listening # rows \cap enabled
    /\ listening' = rows \cap enabled
    /\ UNCHANGED <<rows, enabled, total, config, streaming, memory, bounds, history>>

\* proxyConn: getLiveCounter, then pipe.
OpenConn(t) ==
    /\ t \in listening /\ t \notin streaming
    /\ streaming' = streaming \cup {t}
    /\ liveBytes' = liveBytes \cup {t}
    /\ UNCHANGED <<rows, enabled, total, config, listening, live, lastFlushed, pending, snap,
                   bounds, history>>

CloseConn(t) ==
    /\ t \in streaming
    /\ streaming' = streaming \ {t}
    /\ UNCHANGED <<rows, enabled, total, config, listening, memory, bounds, history>>

Sum(count) == count["in"] + count["out"]

\* countingReader.Read: an established connection is counted whatever became
\* of its tunnel meanwhile.
CountByte(t, d) ==
    /\ t \in streaming
    /\ MapThenSumSet(LAMBDA u : Sum(carried[u]), Tunnels) < MaxBytes
    /\ live' = [live EXCEPT ![t][d] = @ + 1]
    /\ carried' = [carried EXCEPT ![t][d] = @ + 1]
    /\ UNCHANGED <<rows, enabled, total, config, listening, streaming, liveBytes, lastFlushed,
                   pending, snap, bounds, lost>>

-----------------------------------------------------------------------------
(* trafficFlushLoop and AddTunnelTraffic.                                   *)

\* mutant: every tunnel is flushed, with or without a counter
FlushTickAll ==
    /\ pending = {} /\ liveBytes # {}
    /\ pending' = Tunnels
    /\ snap' = live
    /\ UNCHANGED <<rows, enabled, total, config, listening, streaming, liveBytes, live,
                   lastFlushed, bounds, history>>

FlushTick ==
    /\ pending = {} /\ liveBytes # {}
    /\ pending' = liveBytes
    /\ snap' = live
    /\ UNCHANGED <<rows, enabled, total, config, listening, streaming, liveBytes, live,
                   lastFlushed, bounds, history>>

Reached(bytes, max) == max # NoLimit /\ bytes >= max
ClientTotal(c, tot) ==
    MapThenSumSet(LAMBDA u : Sum(tot[u]), {u \in rows : Owner[u] = c})

\* The tunnels a total brings to their own or their client's limit.
OverLimit(t, tot) ==
    (IF Reached(Sum(tot[t]), limit[t]) THEN {t} ELSE {})
    \cup (IF Reached(ClientTotal(Owner[t], tot), clientLimit[Owner[t]])
          THEN {u \in rows : Owner[u] = Owner[t]} ELSE {})

\* mutant: only the tunnel's own limit is looked at
AddTunnelTrafficOwnLimit(t, delta) ==
    LET new == [total EXCEPT ![t] = [d \in Dirs |-> total[t][d] + delta[d]]] IN
    /\ total' = new
    /\ enabled' = IF Reached(Sum(new[t]), limit[t]) THEN enabled \ {t} ELSE enabled

\* mutant: a tunnel is disabled only when a flush takes it across its limit
AddTunnelTrafficOnCrossing(t, delta) ==
    LET new == [total EXCEPT ![t] = [d \in Dirs |-> total[t][d] + delta[d]]] IN
    /\ total' = new
    /\ enabled' = enabled \ (OverLimit(t, new) \ OverLimit(t, total))

\* One transaction: totals, sample and limits.
AddTunnelTraffic(t, delta) ==
    LET new == [total EXCEPT ![t] = [d \in Dirs |-> total[t][d] + delta[d]]] IN
    /\ total' = new
    /\ enabled' = enabled \ OverLimit(t, new)

Delta(t) == [d \in Dirs |-> snap[t][d] - lastFlushed[t][d]]

\* mutant: lastFlushed takes the counter's present value, not the snapshot's
FlushTunnelRereads(t) ==
    /\ t \in pending
    /\ pending' = pending \ {t}
    /\ IF (\E d \in Dirs : Delta(t)[d] > 0) /\ t \in rows
       THEN /\ AddTunnelTraffic(t, Delta(t))
            /\ lastFlushed' = [lastFlushed EXCEPT ![t] = live[t]]
       ELSE UNCHANGED <<total, enabled, lastFlushed>>
    /\ UNCHANGED <<rows, config, listening, streaming, liveBytes, live, snap, bounds, history>>

\* mutant: a tick is skipped unless both directions moved
FlushTunnelBothDirs(t) ==
    /\ t \in pending
    /\ pending' = pending \ {t}
    /\ IF (\A d \in Dirs : Delta(t)[d] > 0) /\ t \in rows
       THEN /\ AddTunnelTraffic(t, Delta(t))
            /\ lastFlushed' = [lastFlushed EXCEPT ![t] = snap[t]]
       ELSE UNCHANGED <<total, enabled, lastFlushed>>
    /\ UNCHANGED <<rows, config, listening, streaming, liveBytes, live, snap, bounds, history>>

\* mutant: lastFlushed is not advanced
FlushTunnelForgets(t) ==
    /\ t \in pending
    /\ pending' = pending \ {t}
    /\ IF (\E d \in Dirs : Delta(t)[d] > 0) /\ t \in rows
       THEN AddTunnelTraffic(t, Delta(t)) /\ UNCHANGED lastFlushed
       ELSE UNCHANGED <<total, enabled, lastFlushed>>
    /\ UNCHANGED <<rows, config, listening, streaming, liveBytes, live, snap, bounds, history>>

\* A tunnel of the tick: nothing new is skipped, a deleted tunnel fails on its
\* foreign key, and only a committed delta advances lastFlushed.
FlushTunnel(t) ==
    /\ t \in pending
    /\ pending' = pending \ {t}
    /\ IF (\E d \in Dirs : Delta(t)[d] > 0) /\ t \in rows
       THEN /\ AddTunnelTraffic(t, Delta(t))
            /\ lastFlushed' = [lastFlushed EXCEPT ![t] = snap[t]]
       ELSE UNCHANGED <<total, enabled, lastFlushed>>
    /\ UNCHANGED <<rows, config, listening, streaming, liveBytes, live, snap, bounds, history>>

-----------------------------------------------------------------------------
(* The administrator.                                                       *)

Edit == edits < MaxEdits /\ edits' = edits + 1

SetLimit(t) ==
    /\ Edit /\ t \in rows
    /\ \E l \in (Limits \cup {NoLimit}) \ {limit[t]} : limit' = [limit EXCEPT ![t] = l]
    /\ UNCHANGED <<rows, enabled, total, clientLimit, listening, streaming, memory, restarts,
                   history>>

SetClientLimit(c) ==
    /\ Edit
    /\ \E l \in (Limits \cup {NoLimit}) \ {clientLimit[c]} :
           clientLimit' = [clientLimit EXCEPT ![c] = l]
    /\ UNCHANGED <<rows, enabled, total, limit, listening, streaming, memory, restarts, history>>

SetTunnelEnabled(t) ==
    /\ Edit /\ t \in rows
    /\ enabled' = IF t \in enabled THEN enabled \ {t} ELSE enabled \cup {t}
    /\ UNCHANGED <<rows, total, config, listening, streaming, memory, restarts, history>>

DeleteTunnel(t) ==
    /\ Edit /\ t \in rows
    /\ rows' = rows \ {t}
    /\ UNCHANGED <<enabled, total, config, listening, streaming, memory, restarts, history>>

-----------------------------------------------------------------------------
\* The process ends, drained or not, and starts again with empty counters.
Restart ==
    /\ restarts < MaxRestarts
    /\ restarts' = restarts + 1
    /\ lost' = [t \in Tunnels |-> [d \in Dirs |->
                   lost[t][d] + (live[t][d] - lastFlushed[t][d])]]
    /\ listening' = {} /\ streaming' = {}
    /\ liveBytes' = {}
    /\ live' = Zero /\ lastFlushed' = Zero
    /\ pending' = {}
    /\ snap' = Zero
    /\ UNCHANGED <<rows, enabled, total, config, edits, carried>>

FlushLoop == FlushTick \/ \E t \in Tunnels : FlushTunnel(t)
Admin == (\E t \in Tunnels : SetLimit(t) \/ SetTunnelEnabled(t) \/ DeleteTunnel(t))
         \/ (\E c \in Clients : SetClientLimit(c))

Next ==
    \/ ReconcileListeners
    \/ \E t \in Tunnels : OpenConn(t) \/ CloseConn(t) \/ \E d \in Dirs : CountByte(t, d)
    \/ FlushLoop
    \/ Admin
    \/ Restart

Spec == Init /\ [][Next]_vars

\* Only the server's two loops must run.
FairSpec == Spec /\ WF_vars(FlushLoop) /\ WF_vars(ReconcileListeners)

-----------------------------------------------------------------------------
(* Properties.                                                              *)

\* Every byte carried is in the database, still in the counter's unflushed
\* part, or was lost in a restart, and in one of these only: no flush, failed
\* flush, deletion or restart counts a byte twice (server.go:589-609).
BytesConserved ==
    \A t \in Tunnels, d \in Dirs :
        /\ lastFlushed[t][d] <= live[t][d]
        /\ carried[t][d] = total[t][d] + (live[t][d] - lastFlushed[t][d]) + lost[t][d]

\* The abstract ledger that this module implements.
Accounted == [t \in Tunnels |-> [d \in Dirs |-> total[t][d] + lost[t][d]]]
Ledger == INSTANCE TrafficLedger WITH accounted <- Accounted
ImplementsLedger == Ledger!Spec

\* db.go:723-728: the transaction that brings a tunnel or its client to its
\* limit disables the tunnels concerned, whichever tunnel carried the bytes.
LimitsEnforced ==
    [][\A t \in Tunnels : total'[t] # total[t] =>
          /\ Reached(Sum(total'[t]), limit[t]) => t \notin enabled'
          /\ Reached(ClientTotal(Owner[t], total'), clientLimit[Owner[t]])
                => \A u \in rows : Owner[u] = Owner[t] => u \notin enabled']_vars

Unflushed(t) == live[t] # lastFlushed[t]

\* README: a tunnel re-enabled at its limit "just gets ... disabled again the
\* moment more traffic flows through it", unless a restart throws that traffic
\* away first.
LimitDisablesAgain ==
    \A t \in Tunnels :
        (t \in rows /\ Reached(Sum(total[t]), limit[t]) /\ Unflushed(t))
        ~> \/ t \notin enabled \/ t \notin rows
           \/ ~Reached(Sum(total[t]), limit[t])
           \/ live[t] = [d \in Dirs |-> 0]

\* Bytes do not stay in memory: when traffic pauses, a tunnel's counters are
\* written to the database even if only one direction moved.
FlushesEventually ==
    \A t \in Tunnels : (t \in rows /\ Unflushed(t)) ~> (t \notin rows \/ ~Unflushed(t))
=============================================================================
