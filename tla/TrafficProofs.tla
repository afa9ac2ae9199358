---------------------------- MODULE TrafficProofs ----------------------------
(***************************************************************************)
(* Proofs about Traffic, for any tunnels, clients, limits and bounds: no   *)
(* byte is counted twice or silently dropped, and the accounting           *)
(* implements the abstract ledger.                                         *)
(***************************************************************************)
EXTENDS Traffic, TLAPS

USE DEF memory, config, bounds, history

\* The types the accounting depends on.
CountTypes ==
    /\ total \in Counts /\ live \in Counts /\ lastFlushed \in Counts /\ snap \in Counts
    /\ carried \in Counts /\ lost \in Counts
    /\ pending \subseteq Tunnels

\* What the flush loop relies on: while a tunnel is pending, its snapshot lies
\* between what was flushed and what has been counted.
SnapshotInv ==
    \A t \in Tunnels, d \in Dirs :
        t \in pending => lastFlushed[t][d] <= snap[t][d] /\ snap[t][d] <= live[t][d]

AccountInv == CountTypes /\ BytesConserved /\ SnapshotInv

\* Before anything is carried every account is empty.
LEMMA AccountInit == Init => AccountInv
BY DEF Init, AccountInv, CountTypes, BytesConserved, SnapshotInv, Counts, Zero

\* The accounts are what a step outside them leaves alone.
Accounts == <<total, live, lastFlushed, snap, pending, carried, lost>>

\* A step that touches no account keeps what holds of them.
LEMMA AccountsUnchanged == AccountInv /\ UNCHANGED Accounts => AccountInv'
BY DEF Accounts, AccountInv, CountTypes, BytesConserved, SnapshotInv

\* One more byte is one more byte carried and one more to flush.
LEMMA CountByteStep ==
    ASSUME AccountInv, NEW t \in Tunnels, NEW d \in Dirs, CountByte(t, d)
    PROVE  AccountInv'
<1> USE DEF Counts
<1>1. /\ live' = [live EXCEPT ![t] = [live[t] EXCEPT ![d] = live[t][d] + 1]]
      /\ carried' = [carried EXCEPT ![t] = [carried[t] EXCEPT ![d] = carried[t][d] + 1]]
      /\ UNCHANGED <<total, lastFlushed, snap, pending, lost>>
  BY DEF CountByte
<1>2. CountTypes'
  <2>1. live[t] \in [Dirs -> Nat] /\ carried[t] \in [Dirs -> Nat]
    BY DEF AccountInv, CountTypes
  <2>2. live' \in Counts /\ carried' \in Counts
    BY <1>1, <2>1 DEF AccountInv, CountTypes
  <2> QED
    BY <1>1, <2>2 DEF AccountInv, CountTypes
<1>3. ASSUME NEW u \in Tunnels, NEW e \in Dirs
      PROVE  /\ live'[u][e] = IF u = t /\ e = d THEN live[u][e] + 1 ELSE live[u][e]
             /\ carried'[u][e] = IF u = t /\ e = d THEN carried[u][e] + 1 ELSE carried[u][e]
  BY <1>1 DEF AccountInv, CountTypes
<1>4. ASSUME NEW u \in Tunnels, NEW e \in Dirs
      PROVE  /\ total[u][e] \in Nat /\ live[u][e] \in Nat /\ lastFlushed[u][e] \in Nat
             /\ snap[u][e] \in Nat /\ carried[u][e] \in Nat /\ lost[u][e] \in Nat
  BY DEF AccountInv, CountTypes
<1>5. BytesConserved'
  BY <1>1, <1>3, <1>4 DEF AccountInv, BytesConserved
<1>6. SnapshotInv'
  BY <1>1, <1>3, <1>4 DEF AccountInv, SnapshotInv
<1> QED
  BY <1>2, <1>5, <1>6 DEF AccountInv

\* A tick takes its snapshot of counters that nothing ever lowers.
LEMMA FlushTickStep == AccountInv /\ FlushTick /\ liveBytes \subseteq Tunnels => AccountInv'
<1> SUFFICES ASSUME AccountInv, FlushTick, liveBytes \subseteq Tunnels PROVE AccountInv'
  OBVIOUS
<1>1. CountTypes' /\ BytesConserved'
  BY DEF FlushTick, AccountInv, CountTypes, BytesConserved
<1>2. SnapshotInv'
  BY DEF FlushTick, AccountInv, CountTypes, Counts, BytesConserved, SnapshotInv
<1> QED
  BY <1>1, <1>2 DEF AccountInv

\* What one committed delta does to a tunnel's accounts.
Flushed(t) ==
    /\ total' = [total EXCEPT ![t] = [d \in Dirs |-> total[t][d] + Delta(t)[d]]]
    /\ lastFlushed' = [lastFlushed EXCEPT ![t] = snap[t]]
    /\ pending' = pending \ {t}
    /\ UNCHANGED <<live, snap, carried, lost>>

\* A flush either commits the delta or leaves the accounts as they were.
LEMMA FlushCases ==
    ASSUME NEW t \in Tunnels, FlushTunnel(t)
    PROVE  \/ Flushed(t) /\ t \in pending
           \/ /\ pending' = pending \ {t}
              /\ UNCHANGED <<total, lastFlushed, live, snap, carried, lost>>
BY DEF FlushTunnel, AddTunnelTraffic, Flushed

\* A flush moves bytes from the counter to the database and creates none.
LEMMA FlushTunnelStep ==
    ASSUME AccountInv, NEW t \in Tunnels, FlushTunnel(t)
    PROVE  AccountInv'
<1>1. CASE pending' = pending \ {t} /\ UNCHANGED <<total, lastFlushed, live, snap, carried, lost>>
  BY <1>1 DEF AccountInv, CountTypes, BytesConserved, SnapshotInv
<1>2. CASE Flushed(t) /\ t \in pending
  <2>1. ASSUME NEW u \in Tunnels, NEW e \in Dirs
        PROVE  /\ total[u][e] \in Nat /\ live[u][e] \in Nat /\ lastFlushed[u][e] \in Nat
               /\ snap[u][e] \in Nat /\ carried[u][e] \in Nat /\ lost[u][e] \in Nat
    BY DEF AccountInv, CountTypes, Counts
  <2>2. ASSUME NEW e \in Dirs
        PROVE  /\ Delta(t)[e] = snap[t][e] - lastFlushed[t][e]
               /\ Delta(t)[e] \in Nat
               /\ snap[t][e] <= live[t][e]
    BY <1>2, <2>1 DEF AccountInv, SnapshotInv, Delta
  <2>3. ASSUME NEW u \in Tunnels, NEW e \in Dirs
        PROVE  /\ total'[u][e] = IF u = t THEN total[u][e] + Delta(t)[e] ELSE total[u][e]
               /\ lastFlushed'[u][e] = IF u = t THEN snap[u][e] ELSE lastFlushed[u][e]
    BY <1>2 DEF Flushed, AccountInv, CountTypes, Counts
  <2>4. CountTypes'
    <3>1. [d \in Dirs |-> total[t][d] + Delta(t)[d]] \in [Dirs -> Nat]
      BY <2>1, <2>2
    <3>2. total' \in Counts /\ lastFlushed' \in Counts
      BY <1>2, <3>1 DEF Flushed, AccountInv, CountTypes, Counts
    <3> QED
      BY <1>2, <3>2 DEF Flushed, AccountInv, CountTypes
  <2>5. BytesConserved'
    BY <1>2, <2>1, <2>2, <2>3 DEF Flushed, AccountInv, BytesConserved
  <2>6. SnapshotInv'
    BY <1>2, <2>1, <2>3 DEF Flushed, AccountInv, SnapshotInv
  <2> QED
    BY <2>4, <2>5, <2>6 DEF AccountInv
<1> QED
  BY <1>1, <1>2, FlushCases

\* A restart gives up what was not flushed, and nothing else.
LEMMA RestartStep == AccountInv /\ Restart => AccountInv'
<1> SUFFICES ASSUME AccountInv, Restart PROVE AccountInv'
  OBVIOUS
<1>1. ASSUME NEW u \in Tunnels, NEW e \in Dirs
      PROVE  /\ total[u][e] \in Nat /\ live[u][e] \in Nat /\ lastFlushed[u][e] \in Nat
             /\ carried[u][e] \in Nat /\ lost[u][e] \in Nat
             /\ lastFlushed[u][e] <= live[u][e]
  BY DEF AccountInv, CountTypes, Counts, BytesConserved
<1>2. ASSUME NEW u \in Tunnels, NEW e \in Dirs
      PROVE  /\ lost'[u][e] = lost[u][e] + (live[u][e] - lastFlushed[u][e])
             /\ live'[u][e] = 0 /\ lastFlushed'[u][e] = 0
  BY DEF Restart, Zero
<1>3. lost' \in Counts
  BY <1>1 DEF Restart, Counts
<1>4. CountTypes'
  BY <1>3 DEF Restart, AccountInv, CountTypes, Counts, Zero
<1>5. BytesConserved'
  BY <1>1, <1>2 DEF Restart, AccountInv, BytesConserved
<1>6. SnapshotInv'
  BY DEF Restart, SnapshotInv
<1> QED
  BY <1>4, <1>5, <1>6 DEF AccountInv

-----------------------------------------------------------------------------
\* The inductive invariant: types and accounts support each other.
LEMMA Accounting == Spec => [](TypeOK /\ AccountInv)
<1> USE TrafficAssumption DEF TypeOK, Counts
<1>1. Init => TypeOK
  BY DEF Init, Zero
<1>2. TypeOK /\ AccountInv' /\ [Next]_vars => TypeOK'
  <2> SUFFICES ASSUME TypeOK, AccountInv', [Next]_vars PROVE TypeOK'
    OBVIOUS
  <2>0. /\ total' \in Counts /\ live' \in Counts /\ lastFlushed' \in Counts /\ snap' \in Counts
        /\ carried' \in Counts /\ lost' \in Counts /\ pending' \subseteq Tunnels
    BY DEF AccountInv, CountTypes
  <2> HIDE DEF Counts
  <2>1. CASE ReconcileListeners
    BY <2>0, <2>1 DEF ReconcileListeners
  <2>2. ASSUME NEW t \in Tunnels, OpenConn(t) \/ CloseConn(t) \/ \E d \in Dirs : CountByte(t, d)
        PROVE  TypeOK'
    BY <2>0, <2>2 DEF OpenConn, CloseConn, CountByte
  <2>3. CASE FlushTick
    BY <2>0, <2>3 DEF FlushTick
  <2>4. ASSUME NEW t \in Tunnels, FlushTunnel(t) PROVE TypeOK'
    <3>1. enabled' \subseteq enabled
      BY <2>4 DEF FlushTunnel, AddTunnelTraffic
    <3> QED
      BY <2>0, <2>4, <3>1 DEF FlushTunnel
  <2>5. ASSUME NEW t \in Tunnels, SetLimit(t) \/ SetTunnelEnabled(t) \/ DeleteTunnel(t)
        PROVE  TypeOK'
    BY <2>0, <2>5 DEF SetLimit, SetTunnelEnabled, DeleteTunnel, Edit
  <2>6. ASSUME NEW c \in Clients, SetClientLimit(c) PROVE TypeOK'
    BY <2>0, <2>6 DEF SetClientLimit, Edit
  <2>7. CASE Restart
    BY <2>0, <2>7 DEF Restart
  <2>8. CASE UNCHANGED vars
    BY <2>0, <2>8 DEF vars
  <2> QED
    BY <2>1, <2>2, <2>3, <2>4, <2>5, <2>6, <2>7, <2>8 DEF Next, FlushLoop, Admin
<1>3. TypeOK /\ AccountInv /\ [Next]_vars => AccountInv'
  <2> SUFFICES ASSUME TypeOK, AccountInv, [Next]_vars PROVE AccountInv'
    OBVIOUS
  <2>1. CASE ReconcileListeners \/ Admin \/ UNCHANGED vars
    BY <2>1, AccountsUnchanged
    DEF Accounts, ReconcileListeners, Admin, SetLimit, SetTunnelEnabled, DeleteTunnel,
        SetClientLimit, vars
  <2>2. ASSUME NEW t \in Tunnels, OpenConn(t) \/ CloseConn(t) PROVE AccountInv'
    BY <2>2, AccountsUnchanged DEF Accounts, OpenConn, CloseConn
  <2> QED
    BY <2>1, <2>2, CountByteStep, FlushTickStep, FlushTunnelStep, RestartStep
    DEF Next, FlushLoop
<1> QED
  BY <1>1, <1>2, <1>3, AccountInit, PTL DEF Spec

\* Every variable keeps its type.
THEOREM TypeCorrect == Spec => []TypeOK
BY Accounting, PTL

\* The flush loop, its snapshot, failed transactions and restarts together
\* neither invent nor hide a byte.
THEOREM NoByteCountedTwice == Spec => []BytesConserved
<1>1. AccountInv => BytesConserved
  BY DEF AccountInv
<1> QED
  BY <1>1, Accounting, PTL

\* Traffic implements TrafficLedger: a byte counted is a Carry step, a committed
\* flush and a restart are Account steps, every other step changes nothing.
THEOREM TrafficImplementsLedger == Spec => ImplementsLedger
<1>1. Init => Ledger!Init
  BY DEF Init, Ledger!Init, Ledger!Zero, Zero, Accounted
<1>2. AccountInv /\ AccountInv' /\ [Next]_vars => [Ledger!Next]_<<carried, Accounted>>
  <2> SUFFICES ASSUME AccountInv, AccountInv', [Next]_vars
               PROVE  Ledger!Next \/ UNCHANGED <<carried, Accounted>>
    OBVIOUS
  <2>0. ASSUME NEW u \in Tunnels, NEW e \in Dirs
        PROVE  /\ total[u][e] \in Nat /\ live[u][e] \in Nat /\ lastFlushed[u][e] \in Nat
               /\ carried[u][e] \in Nat /\ lost[u][e] \in Nat
               /\ lastFlushed[u][e] <= live[u][e]
               /\ carried[u][e] = total[u][e] + (live[u][e] - lastFlushed[u][e]) + lost[u][e]
    BY DEF AccountInv, CountTypes, Counts, BytesConserved
  <2>1. ASSUME NEW u \in Tunnels, NEW e \in Dirs
        PROVE  /\ total'[u][e] \in Nat /\ live'[u][e] \in Nat /\ lastFlushed'[u][e] \in Nat
               /\ carried'[u][e] \in Nat /\ lost'[u][e] \in Nat
               /\ lastFlushed'[u][e] <= live'[u][e]
               /\ carried'[u][e] =
                     total'[u][e] + (live'[u][e] - lastFlushed'[u][e]) + lost'[u][e]
    BY DEF AccountInv, CountTypes, Counts, BytesConserved
  <2>2. /\ \A u \in Tunnels, e \in Dirs : Accounted[u][e] = total[u][e] + lost[u][e]
        /\ \A u \in Tunnels, e \in Dirs : Accounted'[u][e] = total'[u][e] + lost'[u][e]
        /\ Accounted' \in Ledger!Counts
    BY <2>1 DEF Accounted, Ledger!Counts
  \* a step that carries nothing and lowers no account is an Account step
  <2>3. ASSUME carried' = carried,
               \A u \in Tunnels, e \in Dirs :
                  total[u][e] + lost[u][e] <= total'[u][e] + lost'[u][e]
        PROVE  Ledger!Account
    <3>1. \A u \in Tunnels, e \in Dirs :
             Accounted[u][e] <= Accounted'[u][e] /\ Accounted'[u][e] <= carried[u][e]
      BY <2>0, <2>1, <2>2, <2>3
    <3> QED
      BY <2>2, <2>3, <3>1 DEF Ledger!Account
  <2>4. CASE UNCHANGED <<carried, total, lost>>
    BY <2>4 DEF Accounted
  <2>5. ASSUME NEW t \in Tunnels, NEW d \in Dirs, CountByte(t, d) PROVE Ledger!Next
    <3>1. Ledger!Carry(t, d)
      BY <2>5 DEF CountByte, Ledger!Carry, Accounted
    <3> QED
      BY <3>1 DEF Ledger!Next
  <2>6. ASSUME NEW t \in Tunnels, FlushTunnel(t)
        PROVE  Ledger!Next \/ UNCHANGED <<carried, Accounted>>
    <3>1. CASE Flushed(t) /\ t \in pending
      <4>1. \A e \in Dirs : Delta(t)[e] = snap[t][e] - lastFlushed[t][e]
                             /\ snap[t][e] \in Nat /\ lastFlushed[t][e] <= snap[t][e]
        BY <3>1 DEF Delta, AccountInv, CountTypes, Counts, SnapshotInv
      <4>2. \A u \in Tunnels, e \in Dirs :
               total'[u][e] = IF u = t THEN total[u][e] + Delta(t)[e] ELSE total[u][e]
        BY <3>1 DEF Flushed, AccountInv, CountTypes, Counts
      <4>3. \A u \in Tunnels, e \in Dirs :
               total[u][e] + lost[u][e] <= total'[u][e] + lost'[u][e]
        BY <2>0, <3>1, <4>1, <4>2 DEF Flushed
      <4> QED
        BY <2>3, <3>1, <4>3 DEF Flushed, Ledger!Next
    <3>2. CASE UNCHANGED <<carried, total, lost>>
      BY <2>4, <3>2
    <3> QED
      BY <2>6, <3>1, <3>2, FlushCases
  <2>7. CASE Restart
    <3>1. \A u \in Tunnels, e \in Dirs :
             lost'[u][e] = lost[u][e] + (live[u][e] - lastFlushed[u][e])
      BY <2>7 DEF Restart
    <3>2. \A u \in Tunnels, e \in Dirs :
             total[u][e] + lost[u][e] <= total'[u][e] + lost'[u][e]
      BY <2>0, <2>7, <3>1 DEF Restart
    <3> QED
      BY <2>3, <2>7, <3>2 DEF Restart, Ledger!Next
  <2>8. CASE ReconcileListeners \/ Admin \/ FlushTick \/ UNCHANGED vars
    <3>1. UNCHANGED <<carried, total, lost>>
      BY <2>8 DEF ReconcileListeners, Admin, FlushTick, SetLimit, SetTunnelEnabled, DeleteTunnel,
                  SetClientLimit, vars
    <3> QED
      BY <2>4, <3>1
  <2>9. ASSUME NEW t \in Tunnels, OpenConn(t) \/ CloseConn(t)
        PROVE  UNCHANGED <<carried, Accounted>>
    BY <2>9 DEF OpenConn, CloseConn, Accounted
  <2> QED
    BY <2>5, <2>6, <2>7, <2>8, <2>9 DEF Next, FlushLoop
<1> QED
  BY <1>1, <1>2, Accounting, PTL DEF Spec, ImplementsLedger, Ledger!Spec

-----------------------------------------------------------------------------
\* A flush that changes a total leaves no tunnel enabled that it brings to its
\* own limit or, through the client's total, to its client's.
LEMMA FlushEnforces ==
    ASSUME CountTypes, NEW t \in Tunnels, FlushTunnel(t),
           NEW u \in Tunnels, total'[u] # total[u]
    PROVE  /\ Reached(Sum(total'[u]), limit[u]) => u \notin enabled'
           /\ Reached(ClientTotal(Owner[u], total'), clientLimit[Owner[u]])
                 => \A v \in rows : Owner[v] = Owner[u] => v \notin enabled'
<1>1. AddTunnelTraffic(t, Delta(t))
  BY DEF FlushTunnel
<1>2. enabled' = enabled \ OverLimit(t, total')
  BY <1>1 DEF AddTunnelTraffic
<1>3. u = t
  BY <1>1 DEF AddTunnelTraffic, CountTypes, Counts
<1>4. Reached(Sum(total'[t]), limit[t]) => t \in OverLimit(t, total')
  BY DEF OverLimit
<1>5. Reached(ClientTotal(Owner[t], total'), clientLimit[Owner[t]])
         => \A v \in rows : Owner[v] = Owner[t] => v \in OverLimit(t, total')
  BY DEF OverLimit
<1> QED
  BY <1>2, <1>3, <1>4, <1>5

\* Totals change in AddTunnelTraffic's transaction only, and the transaction
\* that brings a tunnel or its client to a limit disables every tunnel
\* concerned, for any tunnels, clients and limits (db.go:723-767).
THEOREM LimitsAreEnforced == Spec => LimitsEnforced
<1> DEFINE Enforced ==
             \A t \in Tunnels : total'[t] # total[t] =>
                /\ Reached(Sum(total'[t]), limit[t]) => t \notin enabled'
                /\ Reached(ClientTotal(Owner[t], total'), clientLimit[Owner[t]])
                      => \A u \in rows : Owner[u] = Owner[t] => u \notin enabled'
<1>1. TypeOK /\ [Next]_vars => [Enforced]_vars
  <2> SUFFICES ASSUME TypeOK, [Next]_vars PROVE Enforced
    OBVIOUS
  <2>0. CountTypes
    BY DEF TypeOK, CountTypes
  <2>1. ASSUME NEW t \in Tunnels, FlushTunnel(t) PROVE Enforced
    BY <2>0, <2>1, FlushEnforces
  <2>2. CASE total' = total
    BY <2>2
  <2>3. ASSUME NEW t \in Tunnels, OpenConn(t) \/ CloseConn(t) \/ \E d \in Dirs : CountByte(t, d)
        PROVE  total' = total
    BY <2>3 DEF OpenConn, CloseConn, CountByte
  <2>4. CASE ReconcileListeners \/ Admin \/ FlushTick \/ Restart \/ UNCHANGED vars
    <3>1. total' = total
      BY <2>4 DEF ReconcileListeners, Admin, FlushTick, SetLimit, SetTunnelEnabled, DeleteTunnel,
                  SetClientLimit, Restart, vars
    <3> QED
      BY <2>2, <3>1
  <2> QED
    BY <2>1, <2>2, <2>3, <2>4 DEF Next, FlushLoop
<1> QED
  BY <1>1, TypeCorrect, PTL DEF Spec, LimitsEnforced
=============================================================================
