--------------------------- MODULE ListenersProofs ---------------------------
(***************************************************************************)
(* Proofs about Listeners, for every set of tunnels, ports and players,    *)
(* and about McRouter, whose connections come from one of the listeners.   *)
(***************************************************************************)
EXTENDS Listeners, McRouter, SequenceTheorems, TLAPS

USE DEF database, public, shared, history

\* Every variable keeps its type.
THEOREM TypeCorrect == Spec => []TypeOK
<1> USE DEF TypeOK, LnStates, ShutdownSteps
<1>1. Init => TypeOK
  <2> SUFFICES ASSUME Init PROVE TypeOK
    OBVIOUS
  <2>1. webLn \in [WebPorts -> {"unset", "bound", "failed"}]
    BY DEF Init
  <2>2. conn \in [Players -> {"none", "peek", "accepted", "tracked", "done"}]
    BY DEF Init
  <2> QED
    BY <2>1, <2>2 DEF Init
<1>2. TypeOK /\ [Next]_vars => TypeOK'
  <2> SUFFICES ASSUME TypeOK, [Next]_vars PROVE TypeOK'
    OBVIOUS
  <2>1. ASSUME NEW t \in Tunnels,
               DisableTunnel(t) \/ AddTunnel(t) \/ ProbePublicPort(t) \/ EnableTunnel(t)
        PROVE  TypeOK'
    BY <2>1 DEF DisableTunnel, AddTunnel, ProbePublicPort, EnableTunnel
  <2>2. ASSUME NEW t \in Tunnels, AcceptFails(t) PROVE TypeOK'
    BY <2>2 DEF AcceptFails
  <2>3. CASE Startup
    BY <2>3 DEF Startup, ListenControl, StoreControl, ListenRouter, StoreRouter, ListenWeb
  <2>4. CASE ReconcileCheck \/ ReconcileQuery \/ LoopExits
    BY <2>4 DEF ReconcileCheck, ReconcileQuery, LoopExits
  <2>5. CASE ReconcileApply
    BY <2>5 DEF ReconcileApply
  <2>6. ASSUME NEW p \in Players,
               \/ AcceptPlayer(p) \/ AcceptMinecraft(p) \/ PeekHostname(p)
               \/ TrackConn(p) \/ FinishConn(p)
        PROVE  TypeOK'
    BY <2>6 DEF AcceptPlayer, AcceptMinecraft, PeekHostname, TrackConn, FinishConn
  <2>7. CASE Signal
    BY <2>7 DEF Signal, Tracked
  <2>8. CASE Shutdown
    <3>1. CASE CloseListeners
      <4>1. overtaken' \in BOOLEAN
        BY <3>1 DEF CloseListeners
      <4> QED
        BY <3>1, <4>1 DEF CloseListeners
    <3>2. CASE CloseControl \/ CloseRouter \/ Drained \/ DrainTimesOut
      BY <3>2 DEF CloseControl, CloseRouter, Drained, DrainTimesOut
    <3> QED
      BY <2>8, <3>1, <3>2 DEF Shutdown
  <2>9. CASE UNCHANGED vars
    BY <2>9 DEF vars
  <2> QED
    BY <2>1, <2>2, <2>3, <2>4, <2>5, <2>6, <2>7, <2>8, <2>9 DEF Next, Reconcile
<1> QED
  BY <1>1, <1>2, PTL DEF Spec

-----------------------------------------------------------------------------
\* Once the listeners are closed, a pass still under way is the overtaken one and
\* nothing is open before it ends; whatever it wants is recorded, whether it read
\* the table before the listeners were closed or after.
ReopenInv ==
    /\ shut \in Closed =>
           /\ open \subseteq inflight /\ loop.wanted \subseteq inflight
           /\ loop.at \in {"checked", "listed"} => overtaken /\ open = {}
    /\ loop.at # "listed" => loop.wanted = {}

\* A pass that begins after Shutdown's signal opens no listener: what is open
\* after the listeners were closed was wanted by the one pass that had made its
\* shutdown check before they were.
THEOREM ShutdownKeepsListenersClosed == Spec => []OnlyInflightReopens
<1> USE DEF ReopenInv, Closed
<1>1. Init => ReopenInv
  BY DEF Init
<1>2. TypeOK /\ ReopenInv /\ [Next]_vars => ReopenInv'
  <2> SUFFICES ASSUME TypeOK, ReopenInv, [Next]_vars PROVE ReopenInv'
    OBVIOUS
  <2>1. ASSUME NEW t \in Tunnels,
               \/ DisableTunnel(t) \/ AddTunnel(t) \/ ProbePublicPort(t) \/ EnableTunnel(t)
               \/ AcceptFails(t)
        PROVE  ReopenInv'
    BY <2>1 DEF DisableTunnel, AddTunnel, ProbePublicPort, EnableTunnel, AcceptFails
  <2>2. CASE Startup
    BY <2>2 DEF Startup, ListenControl, StoreControl, ListenRouter, StoreRouter, ListenWeb
  <2>3. CASE ReconcileCheck \/ ReconcileQuery \/ LoopExits
    BY <2>3 DEF ReconcileCheck, ReconcileQuery, LoopExits
  <2>4. CASE ReconcileApply
    \* what the pass opens is part of what it wanted
    <3>1. open' \subseteq open \cup loop.wanted
      BY <2>4 DEF ReconcileApply
    <3>2. shut' = shut /\ inflight' = inflight /\ loop' = [at |-> "idle", wanted |-> {}]
      BY <2>4 DEF ReconcileApply
    <3> QED
      BY <3>1, <3>2
  <2>5. ASSUME NEW p \in Players,
               \/ AcceptPlayer(p) \/ AcceptMinecraft(p) \/ PeekHostname(p)
               \/ TrackConn(p) \/ FinishConn(p)
        PROVE  ReopenInv'
    BY <2>5 DEF AcceptPlayer, AcceptMinecraft, PeekHostname, TrackConn, FinishConn
  <2>6. CASE Signal
    BY <2>6 DEF Signal
  <2>7. CASE Shutdown
    BY <2>7 DEF Shutdown, CloseControl, CloseRouter, CloseListeners, Drained, DrainTimesOut
  <2>8. CASE UNCHANGED vars
    BY <2>8 DEF vars
  <2> QED
    BY <2>1, <2>2, <2>3, <2>4, <2>5, <2>6, <2>7, <2>8 DEF Next, Reconcile
<1>3. ReopenInv => OnlyInflightReopens
  BY DEF OnlyInflightReopens
<1> QED
  BY <1>1, <1>2, <1>3, TypeCorrect, PTL DEF Spec

-----------------------------------------------------------------------------
\* A connection tracked at the signal stays tracked until it is done, and the
\* wait on activeConns ends only when none is tracked.
DrainInv ==
    /\ shut = "no" => early = {}
    /\ \A p \in early : conn[p] \in {"tracked", "done"}
    /\ shut = "drained" => \A p \in early : conn[p] = "done"

\* A Shutdown that reports success cut no connection that was tracked when the
\* signal arrived.
THEOREM DrainIsComplete == Spec => []EarlyConnsDrained
<1> USE DEF DrainInv
<1>1. Init => DrainInv
  BY DEF Init
<1>2. TypeOK /\ DrainInv /\ [Next]_vars => DrainInv'
  <2> SUFFICES ASSUME TypeOK, DrainInv, [Next]_vars PROVE DrainInv'
    OBVIOUS
  <2>0. early \subseteq Players /\ conn = [p \in Players |-> conn[p]]
    BY DEF TypeOK
  <2>1. ASSUME NEW t \in Tunnels,
               \/ DisableTunnel(t) \/ AddTunnel(t) \/ ProbePublicPort(t) \/ EnableTunnel(t)
               \/ AcceptFails(t)
        PROVE  DrainInv'
    BY <2>1 DEF DisableTunnel, AddTunnel, ProbePublicPort, EnableTunnel, AcceptFails
  <2>2. CASE Startup
    BY <2>2 DEF Startup, ListenControl, StoreControl, ListenRouter, StoreRouter, ListenWeb
  <2>3. CASE Reconcile
    BY <2>3 DEF Reconcile, ReconcileCheck, ReconcileQuery, ReconcileApply, LoopExits
  <2>4. ASSUME NEW p \in Players,
               AcceptPlayer(p) \/ AcceptMinecraft(p) \/ PeekHostname(p) \/ TrackConn(p)
        PROVE  DrainInv'
    <3>1. conn[p] \notin {"tracked", "done"}
      BY <2>4 DEF AcceptPlayer, AcceptMinecraft, PeekHostname, TrackConn
    <3>2. p \notin early
      BY <3>1
    <3>3. shut' = shut /\ early' = early /\ \A q \in early : conn'[q] = conn[q]
      BY <2>0, <2>4, <3>2 DEF AcceptPlayer, AcceptMinecraft, PeekHostname, TrackConn
    <3> QED
      BY <3>3
  <2>5. ASSUME NEW p \in Players, FinishConn(p) PROVE DrainInv'
    BY <2>0, <2>5 DEF FinishConn
  <2>6. CASE Signal
    BY <2>0, <2>6 DEF Signal, Tracked
  <2>7. CASE Shutdown
    <3>1. CASE Drained
      BY <2>0, <3>1 DEF Drained, Tracked
    <3>2. CASE CloseControl \/ CloseRouter \/ CloseListeners \/ DrainTimesOut
      BY <3>2 DEF CloseControl, CloseRouter, CloseListeners, DrainTimesOut
    <3> QED
      BY <2>7, <3>1, <3>2 DEF Shutdown
  <2>8. CASE UNCHANGED vars
    BY <2>8 DEF vars
  <2> QED
    BY <2>1, <2>2, <2>3, <2>4, <2>5, <2>6, <2>7, <2>8 DEF Next
<1>3. DrainInv => EarlyConnsDrained
  BY DEF EarlyConnsDrained
<1> QED
  BY <1>1, <1>2, <1>3, TypeCorrect, PTL DEF Spec

-----------------------------------------------------------------------------
\* The inductive invariant behind NoLeakedSocket: ports are unique in the table
\* and so in the list a pass has read, however the table changes meanwhile.
SocketInv ==
    /\ NoLeakedSocket
    /\ UniquePorts(enabled)
    /\ UniquePorts(loop.wanted)

\* Ports unique in a set are unique in a part of it.
LEMMA UniqueInPart ==
    ASSUME NEW S, NEW T, S \subseteq T, UniquePorts(T) PROVE UniquePorts(S)
  BY DEF UniquePorts

\* Through every overlap of passes, probes, edits and Shutdown, a socket that
\* listens has its entry in the map, an entry has its socket, and no two are
\* bound to one port, Portly's own listeners included.
THEOREM SocketsHaveEntries == Spec => []NoLeakedSocket
<1> USE DEF SocketInv, NoLeakedSocket
<1>1. Init => SocketInv
  BY DEF Init, UniquePorts, Ports
<1>2. TypeOK /\ SocketInv /\ [Next]_vars => SocketInv'
  <2> SUFFICES ASSUME TypeOK, SocketInv, [Next]_vars PROVE SocketInv'
    OBVIOUS
  <2>o. UNCHANGED <<controlLn, mcRouterLn, webLn>> => OwnPorts' = OwnPorts
    BY DEF OwnPorts
  <2>p. ASSUME open' = open, listeners' = listeners, OwnPorts' \subseteq OwnPorts
        PROVE  NoLeakedSocket'
    BY <2>p DEF UniquePorts, Ports
  <2>1. ASSUME NEW t \in Tunnels, DisableTunnel(t) PROVE SocketInv'
    <3>1. /\ enabled' \subseteq enabled
          /\ UNCHANGED <<open, listeners, loop, controlLn, mcRouterLn, webLn>>
      BY <2>1 DEF DisableTunnel
    <3>2. UniquePorts(enabled') /\ UniquePorts(loop'.wanted)
      BY <3>1, UniqueInPart
    <3> QED
      BY <3>1, <3>2, <2>o, <2>p DEF UniquePorts
  <2>2. ASSUME NEW t \in Tunnels,
               AddTunnel(t) \/ ProbePublicPort(t) \/ EnableTunnel(t)
        PROVE  SocketInv'
    <3>1. UNCHANGED <<open, listeners, loop, controlLn, mcRouterLn, webLn>>
      BY <2>2 DEF AddTunnel, ProbePublicPort, EnableTunnel
    <3>2. \/ enabled' = enabled
          \/ enabled' = enabled \cup {t} /\ UniquePorts(enabled \cup {t})
      <4>1. CASE AddTunnel(t)
        BY <4>1 DEF AddTunnel
      <4>2. CASE ProbePublicPort(t)
        BY <4>2 DEF ProbePublicPort
      <4>3. CASE EnableTunnel(t)
        BY <4>3 DEF EnableTunnel
      <4> QED
        BY <2>2, <4>1, <4>2, <4>3
    <3> QED
      BY <3>1, <3>2, <2>o, <2>p DEF UniquePorts
  <2>3. CASE ReconcileCheck \/ ReconcileQuery
    <3>1. /\ loop'.wanted \in {{}, enabled}
          /\ UNCHANGED <<open, listeners, enabled, controlLn, mcRouterLn, webLn>>
      BY <2>3 DEF ReconcileCheck, ReconcileQuery
    <3> QED
      BY <3>1, <2>o, <2>p DEF UniquePorts
  <2>4. CASE ReconcileApply
    <3> DEFINE kept == listeners \cap loop.wanted
               taken == {0} \cup Ports(kept \cup probing) \cup OwnPorts
               started == {t \in loop.wanted \ kept : PublicPort[t] \notin taken}
    <3>1. /\ open' = kept \cup started /\ listeners' = open'
          /\ loop'.wanted = {}
          /\ UNCHANGED <<enabled, controlLn, mcRouterLn, webLn>>
      BY <2>4 DEF ReconcileApply
    <3>2. UniquePorts(open') /\ UniquePorts(enabled') /\ UniquePorts(loop'.wanted)
      BY <3>1, UniqueInPart DEF UniquePorts
    <3>3. Ports(kept) \cap OwnPorts = {} /\ Ports(started) \cap OwnPorts = {}
      BY DEF Ports
    <3>4. Ports(open') \cap OwnPorts' = {}
      BY <3>1, <3>3, <2>o DEF Ports
    <3> QED
      BY <3>1, <3>2, <3>4 DEF Ports, UniquePorts
  <2>5. CASE CloseListeners
    BY <2>5 DEF CloseListeners, UniquePorts, Ports
  <2>6. CASE LoopExits
    BY <2>6, <2>o, <2>p DEF LoopExits, UniquePorts
  <2>7. ASSUME UNCHANGED <<open, listeners, enabled>>, loop'.wanted \in {{}, loop.wanted},
               \A x \in Ports(open) : x \in OwnPorts' => x \in OwnPorts
        PROVE  SocketInv'
    BY <2>7 DEF UniquePorts, Ports
  <2>8. CASE ListenControl \/ StoreControl \/ ListenRouter \/ StoreRouter
             \/ CloseControl \/ CloseRouter
    <3>1. UNCHANGED <<open, listeners, enabled>> /\ loop'.wanted \in {{}, loop.wanted}
      BY <2>8 DEF ListenControl, StoreControl, ListenRouter, StoreRouter, CloseControl, CloseRouter
    <3>2. \A x \in Ports(open) : x \in OwnPorts' => x \in OwnPorts
      BY <2>8 DEF ListenControl, StoreControl, ListenRouter, StoreRouter, CloseControl,
                  CloseRouter, OwnPorts, Ports
    <3> QED
      BY <2>7, <3>1, <3>2
  <2>9. ASSUME NEW w \in WebPorts, ListenWeb(w) PROVE SocketInv'
    <3>1. UNCHANGED <<open, listeners, enabled, loop>>
      BY <2>9 DEF ListenWeb
    <3>2. \A x \in Ports(open) : x \in OwnPorts' => x \in OwnPorts
      BY <2>9 DEF ListenWeb, OwnPorts, Ports, TypeOK
    <3> QED
      BY <2>7, <3>1, <3>2
  <2>10. ASSUME NEW p \in Players,
                \/ AcceptPlayer(p) \/ AcceptMinecraft(p) \/ PeekHostname(p)
                \/ TrackConn(p) \/ FinishConn(p)
         PROVE  SocketInv'
    <3>1. UNCHANGED <<open, listeners, enabled, loop, controlLn, mcRouterLn, webLn>>
      BY <2>10 DEF AcceptPlayer, AcceptMinecraft, PeekHostname, TrackConn, FinishConn
    <3> QED
      BY <2>7, <2>o, <3>1
  <2>11. ASSUME NEW t \in Tunnels, AcceptFails(t) PROVE SocketInv'
    <3>1. UNCHANGED <<open, listeners, enabled, loop, controlLn, mcRouterLn, webLn>>
      BY <2>11 DEF AcceptFails
    <3> QED
      BY <2>7, <2>o, <3>1
  <2>12. CASE Signal \/ Drained \/ DrainTimesOut \/ UNCHANGED vars
    <3>1. UNCHANGED <<open, listeners, enabled, loop, controlLn, mcRouterLn, webLn>>
      BY <2>12 DEF Signal, Drained, DrainTimesOut, vars
    <3> QED
      BY <2>7, <2>o, <3>1
  <2> QED
    BY <2>1, <2>2, <2>3, <2>4, <2>5, <2>6, <2>8, <2>9, <2>10, <2>11, <2>12
    DEF Next, Reconcile, Startup, Shutdown
<1>3. SocketInv => NoLeakedSocket
  OBVIOUS
<1> QED
  BY <1>1, <1>2, <1>3, TypeCorrect, PTL DEF Spec

-----------------------------------------------------------------------------
(* What one of these listeners, the Minecraft router's, does with a         *)
(* connection: module McRouter.  Its constants and variables are its own.   *)

\* Offset p of b is where the number of field f begins.
FieldAt(b, f, p) ==
    \/ f = "length" /\ p = 0
    \/ f = "id" /\ IdAt(b, p)
    \/ f = "version" /\ VersionAt(b, p)
    \/ f = "addrLen" /\ AddrLenAt(b, p)

\* At most one VarInt begins at an offset.
LEMMA VarIntEndsOnce ==
    ASSUME NEW b \in Seq(Byte), NEW p \in Nat, NEW q, NEW r, VarIntAt(b, p, q), VarIntAt(b, p, r)
    PROVE  q = r
<1>1. ASSUME NEW i \in 1..Len(b) PROVE b[i] \in Int
  <2>1. b[i] \in Byte
    OBVIOUS
  <2>2. \A x \in Byte : x \in Int
    BY DEF Byte
  <2> QED
    BY <2>1, <2>2, Zenon
<1>2. /\ q \in Int /\ p + 1 <= q /\ q <= Len(b) /\ b[q] < 128
      /\ r \in Int /\ p + 1 <= r /\ r <= Len(b) /\ b[r] < 128
      /\ \A i \in p + 1 .. q - 1 : b[i] >= 128
      /\ \A i \in p + 1 .. r - 1 : b[i] >= 128
  BY DEF VarIntAt
<1>3. ~(q < r)
  <2>1. SUFFICES ASSUME q < r PROVE FALSE
    OBVIOUS
  <2>2. q \in p + 1 .. r - 1 /\ q \in 1..Len(b)
    BY <1>2, <2>1
  <2>3. b[q] >= 128 /\ b[q] < 128 /\ b[q] \in Int
    BY <1>1, <1>2, <2>2
  <2> QED
    BY <2>3
<1>4. ~(r < q)
  <2>1. SUFFICES ASSUME r < q PROVE FALSE
    OBVIOUS
  <2>2. r \in p + 1 .. q - 1 /\ r \in 1..Len(b)
    BY <1>2, <2>1
  <2>3. b[r] >= 128 /\ b[r] < 128 /\ b[r] \in Int
    BY <1>1, <1>2, <2>2
  <2> QED
    BY <2>3
<1> QED
  BY <1>2, <1>3, <1>4

\* Each field of a handshake begins at one offset only.
LEMMA FieldAtOnce ==
    ASSUME NEW b \in Seq(Byte), NEW f, NEW p, NEW q, FieldAt(b, f, p), FieldAt(b, f, q)
    PROVE  p = q
<1>0. 0 \in Nat /\ \A i \in 0..Len(b) : i \in Nat
  OBVIOUS
<1>1. \A r \in Nat : \A g, i, j : NumberAt(b, g, r, i) /\ NumberAt(b, g, r, j) => i = j
  BY VarIntEndsOnce, Zenon DEF NumberAt
<1>2. \A i, j : IdAt(b, i) /\ IdAt(b, j) => i = j
  BY <1>0, <1>1, Zenon DEF IdAt
<1>3. \A i, j : VersionAt(b, i) /\ VersionAt(b, j) => i = j
  BY <1>0, <1>1, <1>2, Zenon DEF VersionAt
<1>4. \A i, j : AddrLenAt(b, i) /\ AddrLenAt(b, j) => i = j
  BY <1>0, <1>1, <1>3, Zenon DEF AddrLenAt
<1> QED
  BY <1>2, <1>3, <1>4 DEF FieldAt

\* A stream of bytes holds at most one address.
LEMMA AddressOnce ==
    ASSUME NEW b \in Seq(Byte), NEW p, NEW q, NEW r, NEW s, AddressAt(b, p, q), AddressAt(b, r, s)
    PROVE  p = r /\ q = s
<1>1. PICK i \in 0..Len(b) :
          AddrLenAt(b, i) /\ NumberAt(b, "addrLen", i, p) /\ q = p + Number(b, i, p)
  BY DEF AddressAt
<1>2. PICK j \in 0..Len(b) :
          AddrLenAt(b, j) /\ NumberAt(b, "addrLen", j, r) /\ s = r + Number(b, j, r)
  BY DEF AddressAt
<1>3. i = j
  BY <1>1, <1>2, FieldAtOnce, Zenon DEF FieldAt
<1>4. p = r
  <2>1. i \in Nat
    OBVIOUS
  <2> QED
    BY <1>1, <1>2, <1>3, <2>1, VarIntEndsOnce, Zenon DEF NumberAt
<1> QED
  BY <1>1, <1>2, <1>3, <1>4, Zenon

\* After a number comes the next field.
LEMMA NextFieldAt ==
    ASSUME NEW b \in Seq(Byte), NEW f, NEW p \in 0..Len(b), NEW q, FieldAt(b, f, p),
           NumberAt(b, f, p, q)
    PROVE  f # "addrLen" => FieldAt(b, NextField(f), q)
<1>1. CASE f = "length"
  BY <1>1 DEF FieldAt, NextField, IdAt
<1>2. CASE f = "id"
  BY <1>2 DEF FieldAt, NextField, VersionAt
<1>3. CASE f = "version"
  BY <1>3 DEF FieldAt, NextField, AddrLenAt
<1> QED
  BY <1>1, <1>2, <1>3 DEF FieldAt

\* Where a number that a handshake needs is missing there is no address.
LEMMA NoAddress ==
    ASSUME NEW b \in Seq(Byte), NEW f, NEW p, FieldAt(b, f, p),
           \A q : ~NumberAt(b, f, p, q)
    PROVE  \A q, r : ~AddressAt(b, q, r)
<1>1. SUFFICES ASSUME NEW q, NEW r, AddressAt(b, q, r) PROVE FALSE
  OBVIOUS
<1>2. PICK i : AddrLenAt(b, i) /\ NumberAt(b, "addrLen", i, q)
  BY <1>1, Zenon DEF AddressAt
<1>3. PICK j : VersionAt(b, j) /\ NumberAt(b, "version", j, i)
  BY <1>2, Zenon DEF AddrLenAt
<1>4. PICK k : IdAt(b, k) /\ NumberAt(b, "id", k, j)
  BY <1>3, Zenon DEF VersionAt
<1>5. NumberAt(b, "length", 0, k)
  BY <1>4, Zenon DEF IdAt
<1>6. CASE f = "length"
  BY <1>5, <1>6, Zenon DEF FieldAt
<1>7. CASE f = "id"
  BY <1>4, <1>7, FieldAtOnce, Zenon DEF FieldAt
<1>8. CASE f = "version"
  BY <1>3, <1>8, FieldAtOnce, Zenon DEF FieldAt
<1>9. CASE f = "addrLen"
  BY <1>2, <1>9, FieldAtOnce, Zenon DEF FieldAt
<1> QED
  BY <1>6, <1>7, <1>8, <1>9, Zenon DEF FieldAt

-----------------------------------------------------------------------------
(* VarInts: what is written is what is read.  The provers take no numbers  *)
(* as large as 2^21 and 2^28, which are written as products.               *)

\* How many groups of seven bits a number takes, and which numbers take how many.
LEMMA GroupsBound ==
    ASSUME NEW n \in Int32
    PROVE  LET k == Groups(n) IN
           /\ k \in 1..5
           /\ k = 5 => n < 0 \/ n >= (16384 * 16384)
           /\ k < 5 => n >= 0
           /\ k = 1 => n < 128
           /\ k = 2 => n >= 128 /\ n < 16384
           /\ k = 3 => n >= 16384 /\ n < (128 * 16384)
           /\ k = 4 => n >= (128 * 16384) /\ n < (16384 * 16384)
<1> DEFINE P(k) == n < 2^(7 * k) /\ (k > 1 => n >= 2^(7 * (k - 1)))
<1>0. 2^28 = (16384 * 16384) /\ 2^7 = 128 /\ 2^14 = 16384 /\ 2^21 = (128 * 16384)
  BY SMT
<1>1. CASE n < 0 \/ n >= 2^28
  BY SMT, <1>0, <1>1 DEF Groups
<1>2. CASE ~(n < 0 \/ n >= 2^28)
  <2>1. n \in Nat /\ n < (16384 * 16384)
    BY SMT, <1>2, <1>0 DEF Int32
  <2>2. /\ P(1) <=> n < 128
        /\ P(2) <=> n < 16384 /\ n >= 128
        /\ P(3) <=> n < (128 * 16384) /\ n >= 16384
        /\ P(4) <=> n < (16384 * 16384) /\ n >= (128 * 16384)
    BY SMT, <1>0, <2>1
  <2>3. \E k \in 1..4 : P(k)
    <3> HIDE DEF P
    <3> QED BY SMT, <2>1, <2>2
  <2>4. Groups(n) = CHOOSE k \in 1..4 : P(k)
    BY Zenon, <1>2 DEF Groups
  <2> HIDE DEF P
  <2>5. Groups(n) \in 1..4 /\ P(Groups(n))
    BY SMT, <2>3, <2>4
  <2> QED
    BY SMT, <2>1, <2>2, <2>5
<1> QED
  BY SMT, <1>1, <1>2

\* The groups of a number, lowest first.
LEMMA GroupValues ==
    ASSUME NEW n \in Int32
    PROVE  /\ Group(n, 1) = n % 128
           /\ Group(n, 2) = (n \div 128) % 128
           /\ Group(n, 3) = (n \div 16384) % 128
           /\ Group(n, 4) = (n \div (128 * 16384)) % 128
           /\ Group(n, 5) = (n \div (16384 * 16384)) % 16
<1>0. 2^28 = (16384 * 16384) /\ 2^7 = 128 /\ 2^14 = 16384 /\ 2^21 = (128 * 16384) /\ 2^0 = 1
  BY SMT
<1>1. n \div 1 = n
  BY SMT DEF Int32
<1> QED
  BY SMT, <1>0, <1>1 DEF Group

\* Groups of seven bits, of which the fifth holds the sign, sum up to the number.
LEMMA Digits ==
    ASSUME NEW n \in Int32, NEW d \in [1..5 -> Int],
           d[1] = n % 128, d[2] = (n \div 128) % 128, d[3] = (n \div 16384) % 128,
           d[4] = (n \div (128 * 16384)) % 128, d[5] = (n \div (16384 * 16384)) % 16
    PROVE  /\ 0 <= n /\ n < 128 => d[1] = n
           /\ 0 <= n /\ n < 16384 => d[1] + d[2] * 128 = n
           /\ 0 <= n /\ n < (128 * 16384) => d[1] + d[2] * 128 + d[3] * 16384 = n
           /\ 0 <= n /\ n < (16384 * 16384) =>
                  d[1] + d[2] * 128 + d[3] * 16384 + d[4] * (128 * 16384) = n
           /\ d[1] + d[2] * 128 + d[3] * 16384 + d[4] * (128 * 16384)
                + (d[5] - (IF d[5] >= 8 THEN 16 ELSE 0)) * (16384 * 16384) = n
<1>0. 2^30 = 1073741824
  BY SMT
<1>1. n \in Int /\ -(2^30) - 2^30 <= n /\ n <= 2^30 + (2^30 - 1)
  BY SMT, <1>0 DEF Int32
<1>2. 0 <= n /\ n < 128 => d[1] = n
  BY SMT, <1>1
<1>3. 0 <= n /\ n < 16384 => d[1] + d[2] * 128 = n
  BY SMT, <1>1
<1>4. 0 <= n /\ n < (128 * 16384) => d[1] + d[2] * 128 + d[3] * 16384 = n
  BY SMT, <1>1
<1>5. 0 <= n /\ n < (16384 * 16384) =>
                  d[1] + d[2] * 128 + d[3] * 16384 + d[4] * (128 * 16384) = n
  BY SMT, <1>1
<1>6. d[1] + d[2] * 128 + d[3] * 16384 + d[4] * (128 * 16384)
        + (d[5] - (IF d[5] >= 8 THEN 16 ELSE 0)) * (16384 * 16384) = n
  BY SMT, <1>0, <1>1
<1> QED
  BY SMT, <1>2, <1>3, <1>4, <1>5, <1>6

\* A group has seven bits, the fifth has four.
LEMMA GroupRange ==
    ASSUME NEW n \in Int32, NEW i \in 1..5
    PROVE  /\ Group(n, i) \in Int /\ 0 <= Group(n, i) /\ Group(n, i) <= 127
           /\ i = 5 => Group(n, i) <= 15
<1>0. 2^30 = 1073741824
  BY SMT
<1>1. n \in Int
  BY SMT, <1>0 DEF Int32
<1>2. /\ n \in Int /\ n \div 128 \in Int /\ n \div 16384 \in Int
      /\ n \div (128 * 16384) \in Int /\ n \div (16384 * 16384) \in Int
  BY SMT, <1>1
<1>3. i = 1 \/ i = 2 \/ i = 3 \/ i = 4 \/ i = 5
  OBVIOUS
<1>4. \A m \in Int : /\ m % 128 \in Int /\ 0 <= m % 128 /\ m % 128 <= 127
                      /\ m % 16 \in Int /\ 0 <= m % 16 /\ m % 16 <= 15
  BY SMT
<1>5. CASE i = 1
  BY SMT, <1>2, <1>4, <1>5, GroupValues
<1>6. CASE i = 2
  BY SMT, <1>2, <1>4, <1>6, GroupValues
<1>7. CASE i = 3
  BY SMT, <1>2, <1>4, <1>7, GroupValues
<1>8. CASE i = 4
  BY SMT, <1>2, <1>4, <1>8, GroupValues
<1>9. CASE i = 5
  BY SMT, <1>2, <1>4, <1>9, GroupValues
<1> QED
  BY <1>3, <1>5, <1>6, <1>7, <1>8, <1>9

\* A VarInt has one to five bytes.
LEMMA VarIntType ==
    ASSUME NEW n \in Int32
    PROVE  VarInt(n) \in Seq(Byte) /\ Len(VarInt(n)) = Groups(n) /\ Groups(n) \in 1..5
<1>1. Groups(n) \in 1..5
  BY GroupsBound
<1>2. ASSUME NEW i \in 1..Groups(n)
      PROVE  Group(n, i) + (IF i < Groups(n) THEN 128 ELSE 0) \in Byte
  <2>1. i \in 1..5
    BY <1>1
  <2>2. Group(n, i) \in Int /\ 0 <= Group(n, i) /\ Group(n, i) <= 127
    BY <2>1, GroupRange
  <2> QED
    BY <2>2, <1>1 DEF Byte
<1> QED
  BY <1>1, <1>2 DEF VarInt

\* What is left of a byte without its continuation bit, or of its last four bits.
LEMMA SevenBits ==
    /\ \A x \in Int : 0 <= x /\ x <= 127 => x % 128 = x /\ (x + 128) % 128 = x
    /\ \A x \in Int : 0 <= x /\ x <= 15 => x % 16 = x
BY SMT

\* What each of five digits is worth, of which the first k count.
Worth(d, k) ==
    [i \in 1..5 |-> IF i > k THEN 0
                    ELSE IF i < 5 THEN d[i] * 2^(7 * (i - 1))
                    ELSE (d[5] - (IF d[5] >= 8 THEN 16 ELSE 0)) * 2^28]

\* Bytes made of digits d, all but the last with the continuation bit, are a VarInt.
LEMMA DigitsParsed ==
    ASSUME NEW b \in Seq(Byte), NEW p \in Nat, NEW k \in 1..5, p + k <= Len(b),
           NEW d \in [1..5 -> Int], \A i \in 1..5 : 0 <= d[i] /\ d[i] <= 127, d[5] <= 15,
           \A i \in 1..k : b[p + i] = d[i] + (IF i < k THEN 128 ELSE 0)
    PROVE  /\ VarIntAt(b, p, p + k)
           /\ \A i \in 1..5 : Term(b, p, p + k, i) = Worth(d, k)[i]
<1>1. VarIntAt(b, p, p + k)
  <2>1. b[p + k] < 128
    <3>1. b[p + k] = d[k] + 0
      OBVIOUS
    <3>2. d[k] \in Int /\ d[k] <= 127
      OBVIOUS
    <3> QED
      BY <3>1, <3>2
  <2>2. ASSUME NEW i \in p + 1 .. p + k - 1 PROVE b[i] >= 128
    <3>1. i - p \in 1..k /\ i - p \in 1..5 /\ i - p < k /\ p + (i - p) = i
      OBVIOUS
    <3>2. b[p + (i - p)] = d[i - p] + 128
      BY <3>1
    <3>3. d[i - p] \in Int /\ 0 <= d[i - p]
      BY <3>1
    <3> QED
      BY <3>1, <3>2, <3>3
  <2> QED
    BY <2>1, <2>2 DEF VarIntAt
<1>2. ASSUME NEW i \in 1..5
      PROVE  Term(b, p, p + k, i) =
                 IF i > k THEN 0
                 ELSE IF i < 5 THEN d[i] * 2^(7 * (i - 1))
                 ELSE (d[5] - (IF d[5] >= 8 THEN 16 ELSE 0)) * 2^28
  <2>1. CASE i > k
    BY <2>1 DEF Term
  <2>2. CASE i <= k
    <3>1. Term(b, p, p + k, i) = Shifted(b[p + i], 7 * (i - 1))
      BY <2>2 DEF Term
    <3>2. b[p + i] = d[i] + (IF i < k THEN 128 ELSE 0)
      BY <2>2
    <3>3. CASE i < 5
      <4>1. b[p + i] % 128 = d[i]
        <5>1. d[i] \in Int /\ 0 <= d[i] /\ d[i] <= 127
          OBVIOUS
        <5>2. d[i] % 128 = d[i] /\ (d[i] + 128) % 128 = d[i]
          BY <5>1, SevenBits
        <5>3. b[p + i] = d[i] \/ b[p + i] = d[i] + 128
          BY <3>2, <5>1
        <5> QED
          BY <5>2, <5>3
      <4>2. 7 * (i - 1) < 28
        BY <3>3
      <4> QED
        BY <3>1, <4>1, <4>2, <2>2, <3>3 DEF Shifted
    <3>4. CASE i = 5
      <4>0. d[5] \in Int /\ 0 <= d[5] /\ d[5] <= 15 /\ ~(i < k)
        BY <3>4
      <4>1. b[p + i] = d[5]
        BY <3>2, <3>4, <4>0
      <4>2. d[5] % 16 = d[5]
        BY <4>0, SevenBits
      <4>3. Shifted(d[5], 28) = (d[5] - (IF d[5] >= 8 THEN 16 ELSE 0)) * 2^28
        BY <4>2 DEF Shifted
      <4>4. Shifted(b[p + i], 7 * (i - 1)) = Shifted(d[5], 28) /\ ~(i > k) /\ ~(i < 5)
        BY <4>1, <3>4, <2>2
      <4> QED
        BY <3>1, <3>4, <4>3, <4>4
    <3> QED
      BY <3>3, <3>4
  <2> QED
    BY <2>1, <2>2
<1> QED
  BY <1>1, <1>2 DEF Worth

\* The first Groups(n) digits of n are worth n.
LEMMA DigitSum ==
    ASSUME NEW n \in Int32, NEW d \in [1..5 -> Int], NEW k \in 1..5, k = Groups(n),
           \A i \in 1..5 : d[i] = Group(n, i)
    PROVE  n = d[1] + (IF k < 2 THEN 0 ELSE d[2] * 128) + (IF k < 3 THEN 0 ELSE d[3] * 16384)
                 + (IF k < 4 THEN 0 ELSE d[4] * (128 * 16384))
                 + (IF k < 5 THEN 0 ELSE (d[5] - (IF d[5] >= 8 THEN 16 ELSE 0)) * (16384 * 16384))
<1>1. n \in Int
  <2>1. 2^30 = 1073741824
    BY SMT
  <2> QED
    BY SMT, <2>1 DEF Int32
<1>2. /\ k = 1 => 0 <= n /\ n < 128
      /\ k = 2 => 0 <= n /\ n < 16384
      /\ k = 3 => 0 <= n /\ n < (128 * 16384)
      /\ k = 4 => 0 <= n /\ n < (16384 * 16384)
  BY SMT, <1>1, GroupsBound
<1>3. /\ d[1] = n % 128 /\ d[2] = (n \div 128) % 128 /\ d[3] = (n \div 16384) % 128
      /\ d[4] = (n \div (128 * 16384)) % 128 /\ d[5] = (n \div (16384 * 16384)) % 16
  BY SMT, GroupValues
<1>4. /\ 0 <= n /\ n < 128 => d[1] = n
      /\ 0 <= n /\ n < 16384 => d[1] + d[2] * 128 = n
      /\ 0 <= n /\ n < (128 * 16384) => d[1] + d[2] * 128 + d[3] * 16384 = n
      /\ 0 <= n /\ n < (16384 * 16384) =>
                  d[1] + d[2] * 128 + d[3] * 16384 + d[4] * (128 * 16384) = n
      /\ d[1] + d[2] * 128 + d[3] * 16384 + d[4] * (128 * 16384)
            + (d[5] - (IF d[5] >= 8 THEN 16 ELSE 0)) * (16384 * 16384) = n
  BY SMT, <1>3, Digits
<1> QED
  BY SMT, <1>1, <1>2, <1>4

\* The first k bytes of the VarInt of n are the digits d, which sum up to n.
Spells(d, k, n) ==
    /\ \A i \in 1..5 : 0 <= d[i] /\ d[i] <= 127
    /\ d[5] <= 15
    /\ \A i \in 1..k : VarInt(n)[i] = d[i] + (IF i < k THEN 128 ELSE 0)
    /\ Worth(d, k) \in [1..5 -> Int]
    /\ n = Worth(d, k)[1] + Worth(d, k)[2] + Worth(d, k)[3] + Worth(d, k)[4] + Worth(d, k)[5]

LEMMA VarIntDigits ==
    ASSUME NEW n \in Int32, NEW k \in 1..5, k = Groups(n)
    PROVE  \E d \in [1..5 -> Int] : Spells(d, k, n)
<1> DEFINE d == [i \in 1..5 |-> Group(n, i)]
           w == Worth(d, k)
<1>1. d \in [1..5 -> Int] /\ (\A i \in 1..5 : 0 <= d[i] /\ d[i] <= 127) /\ d[5] <= 15
  BY GroupRange
<1>2. \A i \in 1..k : VarInt(n)[i] = d[i] + (IF i < k THEN 128 ELSE 0)
  BY DEF VarInt
<1>3. \A i \in 1..5 : d[i] = Group(n, i)
  OBVIOUS
<1> HIDE DEF d
<1>4. n = d[1] + (IF k < 2 THEN 0 ELSE d[2] * 128) + (IF k < 3 THEN 0 ELSE d[3] * 16384)
               + (IF k < 4 THEN 0 ELSE d[4] * (128 * 16384))
               + (IF k < 5 THEN 0 ELSE (d[5] - (IF d[5] >= 8 THEN 16 ELSE 0)) * (16384 * 16384))
  BY SMT, <1>1, <1>3, DigitSum
<1>5. /\ w[1] = d[1] /\ w[2] = (IF k < 2 THEN 0 ELSE d[2] * 128)
      /\ w[3] = (IF k < 3 THEN 0 ELSE d[3] * 16384)
      /\ w[4] = (IF k < 4 THEN 0 ELSE d[4] * (128 * 16384))
      /\ w[5] = (IF k < 5 THEN 0 ELSE (d[5] - (IF d[5] >= 8 THEN 16 ELSE 0)) * (16384 * 16384))
  <2>1. 2^28 = 16384 * 16384 /\ 2^7 = 128 /\ 2^14 = 16384 /\ 2^21 = 128 * 16384 /\ 2^0 = 1
    BY SMT
  <2> QED
    BY SMT, <1>1, <2>1 DEF Worth
<1>6. w \in [1..5 -> Int]
  <2>1. w = [i \in 1..5 |-> w[i]]
    BY DEF Worth
  <2>2. w[1] \in Int /\ w[2] \in Int /\ w[3] \in Int /\ w[4] \in Int /\ w[5] \in Int
    BY SMT, <1>1, <1>5
  <2> HIDE DEF w
  <2>3. ASSUME NEW i \in 1..5 PROVE w[i] \in Int
    BY <2>2
  <2> QED
    BY <2>1, <2>3
<1> HIDE DEF w
<1>7. n = w[1] + w[2] + w[3] + w[4] + w[5]
  BY SMT, <1>4, <1>5
<1> QED
  BY <1>1, <1>2, <1>6, <1>7, Zenon DEF Spells, w

\* A number is read back from its VarInt, wherever that stands.
LEMMA VarIntParsed ==
    ASSUME NEW n \in Int32, NEW b \in Seq(Byte), NEW p \in Nat, NEW k \in 1..5,
           k = Groups(n), p + k <= Len(b), \A i \in 1..k : b[p + i] = VarInt(n)[i]
    PROVE  VarIntAt(b, p, p + k) /\ Number(b, p, p + k) = n
<1>1. PICK d \in [1..5 -> Int] : Spells(d, k, n)
  BY VarIntDigits, Zenon
<1> DEFINE w == Worth(d, k)
<1>2. /\ \A i \in 1..5 : 0 <= d[i] /\ d[i] <= 127
      /\ d[5] <= 15
      /\ \A i \in 1..k : b[p + i] = d[i] + (IF i < k THEN 128 ELSE 0)
  BY <1>1 DEF Spells
<1>3. w \in [1..5 -> Int] /\ n = w[1] + w[2] + w[3] + w[4] + w[5]
  BY <1>1, Zenon DEF Spells
<1>4. VarIntAt(b, p, p + k) /\ \A i \in 1..5 : Term(b, p, p + k, i) = w[i]
  BY <1>2, DigitsParsed
<1> HIDE DEF w
<1>5. Number(b, p, p + k) = w[1] + w[2] + w[3] + w[4] + w[5]
  <2>1. /\ w[1] \in Int /\ w[2] \in Int /\ w[3] \in Int /\ w[4] \in Int /\ w[5] \in Int
        /\ 1 \in 1..5 /\ 2 \in 1..5 /\ 3 \in 1..5 /\ 4 \in 1..5 /\ 5 \in 1..5
    BY <1>3
  <2> DEFINE q == p + k
  <2>2. /\ Term(b, p, q, 1) = w[1] /\ Term(b, p, q, 2) = w[2] /\ Term(b, p, q, 3) = w[3]
        /\ Term(b, p, q, 4) = w[4] /\ Term(b, p, q, 5) = w[5]
    BY <2>1, <1>4
  <2> HIDE DEF q
  <2>3. Number(b, p, q) = w[1] + w[2] + w[3] + w[4] + w[5]
    BY <2>2, Zenon DEF Number
  <2> QED
    BY <2>3 DEF q
<1> QED
  BY <1>3, <1>4, <1>5, Zenon

-----------------------------------------------------------------------------
(* The host name in an address.                                             *)

\* Capitals are undone, and make neither a NUL nor a dot.
LEMMA LowerUpper ==
    ASSUME NEW x \in HostBytes
    PROVE  /\ x \in Byte /\ x # Nul /\ Lower(x) = x
           /\ Upper(x) \in Byte /\ Upper(x) # Nul /\ Lower(Upper(x)) = x
           /\ Upper(x) = Dot <=> x = Dot
BY DEF HostBytes, Byte, Nul, Dot, Upper, Lower

\* The name as it is typed: no NUL is in it, and in small letters it is the host name.
LEMMA TypedName ==
    ASSUME NEW s \in HostNames, NEW u, u = Mapped(s, Upper) \/ u = s
    PROVE  /\ u \in Seq(Byte) /\ Len(u) = Len(s)
           /\ \A i \in 1..Len(u) : u[i] # Nul
           /\ u = <<>> \/ Last(u) # Dot
           /\ Mapped(u, Lower) = s
<1>1. s \in Seq(HostBytes) /\ (s = <<>> \/ Last(s) # Dot)
  BY DEF HostNames
<1> DEFINE n == Len(s)
<1>2. n \in Nat /\ DOMAIN s = 1..n /\ s = [i \in 1..n |-> s[i]]
  BY <1>1
<1>3. \A i \in 1..n : s[i] \in HostBytes
  BY <1>1
<1> HIDE DEF n
<1>4. u = [i \in 1..n |-> u[i]] /\ \A i \in 1..n : u[i] = Upper(s[i]) \/ u[i] = s[i]
  BY <1>2 DEF Mapped
<1>5. \A i \in 1..n : /\ u[i] \in Byte /\ u[i] # Nul /\ Lower(u[i]) = s[i]
                      /\ u[i] = Dot => s[i] = Dot
  <2> TAKE i \in 1..n
  <2>1. s[i] \in HostBytes /\ (u[i] = Upper(s[i]) \/ u[i] = s[i])
    BY <1>3, <1>4, Zenon
  <2>2. CASE u[i] = Upper(s[i])
    BY <2>1, <2>2, LowerUpper, Zenon
  <2>3. CASE u[i] = s[i]
    BY <2>1, <2>3, LowerUpper, Zenon
  <2> QED
    BY <2>1, <2>2, <2>3
<1>6. u \in Seq(Byte) /\ Len(u) = n /\ DOMAIN u = 1..n
  <2>1. u \in [1..n -> Byte]
    BY <1>4, <1>5
  <2> QED
    BY <1>2, <2>1
<1>7. u = <<>> \/ Last(u) # Dot
  <2>1. CASE n = 0
    BY <1>6, <2>1
  <2>2. CASE n # 0
    <3>1. n \in 1..n /\ s # <<>>
      BY <1>2, <2>2 DEF n
    <3>2. Last(s) = s[n] /\ Last(u) = u[n]
      BY <1>6 DEF Last, n
    <3> QED
      BY <1>1, <1>5, <3>1, <3>2, Zenon
  <2> QED
    BY <2>1, <2>2
<1>8. Mapped(u, Lower) = s
  BY <1>2, <1>5, <1>6 DEF Mapped
<1> QED
  BY <1>5, <1>6, <1>7, <1>8 DEF n

\* Forge's suffix is cut off, and nothing is where there is none.
LEMMA CutWithNul ==
    ASSUME NEW s \in Seq(Byte), \A i \in 1..Len(s) : s[i] # Nul, NEW t \in Seq(Byte),
           t = <<>> \/ t = <<Nul, 70, Dot>>
    PROVE  CutAtNul(s \o t) = s
<1> DEFINE a == s \o t
           I == {i \in 1..Len(a) : IsNul(a[i])}
<1>1. /\ Len(s) \in Nat /\ Len(t) \in Nat /\ a \in Seq(Byte) /\ Len(a) = Len(s) + Len(t)
      /\ \A i \in 1..Len(s) : a[i] = s[i]
      /\ \A i \in 1..Len(t) : a[Len(s) + i] = t[i]
  OBVIOUS
<1>2. SelectInSeq(a, IsNul) = IF I # {} THEN Min(I) ELSE 0
  BY DEF SelectInSeq
<1> HIDE DEF a
<1>3. CASE t = <<>>
  <2>1. I = {}
    BY <1>1, <1>3 DEF IsNul
  <2>2. a = s
    BY <1>3 DEF a
  <2> QED
    BY <1>2, <2>1, <2>2 DEF CutAtNul, a
<1>4. CASE t = <<Nul, 70, Dot>>
  <2> DEFINE m == Len(s) + 1
  <2>1. Len(t) = 3 /\ t[1] = Nul
    BY <1>4
  <2>2. m \in I /\ \A i \in I : m <= i
    <3>1. m \in 1..Len(a) /\ IsNul(a[m])
      BY <1>1, <2>1 DEF IsNul
    <3>2. ASSUME NEW i \in 1..Len(a), IsNul(a[i]) PROVE m <= i
      BY <1>1, <3>2 DEF IsNul
    <3> QED
      BY <3>1, <3>2
  <2>3. \A i \in I : i \in Nat
    BY <1>1
  <2> HIDE DEF I, m
  <2>4. Min(I) = m
    <3>1. Min(I) \in I /\ \A i \in I : Min(I) <= i
      BY <2>2 DEF Min
    <3> QED
      BY <2>2, <2>3, <3>1
  <2>5. SelectInSeq(a, IsNul) = m
    BY <1>2, <2>2, <2>4
  <2>6. m # 0 /\ m - 1 = Len(s)
    BY <1>1 DEF m
  <2>7. SubSeq(a, 1, Len(s)) = s
    <3>1. SubSeq(a, 1, Len(s)) \in Seq(Byte) /\ Len(SubSeq(a, 1, Len(s))) = Len(s)
      BY <1>1
    <3>2. \A i \in 1..Len(s) : SubSeq(a, 1, Len(s))[i] = s[i]
      BY <1>1
    <3> QED
      BY <3>1, <3>2, SeqEqual
  <2> QED
    BY <2>5, <2>6, <2>7 DEF CutAtNul, a
<1> QED
  BY <1>3, <1>4

\* The router finds the host name again in any address that a game sends for it.
LEMMA HostnameOfAddress ==
    ASSUME NEW h, IsHandshake(h)
    PROVE  Hostname(Address(h)) = h.host /\ Address(h) \in Seq(Byte)
<1> DEFINE u == IF h.upper THEN Mapped(h.host, Upper) ELSE h.host
           d == IF h.dot THEN <<Dot>> ELSE <<>>
           f == IF h.forge THEN <<Nul, 70, Dot>> ELSE <<>>
           s == u \o d
<1>1. /\ u \in Seq(Byte) /\ Len(u) = Len(h.host)
      /\ \A i \in 1..Len(u) : u[i] # Nul
      /\ u = <<>> \/ Last(u) # Dot
      /\ Mapped(u, Lower) = h.host
  <2>1. h.host \in HostNames /\ (u = Mapped(h.host, Upper) \/ u = h.host)
    BY DEF IsHandshake
  <2> HIDE DEF u
  <2> QED
    BY <2>1, TypedName, Zenon
<1>2. Address(h) = s \o f
  BY DEF Address
<1>b. Nul \in Byte /\ 70 \in Byte /\ Dot \in Byte
  BY DEF Byte, Nul, Dot
<1>3. d \in Seq(Byte) /\ (d = <<>> \/ d = <<Dot>>)
  BY <1>b
<1>4. f \in Seq(Byte) /\ (f = <<>> \/ f = <<Nul, 70, Dot>>)
  BY <1>b
<1> HIDE DEF u, d, f
<1>5. s \in Seq(Byte) /\ \A i \in 1..Len(s) : s[i] # Nul
  BY <1>1, <1>3 DEF Dot, Nul
<1>6. TrimDot(s) = u
  <2>1. CASE d = <<>>
    <3>1. s = u
      BY <1>1, <2>1
    <3> QED
      BY <1>1, <3>1 DEF TrimDot
  <2>2. CASE d = <<Dot>>
    <3>1. s # <<>> /\ Last(s) = Dot /\ Front(s) = u
      BY <1>1, <2>2 DEF Last, Front
    <3> QED
      BY <3>1 DEF TrimDot
  <2> QED
    BY <1>3, <2>1, <2>2
<1> HIDE DEF s
<1>7. CutAtNul(s \o f) = s
  BY <1>4, <1>5, CutWithNul
<1> QED
  BY <1>1, <1>2, <1>4, <1>5, <1>6, <1>7 DEF Hostname

-----------------------------------------------------------------------------
(* What a game sends is a handshake for the host name it means.             *)

\* The bytes of b are a handshake for host name name.
Names(b, name) ==
    \E p, q \in 0..Len(b) : AddressAt(b, p, q) /\ name = Hostname(SubSeq(b, p + 1, q))

\* Sequence w stands in b right after offset p.
StandsAt(b, p, w) ==
    p + Len(w) <= Len(b) /\ \A i \in 1..Len(w) : b[p + i] = w[i]

\* The second part of a stream stands after its first.
LEMMA StandsLast ==
    ASSUME NEW s \in Seq(Byte), NEW w \in Seq(Byte)
    PROVE  StandsAt(s \o w, Len(s), w)
<1>1. /\ s \o w \in Seq(Byte) /\ Len(s \o w) = Len(s) + Len(w)
      /\ \A i \in 1..Len(s) + Len(w) :
             (s \o w)[i] = IF i <= Len(s) THEN s[i] ELSE w[i - Len(s)]
  BY ConcatProperties, Zenon
<1> DEFINE b == s \o w
<1> HIDE DEF b
<1>2. Len(s) \in Nat /\ Len(w) \in Nat
  OBVIOUS
<1>3. ASSUME NEW i \in 1..Len(w) PROVE b[Len(s) + i] = w[i]
  <2>1. /\ Len(s) + i \in 1..Len(s) + Len(w) /\ ~(Len(s) + i <= Len(s))
        /\ (Len(s) + i) - Len(s) = i
    BY <1>2
  <2>2. b[Len(s) + i] = w[(Len(s) + i) - Len(s)]
    BY <1>1, <2>1, Zenon DEF b
  <2> QED
    BY <2>1, <2>2
<1> QED
  BY <1>1, <1>2, <1>3 DEF StandsAt, b

\* What stands in a stream stands there still when more follows.
LEMMA StandsEarlier ==
    ASSUME NEW s \in Seq(Byte), NEW t \in Seq(Byte), NEW p \in Nat, NEW w \in Seq(Byte),
           StandsAt(s, p, w)
    PROVE  StandsAt(s \o t, p, w)
<1>1. /\ s \o t \in Seq(Byte) /\ Len(s \o t) = Len(s) + Len(t)
      /\ \A i \in 1..Len(s) + Len(t) :
             (s \o t)[i] = IF i <= Len(s) THEN s[i] ELSE t[i - Len(s)]
  BY ConcatProperties, Zenon
<1>2. Len(s) \in Nat /\ Len(w) \in Nat /\ Len(t) \in Nat
  OBVIOUS
<1>3. p + Len(w) <= Len(s) /\ \A i \in 1..Len(w) : s[p + i] = w[i]
  BY DEF StandsAt
<1> DEFINE b == s \o t
<1> HIDE DEF b
<1>4. ASSUME NEW i \in 1..Len(w) PROVE b[p + i] = w[i]
  <2>1. p + i \in 1..Len(s) + Len(t) /\ p + i <= Len(s)
    BY <1>2, <1>3
  <2>2. b[p + i] = s[p + i]
    BY <1>1, <2>1, Zenon DEF b
  <2> QED
    BY <1>3, <2>2
<1> QED
  BY <1>1, <1>2, <1>3, <1>4 DEF StandsAt, b

\* A VarInt that stands in b is read as its number.
LEMMA VarIntStands ==
    ASSUME NEW b \in Seq(Byte), NEW p \in Nat, NEW n \in Int32, StandsAt(b, p, VarInt(n))
    PROVE  VarIntAt(b, p, p + Groups(n)) /\ Number(b, p, p + Groups(n)) = n
<1>1. Groups(n) \in 1..5 /\ Len(VarInt(n)) = Groups(n)
  BY VarIntType
<1> DEFINE k == Groups(n)
<1>2. k \in 1..5 /\ p + k <= Len(b) /\ \A i \in 1..k : b[p + i] = VarInt(n)[i]
  BY <1>1, Zenon DEF StandsAt
<1> QED
  BY <1>2, VarIntParsed, Zenon

\* Where the parts of what a game sends stand.
LEMMA BytesLayout ==
    ASSUME NEW h, IsHandshake(h)
    PROVE  \E p1, p2, p3, p4 \in Nat :
               /\ Bytes(h) \in Seq(Byte)
               /\ p1 <= p2 /\ p2 <= p3 /\ p3 <= p4
               /\ VarIntAt(Bytes(h), 0, p1) /\ Number(Bytes(h), 0, p1) = h.length
               /\ VarIntAt(Bytes(h), p1, p2) /\ Number(Bytes(h), p1, p2) = h.id
               /\ VarIntAt(Bytes(h), p2, p3) /\ Number(Bytes(h), p2, p3) = h.version
               /\ VarIntAt(Bytes(h), p3, p4) /\ Number(Bytes(h), p3, p4) = AddrLen(h)
               /\ Len(Bytes(h)) = p4 + Len(Address(h)) + Len(Remainder)
               /\ SubSeq(Bytes(h), p4 + 1, p4 + Len(Address(h))) = Address(h)
<1> DEFINE v1 == VarInt(h.length)
           v2 == VarInt(h.id)
           v3 == VarInt(h.version)
           v4 == VarInt(AddrLen(h))
           a  == Address(h)
           r  == Remainder
           b2 == v1 \o v2
           b3 == b2 \o v3
           b4 == b3 \o v4
           b5 == b4 \o a
           b  == b5 \o r
           p1 == Groups(h.length)
           p2 == p1 + Groups(h.id)
           p3 == p2 + Groups(h.version)
           p4 == p3 + Groups(AddrLen(h))
<1>1. h.length \in Int32 /\ h.id \in Int32 /\ h.version \in Int32 /\ AddrLen(h) \in Int32
  BY DEF IsHandshake
<1>2. Bytes(h) = b
  BY DEF Bytes
<1>3. /\ v1 \in Seq(Byte) /\ Len(v1) = Groups(h.length) /\ Groups(h.length) \in Nat
      /\ v2 \in Seq(Byte) /\ Len(v2) = Groups(h.id) /\ Groups(h.id) \in Nat
      /\ v3 \in Seq(Byte) /\ Len(v3) = Groups(h.version) /\ Groups(h.version) \in Nat
      /\ v4 \in Seq(Byte) /\ Len(v4) = Groups(AddrLen(h)) /\ Groups(AddrLen(h)) \in Nat
  <2>1. \A i \in 1..5 : i \in Nat
    OBVIOUS
  <2> QED
    BY <1>1, <2>1, VarIntType, Zenon
<1>4. a \in Seq(Byte)
  BY HostnameOfAddress
<1>5. r \in Seq(Byte)
  <2>1. 99 \in Byte /\ 221 \in Byte /\ 2 \in Byte /\ 16 \in Byte
    BY DEF Byte
  <2> QED
    BY <2>1 DEF Remainder
<1>6. p1 \in Nat /\ p2 \in Nat /\ p3 \in Nat /\ p4 \in Nat /\ p1 <= p2 /\ p2 <= p3 /\ p3 <= p4
  BY <1>3
<1> HIDE DEF v1, v2, v3, v4, a, r
<1>7. \A s \in Seq(Byte), t \in Seq(Byte) : s \o t \in Seq(Byte) /\ Len(s \o t) = Len(s) + Len(t)
  BY ConcatProperties, Zenon
<1>8. /\ b2 \in Seq(Byte) /\ b3 \in Seq(Byte) /\ b4 \in Seq(Byte) /\ b5 \in Seq(Byte)
      /\ b \in Seq(Byte)
  BY <1>3, <1>4, <1>5, <1>7, Zenon
<1> HIDE DEF b2, b3, b4, b5, b, p1, p2, p3, p4
<1>9. /\ Len(v1) = p1 /\ Len(b2) = p2 /\ Len(b3) = p3 /\ Len(b4) = p4
      /\ Len(b5) = p4 + Len(a) /\ Len(b) = p4 + Len(a) + Len(r)
  <2>1. Len(v1) = p1 /\ Len(b2) = p2
    BY <1>3, <1>7, Zenon DEF b2, p1, p2
  <2>2. Len(b3) = p3
    <3>1. Len(b2 \o v3) = Len(b2) + Len(v3)
      BY <1>3, <1>7, <1>8, Zenon
    <3> QED
      BY <1>3, <2>1, <3>1, Zenon DEF b3, p3
  <2>3. Len(b4) = p4
    <3>1. Len(b3 \o v4) = Len(b3) + Len(v4)
      BY <1>3, <1>7, <1>8, Zenon
    <3> QED
      BY <1>3, <2>2, <3>1, Zenon DEF b4, p4
  <2>4. Len(b5) = p4 + Len(a)
    BY <1>4, <1>7, <1>8, <2>3, Zenon DEF b5
  <2>5. Len(b) = p4 + Len(a) + Len(r)
    BY <1>5, <1>7, <1>8, <2>4, Zenon DEF b
  <2> QED
    BY <2>1, <2>2, <2>3, <2>4, <2>5
<1>10. StandsAt(v1, 0, v1)
  <2>1. Len(v1) \in Nat
    BY <1>3
  <2> QED
    BY <2>1 DEF StandsAt
<1>11. StandsAt(b2, 0, v1) /\ StandsAt(b2, p1, v2)
  <2>1. 0 \in Nat
    OBVIOUS
  <2> QED
    BY <1>3, <1>9, <1>10, <2>1, StandsLast, StandsEarlier, Zenon DEF b2
<1>12. StandsAt(b3, 0, v1) /\ StandsAt(b3, p1, v2) /\ StandsAt(b3, p2, v3)
  <2>1. 0 \in Nat
    OBVIOUS
  <2> QED
    BY <1>3, <1>6, <1>8, <1>9, <1>11, <2>1, StandsLast, StandsEarlier, Zenon DEF b3
<1>13. StandsAt(b4, 0, v1) /\ StandsAt(b4, p1, v2) /\ StandsAt(b4, p2, v3) /\ StandsAt(b4, p3, v4)
  <2>1. 0 \in Nat
    OBVIOUS
  <2> QED
    BY <1>3, <1>6, <1>8, <1>9, <1>12, <2>1, StandsLast, StandsEarlier, Zenon DEF b4
<1>14. /\ StandsAt(b5, 0, v1) /\ StandsAt(b5, p1, v2) /\ StandsAt(b5, p2, v3)
       /\ StandsAt(b5, p3, v4) /\ StandsAt(b5, p4, a)
  <2>1. 0 \in Nat
    OBVIOUS
  <2> QED
    BY <1>3, <1>4, <1>6, <1>8, <1>9, <1>13, <2>1, StandsLast, StandsEarlier, Zenon DEF b5
<1>15. /\ StandsAt(b, 0, v1) /\ StandsAt(b, p1, v2) /\ StandsAt(b, p2, v3)
       /\ StandsAt(b, p3, v4) /\ StandsAt(b, p4, a)
  <2>1. 0 \in Nat
    OBVIOUS
  <2> QED
    BY <1>3, <1>4, <1>5, <1>6, <1>8, <1>14, <2>1, StandsEarlier, Zenon DEF b
<1>16. VarIntAt(b, 0, p1) /\ Number(b, 0, p1) = h.length
  <2>1. 0 \in Nat /\ 0 + Groups(h.length) = p1
    BY <1>3 DEF p1
  <2> QED
    BY <1>1, <1>8, <1>15, <2>1, VarIntStands DEF v1
<1>17. VarIntAt(b, p1, p2) /\ Number(b, p1, p2) = h.id
  BY <1>1, <1>6, <1>8, <1>15, VarIntStands, Zenon DEF v2, p2
<1>18. VarIntAt(b, p2, p3) /\ Number(b, p2, p3) = h.version
  BY <1>1, <1>6, <1>8, <1>15, VarIntStands, Zenon DEF v3, p3
<1>19. VarIntAt(b, p3, p4) /\ Number(b, p3, p4) = AddrLen(h)
  BY <1>1, <1>6, <1>8, <1>15, VarIntStands, Zenon DEF v4, p4
<1>20. SubSeq(b, p4 + 1, p4 + Len(a)) = a
  <2> DEFINE c == SubSeq(b, p4 + 1, p4 + Len(a))
  <2>1. Len(a) \in Nat /\ p4 \in Nat /\ p4 + Len(a) <= Len(b)
    BY <1>4, <1>6, <1>15 DEF StandsAt
  <2>2. c \in Seq(Byte) /\ Len(c) = Len(a) /\ \A i \in 1..Len(a) : c[i] = b[p4 + i]
    BY <1>8, <2>1
  <2>3. \A i \in 1..Len(a) : b[p4 + i] = a[i]
    BY <1>15 DEF StandsAt
  <2> HIDE DEF c
  <2>4. c = a
    BY <1>4, <2>2, <2>3, SeqEqual
  <2> QED
    BY <2>4 DEF c
<1> QED
  BY <1>2, <1>6, <1>8, <1>9, <1>16, <1>17, <1>18, <1>19, <1>20, Zenon DEF a, r

\* A connection's bytes spell at most the host name they mean, and spell it if they
\* mean one.
LEMMA InputSpells ==
    ASSUME NEW i \in Inputs
    PROVE  /\ i.bytes \in Seq(Byte)
           /\ \A name : Names(i.bytes, name) => name = i.host
           /\ i.host # <<>> => Names(i.bytes, i.host)
<1>1. CASE \E g \in Garbage : i = [bytes |-> g, host |-> <<>>]
  <2>1. PICK g \in Garbage : i = [bytes |-> g, host |-> <<>>]
    BY <1>1
  <2>2. /\ g \in Seq(Byte)
        /\ \A p, q \in 0..Len(g) : AddressAt(g, p, q) => Hostname(SubSeq(g, p + 1, q)) = <<>>
    BY HandshakeAssumption, Zenon
  <2>3. i.bytes = g /\ i.host = <<>>
    BY <2>1
  <2> QED
    BY <2>2, <2>3, Zenon DEF Names
<1>2. CASE \E h \in Handshakes :
               i = [bytes |-> Bytes(h), host |-> IF Proper(h) THEN h.host ELSE <<>>]
  <2>1. PICK h \in Handshakes :
                 i = [bytes |-> Bytes(h), host |-> IF Proper(h) THEN h.host ELSE <<>>]
    BY <1>2
  <2> DEFINE b == Bytes(h)
             n == Len(Address(h))
  <2>2. i.bytes = b /\ i.host = IF Proper(h) THEN h.host ELSE <<>>
    BY <2>1
  <2>3. IsHandshake(h)
    BY HandshakeAssumption, Zenon
  <2>4. Hostname(Address(h)) = h.host /\ n \in Nat
    BY <2>3, HostnameOfAddress
  <2>5. PICK p1 \in Nat, p2 \in Nat, p3 \in Nat, p4 \in Nat :
            /\ b \in Seq(Byte)
            /\ p1 <= p2 /\ p2 <= p3 /\ p3 <= p4
            /\ VarIntAt(b, 0, p1) /\ Number(b, 0, p1) = h.length
            /\ VarIntAt(b, p1, p2) /\ Number(b, p1, p2) = h.id
            /\ VarIntAt(b, p2, p3) /\ Number(b, p2, p3) = h.version
            /\ VarIntAt(b, p3, p4) /\ Number(b, p3, p4) = AddrLen(h)
            /\ Len(b) = p4 + n + Len(Remainder)
            /\ SubSeq(b, p4 + 1, p4 + n) = Address(h)
    BY <2>3, BytesLayout, Zenon
  <2>6. Len(Remainder) = 4
    BY DEF Remainder
  <2> HIDE DEF b, n
  <2>7. /\ 0 \in Nat /\ 0 \in 0..Len(b) /\ p1 \in 0..Len(b) /\ p2 \in 0..Len(b)
        /\ p3 \in 0..Len(b) /\ p4 \in 0..Len(b) /\ p4 + n \in 0..Len(b)
    BY <2>4, <2>5, <2>6
  <2>8. ASSUME h.length \in 1..mcMaxPacketLen, h.id = 0 PROVE AddrLenAt(b, p3)
    <3>1. IdAt(b, p1)
      BY <2>5, <2>8 DEF IdAt, NumberAt, Plausible
    <3>2. VersionAt(b, p2)
      <4>1. NumberAt(b, "id", p1, p2)
        BY <2>5, <2>8 DEF NumberAt, Plausible
      <4> QED
        BY <2>7, <3>1, <4>1, Zenon DEF VersionAt
    <3>3. NumberAt(b, "version", p2, p3)
      BY <2>5 DEF NumberAt, Plausible
    <3> QED
      BY <2>7, <3>2, <3>3, Zenon DEF AddrLenAt
  <2>9. CASE Proper(h)
    <3>1. h.length \in 1..mcMaxPacketLen /\ h.id = 0 /\ AddrLen(h) = n /\ n <= mcMaxAddressLen
      BY <2>9 DEF Proper, AddrLen, n
    <3>2. NumberAt(b, "addrLen", p3, p4)
      BY <2>4, <2>5, <3>1 DEF NumberAt, Plausible
    <3>3. AddressAt(b, p4, p4 + n)
      <4>1. p4 + n <= Len(b) /\ p4 + n = p4 + Number(b, p3, p4)
        BY <2>4, <2>5, <2>6, <3>1
      <4> QED
        BY <2>7, <2>8, <3>1, <3>2, <4>1, Zenon DEF AddressAt
    <3>4. Names(b, h.host)
      BY <2>4, <2>5, <2>7, <3>3, Zenon DEF Names
    <3>5. ASSUME NEW name, Names(b, name) PROVE name = h.host
      <4>1. PICK p \in 0..Len(b), q \in 0..Len(b) :
                AddressAt(b, p, q) /\ name = Hostname(SubSeq(b, p + 1, q))
        BY <3>5, Zenon DEF Names
      <4>2. p = p4 /\ q = p4 + n
        BY <2>5, <3>3, <4>1, AddressOnce, Zenon
      <4> QED
        BY <2>4, <2>5, <4>1, <4>2, Zenon
    <3> QED
      BY <2>2, <2>5, <2>9, <3>4, <3>5, Zenon
  <2>10. CASE ~Proper(h)
    <3>1. \A q, r : ~AddressAt(b, q, r)
      <4>1. CASE h.length \notin 1..mcMaxPacketLen
        <5>1. h.length \in Int
          <6>1. 2^30 = 1073741824
            BY SMT
          <6>2. h.length \in Int32
            BY <2>3 DEF IsHandshake
          <6> QED
            BY SMT, <6>1, <6>2 DEF Int32
        <5>2. ~Plausible("length", h.length)
          <6>1. ~(0 < h.length /\ h.length <= mcMaxPacketLen)
            <7>1. \A x \in Int : 0 < x /\ x <= mcMaxPacketLen => x \in 1..mcMaxPacketLen
              BY DEF mcMaxPacketLen
            <7> QED
              BY <4>1, <5>1, <7>1, Zenon
          <6> QED
            BY <6>1 DEF Plausible
        <5>3. ASSUME NEW q, NumberAt(b, "length", 0, q) PROVE FALSE
          BY <2>5, <2>7, <5>2, <5>3, VarIntEndsOnce, Zenon DEF NumberAt
        <5>4. FieldAt(b, "length", 0)
          BY DEF FieldAt
        <5> QED
          BY <2>5, <5>3, <5>4, NoAddress, Zenon
      <4>2. CASE h.length \in 1..mcMaxPacketLen /\ h.id # 0
        <5>1. FieldAt(b, "id", p1)
          BY <2>5, <4>2 DEF FieldAt, IdAt, NumberAt, Plausible
        <5>2. ~Plausible("id", h.id)
          BY <4>2 DEF Plausible
        <5>3. ASSUME NEW q, NumberAt(b, "id", p1, q) PROVE FALSE
          BY <2>5, <5>2, <5>3, VarIntEndsOnce, Zenon DEF NumberAt
        <5> QED
          BY <2>5, <5>1, <5>3, NoAddress, Zenon
      <4>3. CASE h.length \in 1..mcMaxPacketLen /\ h.id = 0
        <5>1. FieldAt(b, "addrLen", p3) /\ AddrLenAt(b, p3)
          BY <2>8, <4>3 DEF FieldAt
        <5>2. \/ AddrLen(h) \notin 0..n + 4
              \/ AddrLen(h) = n /\ ~(n <= mcMaxAddressLen)
          <6>1. CASE h.addrLen = 0
            <7>1. AddrLen(h) = n /\ ~(n <= mcMaxAddressLen)
              BY <2>10, <4>3, <6>1, Zenon DEF Proper, AddrLen, n
            <7> QED
              BY <7>1, Zenon
          <6>2. CASE h.addrLen # 0
            <7>1. AddrLen(h) \notin 0..n + Len(Remainder)
              BY <2>3, <6>2, Zenon DEF IsHandshake, AddrLen, n
            <7> QED
              BY <2>6, <7>1, Zenon
          <6> QED
            BY <6>1, <6>2, Zenon
        <5>3. SUFFICES ASSUME NEW q, NEW r, AddressAt(b, q, r) PROVE FALSE
          OBVIOUS
        <5>4. PICK o \in 0..Len(b) :
                  /\ AddrLenAt(b, o) /\ NumberAt(b, "addrLen", o, q)
                  /\ r = q + Number(b, o, q) /\ r <= Len(b)
          BY <5>3, Zenon DEF AddressAt
        <5>5. o = p3
          BY <2>5, <5>1, <5>4, FieldAtOnce, Zenon DEF FieldAt
        <5>6. q = p4
          BY <2>5, <5>4, <5>5, VarIntEndsOnce, Zenon DEF NumberAt
        <5>7. Plausible("addrLen", AddrLen(h)) /\ r = p4 + AddrLen(h)
          BY <2>5, <5>4, <5>5, <5>6, Zenon DEF NumberAt
        <5>8. AddrLen(h) \in Int
          <6>1. 2^30 = 1073741824
            BY SMT
          <6>2. AddrLen(h) \in Int32
            BY <2>3 DEF IsHandshake
          <6> QED
            BY SMT, <6>1, <6>2 DEF Int32
        <5>9. 0 <= AddrLen(h) /\ AddrLen(h) <= mcMaxAddressLen
          BY <5>7 DEF Plausible
        <5>10. AddrLen(h) > n + 4
          BY <2>4, <5>2, <5>8, <5>9
        <5> QED
          BY <2>4, <2>5, <2>6, <5>4, <5>7, <5>8, <5>10
      <4> QED
        BY <4>1, <4>2, <4>3
    <3> QED
      BY <2>2, <2>5, <2>10, <3>1, Zenon DEF Names
  <2> QED
    BY <2>9, <2>10
<1> QED
  BY <1>1, <1>2 DEF Inputs

-----------------------------------------------------------------------------
(* Replay and relay.                                                        *)

\* What was read is a part of what is sent; a connection that is still parsed has
\* reached no target; a target has got everything read and nothing else.
StreamInv ==
    /\ input \in Inputs
    /\ read \in 0..Len(input.bytes)
    /\ outcome = "parsing" => out = <<>>
    /\ out = <<>> \/ out = SubSeq(input.bytes, 1, read)

\* Two adjoining pieces of a sequence are one piece of it.
LEMMA AdjoiningPieces ==
    ASSUME NEW S, NEW s \in Seq(S), NEW m \in Nat, NEW n \in Nat, m <= n, n <= Len(s)
    PROVE  SubSeq(s, 1, m) \o SubSeq(s, m + 1, n) = SubSeq(s, 1, n)
<1> DEFINE a == SubSeq(s, 1, m)
           b == SubSeq(s, m + 1, n)
           u == a \o b
           v == SubSeq(s, 1, n)
<1>1. a \in Seq(S) /\ Len(a) = m /\ \A i \in 1..m : a[i] = s[i]
  OBVIOUS
<1>2. b \in Seq(S) /\ Len(b) = n - m /\ \A i \in 1..n - m : b[i] = s[m + i]
  OBVIOUS
<1>3. v \in Seq(S) /\ Len(v) = n /\ \A i \in 1..n : v[i] = s[i]
  OBVIOUS
<1> HIDE DEF a, b, v
<1>4. /\ u \in Seq(S) /\ Len(u) = m + (n - m)
      /\ \A i \in 1..m + (n - m) : u[i] = IF i <= m THEN a[i] ELSE b[i - m]
  <2>1. a \in Seq(S) /\ b \in Seq(S)
    BY <1>1, <1>2
  <2>2. /\ u \in Seq(S) /\ Len(u) = Len(a) + Len(b)
        /\ \A i \in 1..Len(a) + Len(b) : u[i] = IF i <= Len(a) THEN a[i] ELSE b[i - Len(a)]
    BY <2>1, ConcatProperties, Zenon
  <2> HIDE DEF u
  <2> QED
    BY <1>1, <1>2, <2>2
<1>5. ASSUME NEW i \in 1..n PROVE u[i] = s[i]
  <2> HIDE DEF u
  <2>1. u[i] = IF i <= m THEN a[i] ELSE b[i - m]
    BY <1>4
  <2>2. CASE i <= m
    BY <1>1, <2>1, <2>2
  <2>3. CASE ~(i <= m)
    <3>1. i - m \in 1..n - m /\ m + (i - m) = i
      BY <2>3
    <3> QED
      BY <1>2, <2>1, <2>3, <3>1
  <2> QED
    BY <2>2, <2>3
<1> HIDE DEF u
<1>6. u = v
  <2>1. m + (n - m) = n
    OBVIOUS
  <2>2. /\ u \in Seq(S) /\ v \in Seq(S) /\ Len(u) = Len(v)
        /\ \A i \in 1..Len(u) : u[i] = v[i]
    BY <2>1, <1>3, <1>4, <1>5
  <2> QED
    BY <2>2, SeqEqual
<1> QED
  BY <1>6 DEF u, v, a, b

\* However a connection's bytes are split into reads, and however far the router
\* reads ahead of its parser, the tunnel's target receives what the player sent,
\* from the first byte on, nothing lost, doubled or moved.
THEOREM StreamArrivesWhole == RouterSpec => []StreamPreserved
<1> USE DEF parser, result
<1>0. \A i \in Inputs : i.bytes \in Seq(Byte) /\ Len(i.bytes) \in Nat
  BY InputSpells
<1>1. RouterInit => StreamInv
  BY <1>0 DEF RouterInit, StreamInv
<1>2. StreamInv /\ [RouterNext]_routerVars => StreamInv'
  <2> SUFFICES ASSUME StreamInv, [RouterNext]_routerVars PROVE StreamInv'
    OBVIOUS
  <2>0. input.bytes \in Seq(Byte) /\ Len(input.bytes) \in Nat
    BY <1>0 DEF StreamInv
  <2>1. CASE Fill
    BY <2>0, <2>1 DEF Fill, StreamInv
  <2>2. CASE ReadFails \/ ReadAddress \/ Route \/ ToggleTunnel
    BY <2>2 DEF ReadFails, ReadAddress, Route, ToggleTunnel, StreamInv
  <2>3. CASE ReadVarInt
    BY <2>3 DEF ReadVarInt, StreamInv
  <2>4. CASE Replay
    BY <2>4 DEF Replay, StreamInv
  <2>5. CASE Relay
    <3>1. PICK n \in 1..(Len(input.bytes) - read) :
              /\ read' = read + n
              /\ out' = out \o SubSeq(input.bytes, read + 1, read + n)
      BY <2>5 DEF Relay
    <3>2. /\ read \in Nat /\ read + n \in Nat
          /\ read <= read + n /\ read + n <= Len(input.bytes)
      BY <2>0, <3>1 DEF StreamInv
    <3>3. out' = SubSeq(input.bytes, 1, read + n)
      BY <2>0, <2>5, <3>1, <3>2, AdjoiningPieces DEF Relay, StreamInv
    <3>4. UNCHANGED <<input, outcome>> /\ outcome = "proxied"
      BY <2>5 DEF Relay
    <3>5. read + n \in 0..Len(input.bytes)
      BY <3>2
    <3> QED
      BY <3>1, <3>3, <3>4, <3>5 DEF StreamInv
  <2>6. CASE UNCHANGED routerVars
    BY <2>6 DEF routerVars, StreamInv
  <2> QED
    BY <2>1, <2>2, <2>3, <2>4, <2>5, <2>6 DEF RouterNext, Handle
<1>3. StreamInv => StreamPreserved
  <2> SUFFICES ASSUME StreamInv PROVE StreamPreserved
    OBVIOUS
  <2>1. input.bytes \in Seq(Byte) /\ read \in Nat /\ read <= Len(input.bytes)
    BY <1>0 DEF StreamInv
  <2>2. CASE out = <<>>
    BY <2>1, <2>2 DEF StreamPreserved, IsPrefix
  <2>3. CASE out = SubSeq(input.bytes, 1, read)
    <3>1. Len(out) = read /\ SubSeq(out, 1, Len(out)) = out
      BY <2>1, <2>3
    <3> QED
      BY <2>1, <2>3, <3>1 DEF StreamPreserved, IsPrefix
  <2> QED
    BY <2>2, <2>3 DEF StreamInv
<1> QED
  BY <1>1, <1>2, <1>3, PTL DEF RouterSpec

-----------------------------------------------------------------------------
(* Parsing and routing.                                                     *)

\* What a byte is worth is a number.
LEMMA ShiftedInt == ASSUME NEW x \in Byte, NEW i \in 0..4 PROVE Shifted(x, 7 * i) \in Int
<1>1. x \in Int /\ x % 128 \in Int /\ x % 16 \in Int
  BY DEF Byte
<1>2. 2^0 = 1 /\ 2^7 = 128 /\ 2^14 = 16384 /\ 2^21 = 128 * 16384 /\ 2^28 = 16384 * 16384
  BY SMT
<1>3. i = 0 \/ i = 1 \/ i = 2 \/ i = 3 \/ i = 4
  OBVIOUS
<1>4. CASE i = 0
  BY <1>1, <1>2, <1>4 DEF Shifted
<1>5. CASE i = 1
  BY <1>1, <1>2, <1>5 DEF Shifted
<1>6. CASE i = 2
  BY <1>1, <1>2, <1>6 DEF Shifted
<1>7. CASE i = 3
  BY <1>1, <1>2, <1>7 DEF Shifted
<1>8. CASE i = 4
  BY <1>1, <1>2, <1>8 DEF Shifted
<1> QED
  BY <1>3, <1>4, <1>5, <1>6, <1>7, <1>8

\* The next byte of a number adds what it is worth at its position.
LEMMA NumberGrows ==
    ASSUME NEW b \in Seq(Byte), NEW p \in Nat, NEW q \in Nat, p <= q, q - p <= 4, q + 1 <= Len(b)
    PROVE  /\ Number(b, p, q + 1) = Number(b, p, q) + Shifted(b[q + 1], 7 * (q - p))
           /\ Number(b, p, q) \in Int /\ Number(b, p, q + 1) \in Int
<1> DEFINE t(i) == Shifted(b[p + i], 7 * (i - 1))
           k == q - p
<1>1. k \in 0..4 /\ q = p + k
  OBVIOUS
<1>2. ASSUME NEW i \in 1..5, i <= k + 1 PROVE t(i) \in Int
  <2>1. b[p + i] \in Byte
    BY <1>1, <1>2
  <2>2. i - 1 \in 0..4
    OBVIOUS
  <2> QED
    BY <2>1, <2>2, ShiftedInt
<1>3. Shifted(b[q + 1], 7 * (q - p)) = t(k + 1)
  <2>1. q + 1 = p + (k + 1) /\ q - p = (k + 1) - 1
    BY <1>1
  <2> QED
    BY <2>1
<1> HIDE DEF t
<1>4. ASSUME NEW i \in 1..5, NEW j \in 0..5
      PROVE  Term(b, p, p + j, i) = IF i <= j THEN t(i) ELSE 0
  BY DEF Term, t
<1>5. ASSUME NEW j \in 0..5
      PROVE  Number(b, p, p + j) = (IF 1 <= j THEN t(1) ELSE 0) + (IF 2 <= j THEN t(2) ELSE 0)
                 + (IF 3 <= j THEN t(3) ELSE 0) + (IF 4 <= j THEN t(4) ELSE 0)
                 + (IF 5 <= j THEN t(5) ELSE 0)
  <2>1. 1 \in 1..5 /\ 2 \in 1..5 /\ 3 \in 1..5 /\ 4 \in 1..5 /\ 5 \in 1..5
    OBVIOUS
  <2>2. /\ Term(b, p, p + j, 1) = (IF 1 <= j THEN t(1) ELSE 0)
        /\ Term(b, p, p + j, 2) = (IF 2 <= j THEN t(2) ELSE 0)
        /\ Term(b, p, p + j, 3) = (IF 3 <= j THEN t(3) ELSE 0)
        /\ Term(b, p, p + j, 4) = (IF 4 <= j THEN t(4) ELSE 0)
        /\ Term(b, p, p + j, 5) = (IF 5 <= j THEN t(5) ELSE 0)
    BY <1>4, <2>1, Zenon
  <2> QED
    BY <2>2, Zenon DEF Number
<1> HIDE DEF k
<1>6. Number(b, p, p + (k + 1)) = Number(b, p, p + k) + t(k + 1)
  <2>1. k \in 0..5 /\ k + 1 \in 0..5
    BY <1>1
  <2>2. CASE k = 0
    BY <2>1, <2>2, <1>2, <1>5
  <2>3. CASE k = 1
    BY <2>1, <2>3, <1>2, <1>5
  <2>4. CASE k = 2
    BY <2>1, <2>4, <1>2, <1>5
  <2>5. CASE k = 3
    BY <2>1, <2>5, <1>2, <1>5
  <2>6. CASE k = 4
    BY <2>1, <2>6, <1>2, <1>5
  <2> QED
    BY <1>1, <2>2, <2>3, <2>4, <2>5, <2>6
<1>7. Number(b, p, p + k) \in Int /\ t(k + 1) \in Int
  <2>1. k \in 0..5
    BY <1>1
  <2>2. CASE k = 0
    BY <2>1, <2>2, <1>2, <1>5
  <2>3. CASE k = 1
    BY <2>1, <2>3, <1>2, <1>5
  <2>4. CASE k = 2
    BY <2>1, <2>4, <1>2, <1>5
  <2>5. CASE k = 3
    BY <2>1, <2>5, <1>2, <1>5
  <2>6. CASE k = 4
    BY <2>1, <2>6, <1>2, <1>5
  <2> QED
    BY <1>1, <2>2, <2>3, <2>4, <2>5, <2>6
<1>8. q + 1 = p + (k + 1) /\ q = p + k
  BY <1>1
<1>9. Number(b, p, p + (k + 1)) \in Int
  BY <1>6, <1>7
<1> QED
  BY <1>3, <1>6, <1>7, <1>8, <1>9

\* Before its first byte a number is zero.
LEMMA NumberEmpty == ASSUME NEW b, NEW p \in Nat PROVE Number(b, p, p) = 0
<1>1. \A i \in 1..5 : Term(b, p, p, i) = 0
  BY DEF Term
<1>2. /\ Term(b, p, p, 1) = 0 /\ Term(b, p, p, 2) = 0 /\ Term(b, p, p, 3) = 0
      /\ Term(b, p, p, 4) = 0 /\ Term(b, p, p, 5) = 0
  BY <1>1
<1> QED
  BY <1>2 DEF Number

\* While a number is read, readVarInt has its bytes so far, none of them the last.
NumberInv ==
    \E p \in 0..pos :
        /\ FieldAt(input.bytes, field, p)
        /\ position = 7 * (pos - p) /\ pos - p <= 4
        /\ \A i \in p + 1 .. pos : input.bytes[i] >= 128
        /\ value = Number(input.bytes, p, pos)
        /\ addr = <<>>

\* While the address is read, it is the part of the stream since its start.
AddressInv ==
    \E o, p \in 0..pos :
        /\ AddrLenAt(input.bytes, o) /\ NumberAt(input.bytes, "addrLen", o, p)
        /\ value = Number(input.bytes, o, p)
        /\ addr = SubSeq(input.bytes, p + 1, pos) /\ pos - p <= value

\* What the router has done with a connection is right for the host name that the
\* bytes spell.
Serves(t, name) == t.hostname = name /\ t.protocol = "tcp"
ResultInv ==
    /\ outcome = "proxied" =>
        \E name : /\ name # <<>> /\ Names(input.bytes, name)
                  /\ \A t \in tunnel : Serves(t, name)
    /\ outcome = "dropped" =>
        \A name : Names(input.bytes, name) => name = <<>> \/ ~ \E t \in routes : Serves(t, name)

ParseInv == outcome = "parsing" => IF field = "address" THEN AddressInv ELSE NumberInv

RouteInv ==
    /\ input \in Inputs
    /\ read \in 0..Len(input.bytes) /\ pos \in 0..read
    /\ routes \subseteq TunnelRows
    /\ ParseInv /\ ResultInv

\* One turn of readVarInt's loop: it goes on, gives up where no handshake can be, or
\* comes to the next field.
LEMMA NumberStep ==
    ASSUME NEW b \in Seq(Byte), b = input.bytes, read \in 0..Len(b), pos \in 0..read, NumberInv,
           ResultInv, ReadVarInt
    PROVE  ParseInv' /\ ResultInv'
<1> DEFINE x == b[pos + 1]
           n == value + Shifted(x, position)
<1>1. PICK p \in 0..pos :
          /\ FieldAt(b, field, p)
          /\ position = 7 * (pos - p) /\ pos - p <= 4
          /\ \A i \in p + 1 .. pos : b[i] >= 128
          /\ value = Number(b, p, pos)
          /\ addr = <<>>
  BY DEF NumberInv
<1>2. /\ pos < read /\ field # "address" /\ pos' = pos + 1 /\ outcome = "parsing"
      /\ UNCHANGED <<input, read, addr, tunnel, routes>>
      /\ IF x >= 128
         THEN IF position + 7 >= 32 THEN Drop
              ELSE value' = n /\ position' = position + 7 /\ UNCHANGED <<field, outcome>>
         ELSE IF ~Plausible(field, n) THEN Drop
              ELSE /\ field' = NextField(field)
                   /\ value' = IF field = "addrLen" THEN n ELSE 0
                   /\ position' = 0
                   /\ UNCHANGED outcome
  BY DEF ReadVarInt
<1>t. pos \in Nat /\ p \in Nat /\ pos + 1 \in 1..Len(b) /\ p <= pos /\ p \in 0..Len(b)
  BY <1>2
<1>x. x \in Byte /\ x \in Int
  <2>1. \A i \in Byte : i \in Int
    BY DEF Byte
  <2>2. x \in Byte
    BY <1>t
  <2> QED
    BY <2>1, <2>2, Zenon
<1>3. n = Number(b, p, pos + 1)
  <2>1. Number(b, p, pos + 1) = Number(b, p, pos) + Shifted(b[pos + 1], 7 * (pos - p))
    BY <1>1, <1>t, NumberGrows
  <2> QED
    BY <1>1, <2>1, Zenon
<1>i. Number(b, p, pos + 1) \in Int
  BY <1>1, <1>t, NumberGrows
<1>d. ASSUME Drop, \A q : ~NumberAt(b, field, p, q) PROVE ParseInv' /\ ResultInv'
  <2>1. \A q, r : ~AddressAt(b, q, r)
    BY <1>1, <1>d, NoAddress, Zenon
  <2>2. outcome' = "dropped" /\ input' = input
    BY <1>2, <1>d DEF Drop
  <2> QED
    BY <2>1, <2>2 DEF ParseInv, ResultInv, Names
<1> HIDE DEF x, n
<1>4. CASE x >= 128 /\ position + 7 >= 32
  <2>1. pos = p + 4
    BY <1>1, <1>4, <1>t
  <2>2. \A i \in p + 1 .. p + 5 : b[i] >= 128
    <3> TAKE i \in p + 1 .. p + 5
    <3>1. i \in p + 1 .. pos \/ i = pos + 1
      BY <2>1, <1>t
    <3> QED
      BY <3>1, <1>1, <1>4 DEF x
  <2>3. ASSUME NEW q, NumberAt(b, field, p, q) PROVE FALSE
    <3>1. q \in p + 1 .. p + 5 /\ q <= Len(b) /\ b[q] < 128
      BY <2>3 DEF NumberAt, VarIntAt
    <3>2. b[q] >= 128
      BY <2>2, <3>1
    <3>3. b[q] \in Byte
      BY <3>1, <1>t
    <3>4. \A y \in Byte : ~(y >= 128 /\ y < 128)
      BY DEF Byte
    <3> QED
      BY <3>1, <3>2, <3>3, <3>4, Zenon
  <2> QED
    BY <1>2, <1>4, <1>d, <2>3, Zenon
<1>5. CASE x >= 128 /\ ~(position + 7 >= 32)
  <2>1. /\ value' = n /\ position' = position + 7 /\ field' = field /\ outcome' = "parsing"
        /\ addr' = addr /\ input' = input /\ pos' = pos + 1
    BY <1>2, <1>5
  <2>2. p \in 0..pos + 1 /\ (pos + 1) - p <= 4 /\ position + 7 = 7 * ((pos + 1) - p)
    BY <1>1, <1>5, <1>t
  <2>3. \A i \in p + 1 .. pos + 1 : b[i] >= 128
    <3> TAKE i \in p + 1 .. pos + 1
    <3>1. i \in p + 1 .. pos \/ i = pos + 1
      BY <1>t
    <3> QED
      BY <3>1, <1>1, <1>5 DEF x
  <2>4. NumberInv'
    BY <1>1, <1>3, <2>1, <2>2, <2>3 DEF NumberInv
  <2> QED
    BY <1>2, <2>1, <2>4 DEF ParseInv, ResultInv
<1>v. ASSUME ~(x >= 128) PROVE VarIntAt(b, p, pos + 1)
  <2>1. pos + 1 \in p + 1 .. p + 5 /\ pos + 1 <= Len(b) /\ (pos + 1) - 1 = pos
    BY <1>1, <1>t
  <2>2. b[pos + 1] < 128
    BY <1>v, <1>x DEF x
  <2> QED
    BY <1>1, <2>1, <2>2 DEF VarIntAt
<1>6. CASE ~(x >= 128) /\ ~Plausible(field, n)
  <2>1. ASSUME NEW q, NumberAt(b, field, p, q) PROVE FALSE
    <3>1. q = pos + 1
      BY <1>6, <1>v, <1>t, <2>1, VarIntEndsOnce, Zenon DEF NumberAt
    <3> QED
      BY <1>3, <1>6, <2>1, <3>1, Zenon DEF NumberAt
  <2> QED
    BY <1>2, <1>6, <1>d, <2>1, Zenon
<1>7. CASE ~(x >= 128) /\ Plausible(field, n)
  <2>1. /\ field' = NextField(field) /\ value' = (IF field = "addrLen" THEN n ELSE 0)
        /\ position' = 0 /\ outcome' = "parsing"
        /\ addr' = addr /\ input' = input /\ pos' = pos + 1
    BY <1>2, <1>7
  <2>2. NumberAt(b, field, p, pos + 1)
    BY <1>3, <1>7, <1>v, Zenon DEF NumberAt
  <2>3. CASE field = "addrLen"
    <3>1. AddrLenAt(b, p)
      BY <1>1, <2>3 DEF FieldAt
    <3>2. n \in Int /\ 0 <= n
      BY <1>3, <1>i, <1>7, <2>3 DEF Plausible
    <3>3. SubSeq(b, (pos + 1) + 1, pos + 1) = <<>>
      BY <1>t
    <3>4. p \in 0..pos + 1 /\ pos + 1 \in 0..pos + 1 /\ (pos + 1) - (pos + 1) <= n
      BY <1>t, <3>2
    <3>5. value' = Number(b, p, pos + 1) /\ value' = n /\ addr' = <<>>
      BY <1>1, <1>3, <2>1, <2>3
    <3>6. AddressInv'
      BY <2>1, <2>2, <2>3, <3>1, <3>3, <3>4, <3>5 DEF AddressInv
    <3>7. field' = "address"
      BY <2>1, <2>3 DEF NextField
    <3> QED
      BY <1>2, <2>1, <3>6, <3>7 DEF ParseInv, ResultInv
  <2>4. CASE field # "addrLen"
    <3>1. FieldAt(b, NextField(field), pos + 1)
      BY <1>1, <1>t, <2>2, <2>4, NextFieldAt, Zenon
    <3>2. Number(b, pos + 1, pos + 1) = 0
      BY <1>t, NumberEmpty
    <3>3. value' = 0 /\ position' = 7 * ((pos + 1) - (pos + 1)) /\ pos + 1 \in 0..pos + 1
      BY <1>t, <2>1, <2>4
    <3>4. NumberInv'
      <4>1. \A i \in (pos + 1) + 1 .. pos + 1 : b[i] >= 128
        BY <1>t
      <4>2. (pos + 1) - (pos + 1) <= 4
        BY <1>t
      <4> QED
        BY <1>1, <2>1, <3>1, <3>2, <3>3, <4>1, <4>2, Zenon DEF NumberInv
    <3>5. NextField(field) # "address"
      BY <1>1, <2>4 DEF NextField, FieldAt
    <3> QED
      BY <1>2, <2>1, <3>4, <3>5 DEF ParseInv, ResultInv
  <2> QED
    BY <2>3, <2>4
<1> QED
  BY <1>4, <1>5, <1>6, <1>7, Zenon

\* One byte of the address.
LEMMA AddressStep ==
    ASSUME NEW b \in Seq(Byte), b = input.bytes, read \in 0..Len(b), pos \in 0..read, AddressInv,
           ReadAddress
    PROVE  AddressInv'
<1>1. PICK o \in 0..pos, p \in 0..pos :
          /\ AddrLenAt(b, o) /\ NumberAt(b, "addrLen", o, p)
          /\ value = Number(b, o, p)
          /\ addr = SubSeq(b, p + 1, pos) /\ pos - p <= value
  BY DEF AddressInv
<1>2. /\ pos < read /\ Len(addr) < value /\ pos' = pos + 1
      /\ addr' = Append(addr, b[pos + 1])
      /\ input' = input /\ value' = value
  BY DEF ReadAddress
<1>3. /\ pos \in Nat /\ p \in Nat /\ p <= pos /\ pos + 1 <= Len(b)
      /\ o \in 0..pos + 1 /\ p \in 0..pos + 1
  BY <1>2
<1>4. Len(addr) = pos - p /\ addr \in Seq(Byte)
  BY <1>1, <1>3
<1>5. SubSeq(b, p + 1, pos + 1) = Append(SubSeq(b, p + 1, pos), b[pos + 1])
  BY <1>3, SubSeqRecursiveSecond
<1>6. (pos + 1) - p <= value
  <2>1. value \in Int
    <3>1. o \in Nat /\ p \in Nat /\ p \in o + 1 .. o + 5
      BY <1>1, <1>3 DEF NumberAt, VarIntAt
    <3>2. /\ p - 1 \in Nat /\ o <= p - 1 /\ (p - 1) - o <= 4 /\ (p - 1) + 1 <= Len(b)
          /\ (p - 1) + 1 = p
      BY <1>3, <3>1
    <3>3. Number(b, o, (p - 1) + 1) \in Int
      BY <3>1, <3>2, NumberGrows
    <3> QED
      BY <1>1, <3>2, <3>3
  <2> QED
    BY <1>2, <1>3, <1>4, <2>1
<1> QED
  BY <1>1, <1>2, <1>3, <1>5, <1>6, Zenon DEF AddressInv

\* The lookup, with what was parsed.
LEMMA RouteStep ==
    ASSUME NEW b \in Seq(Byte), b = input.bytes, read \in 0..Len(b), pos \in 0..read, AddressInv,
           routes \subseteq TunnelRows, Route
    PROVE  ResultInv' /\ outcome' # "parsing"
<1> DEFINE name == Hostname(addr)
<1>1. PICK o \in 0..pos, p \in 0..pos :
          /\ AddrLenAt(b, o) /\ NumberAt(b, "addrLen", o, p)
          /\ value = Number(b, o, p)
          /\ addr = SubSeq(b, p + 1, pos) /\ pos - p <= value
  BY DEF AddressInv
<1>2. /\ Len(addr) = value /\ input' = input /\ routes' = routes
      /\ \/ /\ name = <<>> \/ Matching(name) = {}
            /\ outcome' = "dropped" /\ tunnel' = {}
         \/ \E t \in Matching(name) :
                /\ name # <<>>
                /\ outcome' = IF t.protocol = "tcp" THEN "proxied" ELSE "dropped"
                /\ tunnel' = {t}
  BY DEF Route
<1>3. /\ pos \in Nat /\ p \in Nat /\ p <= pos /\ pos <= Len(b)
      /\ o \in 0..Len(b) /\ p \in 0..Len(b) /\ pos \in 0..Len(b)
  OBVIOUS
<1>4. pos = p + Number(b, o, p)
  <2>1. Len(addr) = pos - p
    BY <1>1, <1>3
  <2> QED
    BY <1>1, <1>2, <1>3, <2>1
<1>5. AddressAt(b, p, pos) /\ Names(b, name)
  <2>1. AddressAt(b, p, pos)
    BY <1>1, <1>3, <1>4, Zenon DEF AddressAt
  <2> QED
    BY <1>1, <1>3, <2>1 DEF Names
<1> HIDE DEF name
<1>6. \A other : Names(b, other) => other = name
  <2>1. SUFFICES ASSUME NEW other, Names(b, other) PROVE other = name
    OBVIOUS
  <2>2. PICK q \in 0..Len(b), r \in 0..Len(b) :
                AddressAt(b, q, r) /\ other = Hostname(SubSeq(b, q + 1, r))
    BY <2>1 DEF Names
  <2>3. q = p /\ r = pos
    BY <1>5, <2>2, AddressOnce, Zenon
  <2> QED
    BY <1>1, <2>2, <2>3 DEF name
<1>7. CASE (name = <<>> \/ Matching(name) = {}) /\ outcome' = "dropped"
  BY <1>2, <1>6, <1>7 DEF ResultInv, Matching, Serves
<1>8. ASSUME NEW t \in Matching(name), name # <<>>, tunnel' = {t},
             outcome' = IF t.protocol = "tcp" THEN "proxied" ELSE "dropped"
      PROVE  ResultInv' /\ outcome' # "parsing"
  <2>1. t \in TunnelRows /\ t.hostname = name
    BY <1>8 DEF Matching
  <2>2. CASE t.protocol = "tcp"
    BY <1>2, <1>5, <1>8, <2>1, <2>2 DEF ResultInv, Serves
  <2>3. CASE t.protocol # "tcp"
    <3>1. ASSUME NEW u \in routes, Serves(u, name) PROVE FALSE
      BY <1>8, <2>1, <2>3, <3>1, RouterAssumption DEF Serves
    <3> QED
      BY <1>2, <1>6, <1>8, <2>3, <3>1 DEF ResultInv
  <2> QED
    BY <2>2, <2>3
<1> QED
  BY <1>2, <1>7, <1>8

\* The invariant of parsing and routing.
LEMMA ParserCorrect == RouterSpec => []RouteInv
<1> USE DEF parser, result
<1>0. \A i \in Inputs : i.bytes \in Seq(Byte)
  BY InputSpells, Zenon
<1>1. RouterInit => RouteInv
  <2> SUFFICES ASSUME RouterInit PROVE RouteInv
    OBVIOUS
  <2>1. /\ input \in Inputs /\ read = 0 /\ pos = 0 /\ field = "length" /\ value = 0
        /\ position = 0 /\ addr = <<>> /\ outcome = "parsing" /\ routes \subseteq TunnelRows
    BY DEF RouterInit
  <2>2. NumberInv
    <3>1. Number(input.bytes, 0, 0) = 0
      BY NumberEmpty
    <3> QED
      BY <2>1, <3>1 DEF NumberInv, FieldAt
  <2>3. Len(input.bytes) \in Nat
    BY <1>0, <2>1
  <2> QED
    BY <2>1, <2>2, <2>3 DEF RouteInv, ParseInv, ResultInv
<1>2. RouteInv /\ [RouterNext]_routerVars => RouteInv'
  <2> SUFFICES ASSUME RouteInv, [RouterNext]_routerVars PROVE RouteInv'
    OBVIOUS
  <2> DEFINE b == input.bytes
  <2>0. /\ input \in Inputs /\ b \in Seq(Byte) /\ Len(b) \in Nat
        /\ read \in 0..Len(b) /\ pos \in 0..read /\ routes \subseteq TunnelRows
        /\ ParseInv /\ ResultInv
    BY <1>0 DEF RouteInv
  <2> HIDE DEF b
  <2>b. b = input.bytes
    BY DEF b
  <2>1. CASE Fill
    <3>1. PICK n \in 1..(Len(b) - read) : read' = read + n
      BY <2>1 DEF Fill, b
    <3>2. read' \in 0..Len(b) /\ pos \in 0..read'
      BY <2>0, <3>1
    <3>3. UNCHANGED <<input, parser, result, routes>>
      BY <2>1 DEF Fill
    <3> QED
      BY <2>0, <2>b, <3>2, <3>3
         DEF RouteInv, ParseInv, NumberInv, AddressInv, ResultInv
  <2>2. CASE ReadFails
    <3>1. outcome' = "cut" /\ UNCHANGED <<input, read, pos, routes>>
      BY <2>2 DEF ReadFails
    <3> QED
      BY <2>0, <2>b, <3>1 DEF RouteInv, ParseInv, ResultInv
  <2>3. CASE ReadVarInt
    <3>1. /\ pos < read /\ field # "address" /\ pos' = pos + 1 /\ outcome = "parsing"
          /\ UNCHANGED <<input, read, routes>>
      BY <2>3 DEF ReadVarInt
    <3>2. NumberInv
      BY <2>0, <3>1 DEF ParseInv
    <3>3. ParseInv' /\ ResultInv'
      BY <2>0, <2>b, <2>3, <3>2, NumberStep
    <3>4. pos' \in 0..read
      BY <2>0, <3>1
    <3> QED
      BY <2>0, <2>b, <3>1, <3>3, <3>4 DEF RouteInv
  <2>4. CASE ReadAddress
    <3>1. /\ pos < read /\ field = "address" /\ pos' = pos + 1 /\ outcome = "parsing"
          /\ UNCHANGED <<input, read, routes, field, outcome>>
      BY <2>4 DEF ReadAddress
    <3>2. AddressInv
      BY <2>0, <3>1 DEF ParseInv
    <3>3. AddressInv'
      BY <2>0, <2>b, <2>4, <3>2, AddressStep
    <3>4. pos' \in 0..read
      BY <2>0, <3>1
    <3> QED
      BY <2>0, <2>b, <3>1, <3>3, <3>4 DEF RouteInv, ParseInv, ResultInv
  <2>5. CASE Route
    <3>1. /\ field = "address" /\ outcome = "parsing" /\ UNCHANGED <<input, read, pos, routes>>
      BY <2>5 DEF Route
    <3>2. AddressInv
      BY <2>0, <3>1 DEF ParseInv
    <3>3. ResultInv' /\ outcome' # "parsing"
      BY <2>0, <2>b, <2>5, <3>2, RouteStep
    <3> QED
      BY <2>0, <2>b, <3>1, <3>3 DEF RouteInv, ParseInv
  <2>6. CASE Replay
    <3>1. outcome = "proxied" /\ UNCHANGED <<input, read, parser, result, routes>>
      BY <2>6 DEF Replay
    <3> QED
      BY <2>0, <2>b, <3>1 DEF RouteInv, ParseInv, ResultInv
  <2>7. CASE Relay
    <3>1. PICK n \in 1..(Len(b) - read) : read' = read + n
      BY <2>7 DEF Relay, b
    <3>2. read' \in 0..Len(b) /\ pos \in 0..read'
      BY <2>0, <3>1
    <3>3. outcome = "proxied" /\ UNCHANGED <<input, parser, result, routes>>
      BY <2>7 DEF Relay
    <3> QED
      BY <2>0, <2>b, <3>2, <3>3 DEF RouteInv, ParseInv, ResultInv
  <2>8. CASE ToggleTunnel
    <3>1. outcome = "parsing" /\ UNCHANGED <<input, read, parser, result>>
          /\ routes' \subseteq TunnelRows
      BY <2>0, <2>8 DEF ToggleTunnel
    <3> QED
      BY <2>0, <2>b, <3>1 DEF RouteInv, ParseInv, NumberInv, AddressInv, ResultInv
  <2>9. CASE UNCHANGED routerVars
    BY <2>9 DEF routerVars, RouteInv, ParseInv, NumberInv, AddressInv, ResultInv
  <2> QED
    BY <2>1, <2>2, <2>3, <2>4, <2>5, <2>6, <2>7, <2>8, <2>9 DEF RouterNext, Handle
<1> QED
  BY <1>1, <1>2, PTL DEF RouterSpec

\* However a connection's bytes are split into reads, whatever is switched while they
\* arrive: a connection reaches a tunnel only if a well-formed handshake meant that
\* tunnel, and one that is well formed is dropped only if no enabled tunnel is meant.
THEOREM HandshakesRouted == RouterSpec => []RoutedAsMeant
<1>1. RouteInv => RoutedAsMeant
  <2> SUFFICES ASSUME RouteInv PROVE RoutedAsMeant
    OBVIOUS
  <2>1. /\ \A name : Names(input.bytes, name) => name = input.host
        /\ input.host # <<>> => Names(input.bytes, input.host)
    BY InputSpells, Zenon DEF RouteInv
  <2>2. ResultInv
    BY DEF RouteInv
  <2> QED
    BY <2>1, <2>2, Zenon DEF ResultInv, RoutedAsMeant, Serves
<1> QED
  BY <1>1, ParserCorrect, PTL
=============================================================================
