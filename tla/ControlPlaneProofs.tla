------------------------- MODULE ControlPlaneProofs -------------------------
(***************************************************************************)
(* Proofs about ControlPlane, for every number of connections, tunnels,    *)
(* losses, edits and restarts.                                             *)
(***************************************************************************)
EXTENDS ControlPlane, TLAPS

USE DEF Conns, Nobody, ReconcileLoop, Pushers

\* Every variable of the control plane keeps its type: the type invariant that
\* the other theorems of this module use.
THEOREM TypeCorrect == Spec => []TypeOK
<1> USE ConstantsAssumption DEF TypeOK
<1>1. Init => TypeOK
  BY DEF Init, IdlePush
<1>2. TypeOK /\ [Next]_vars => TypeOK'
  <2> SUFFICES ASSUME TypeOK, [Next]_vars PROVE TypeOK'
    OBVIOUS
  <2> USE DEF db, server, network, client, bounds
  <2>1. ASSUME NEW c \in Conns, Authenticate(c) PROVE TypeOK'
    BY <2>1 DEF Authenticate
  <2>2. ASSUME NEW c \in Conns, HandlerFails(c) PROVE TypeOK'
    BY <2>2 DEF HandlerFails
  <2>3. ASSUME NEW c \in Conns, Register(c) PROVE TypeOK'
    BY <2>3 DEF Register
  <2>4. ASSUME NEW c \in Conns, Unregister(c) PROVE TypeOK'
    BY <2>4 DEF Unregister, Forget
  <2>5. CASE Tick
    BY <2>5 DEF Tick
  <2>6. ASSUME NEW p \in Pushers, Push(p) PROVE TypeOK'
    <3>1. CASE PushList(p)
      <4>1. overlapped' \in [Conns -> BOOLEAN]
        <5> DEFINE k == push[p].conn
                   b == overlapped[k] \/ \E q \in Pushers \ {p} : InPush(q, k)
        <5>1. b \in BOOLEAN
          OBVIOUS
        <5>2. overlapped' = [overlapped EXCEPT ![k] = b]
          BY <3>1 DEF PushList
        <5> HIDE DEF b, k
        <5> QED
          BY <5>1, <5>2
      <4>2. push' \in [Pushers -> [at : {"idle", "list", "send", "assign"},
                                   conn : {Nobody} \cup Conns, specs : SUBSET Tunnels]]
        BY <3>1 DEF PushList
      <4> QED
        BY <3>1, <4>1, <4>2 DEF PushList
    <3>2. CASE PushSend(p)
      <4>1. Config(push[p].specs) \in Frame
        BY DEF Config, Frame
      <4>2. wire' \in [Conns -> Seq(Frame)]
        <5>1. CASE UNCHANGED wire
          BY <5>1
        <5>2. CASE wire' = [wire EXCEPT ![push[p].conn] = Append(@, Config(push[p].specs))]
          <6>1. \A c \in Conns : Append(wire[c], Config(push[p].specs)) \in Seq(Frame)
            BY <4>1
          <6> QED
            BY <5>2, <6>1
        <5> QED
          BY <3>2, <5>1, <5>2 DEF PushSend, PushReturns
      <4>3. /\ push' \in [Pushers -> [at : {"idle", "list", "send", "assign"},
                                      conn : {Nobody} \cup Conns, specs : SUBSET Tunnels]]
            /\ handler' \in [Conns -> {"none", "auth", "register", "push", "wait", "done"}]
        <5>1. CASE PushReturns(p)
          BY <5>1 DEF PushReturns, IdlePush
        <5>2. CASE /\ push' = [push EXCEPT ![p] = [at |-> "assign", conn |-> push[p].conn,
                                                    specs |-> push[p].specs]]
                  /\ UNCHANGED handler
          BY <5>2
        <5> QED
          BY <3>2, <5>1, <5>2 DEF PushSend
      <4> QED
        BY <3>2, <4>2, <4>3 DEF PushSend
    <3>3. CASE PushAssign(p)
      BY <3>3 DEF PushAssign, PushReturns, IdlePush
    <3> QED
      BY <2>6, <3>1, <3>2, <3>3 DEF Push
  <2>7. ASSUME NEW d \in Deleters, DeleteLookup(d) PROVE TypeOK'
    BY <2>7 DEF DeleteLookup
  <2>21. ASSUME NEW d \in Deleters, ClientRm(d) PROVE TypeOK'
    BY <2>21 DEF ClientRm
  <2>8. ASSUME NEW d \in Deleters, DeletePush(d) PROVE TypeOK'
    <3>1. Uninstall \in Frame
      BY DEF Uninstall, Frame
    <3>2. wire' \in [Conns -> Seq(Frame)]
      <4>1. \A c \in Conns : Append(wire[c], Uninstall) \in Seq(Frame)
        BY <3>1
      <4> QED
        BY <2>8, <4>1 DEF DeletePush
    <3> QED
      BY <2>8, <3>2 DEF DeletePush
  <2>9. ASSUME NEW d \in Deleters, DeleteClient(d) PROVE TypeOK'
    BY <2>9 DEF DeleteClient
  <2>10. CASE EditTunnels
    <3>1. tunnels' \in SUBSET Tunnels /\ edits' \in Nat
      BY <2>10 DEF EditTunnels
    <3> QED
      BY <2>10, <3>1 DEF EditTunnels
  <2>11. ASSUME NEW c \in Conns, Dial(c) PROVE TypeOK'
    BY <2>11 DEF Dial
  <2>12. CASE ReadReply
    <3>1. CASE reply[agent.conn] = "ok"
      <4>1. agent' \in [at : {"dial", "auth", "run", "stopped"}, conn : {Nobody} \cup Conns]
        BY <2>12, <3>1 DEF ReadReply
      <4>2. reader' \in [Conns -> {"off", "read", "uninstall", "ended", "uninstalled"}]
        BY <2>12, <3>1 DEF ReadReply
      <4>3. reply' \in [Conns -> {"none", "ok", "uninstall"}]
        BY <2>12, <3>1 DEF ReadReply
      <4>4. UNCHANGED <<db, server, link, wire, targets, bounds, uninstalls>>
        BY <2>12, <3>1 DEF ReadReply
      <4> QED
        BY <4>1, <4>2, <4>3, <4>4
    <3>2. CASE reply[agent.conn] # "ok"
      <4>1. agent' \in [at : {"dial", "auth", "run", "stopped"}, conn : {Nobody} \cup Conns]
        BY <2>12, <3>2 DEF ReadReply
      <4>2. reply' \in [Conns -> {"none", "ok", "uninstall"}]
        BY <2>12, <3>2 DEF ReadReply
      <4> QED
        BY <2>12, <3>2, <4>1, <4>2 DEF ReadReply
    <3> QED
      BY <3>1, <3>2
  <2>13. CASE AuthFails
    BY <2>13 DEF AuthFails
  <2>14. CASE RunOnceReturns
    <3>1. agent' \in [at : {"dial", "auth", "run", "stopped"}, conn : {Nobody} \cup Conns]
      BY <2>14 DEF RunOnceReturns
    <3> QED
      BY <2>14, <3>1 DEF RunOnceReturns
  <2>15. ASSUME NEW c \in Conns, ReadFrame(c) PROVE TypeOK'
    <3>1. /\ Head(wire[c]) \in Frame
          /\ Tail(wire[c]) \in Seq(Frame)
      BY <2>15 DEF ReadFrame
    <3>2. Head(wire[c]).tunnels \in SUBSET Tunnels
      BY <3>1 DEF Frame
    <3>3. wire' \in [Conns -> Seq(Frame)]
      BY <2>15, <3>1 DEF ReadFrame
    <3>4. CASE Head(wire[c]).uninstall
      <4>1. /\ reader' = [reader EXCEPT ![c] = "uninstall"]
            /\ uninstalls' = uninstalls + 1
            /\ UNCHANGED <<targets, db, server, reply, link, agent, bounds>>
        BY <2>15, <3>4 DEF ReadFrame
      <4> QED
        BY <3>3, <4>1
    <3>5. CASE ~Head(wire[c]).uninstall
      BY <2>15, <3>2, <3>3, <3>5 DEF ReadFrame
    <3> QED
      BY <3>4, <3>5
  <2>16. ASSUME NEW c \in Conns, ReaderFails(c) PROVE TypeOK'
    BY <2>16 DEF ReaderFails
  <2>17. ASSUME NEW c \in Conns, UninstallDone(c) PROVE TypeOK'
    BY <2>17 DEF UninstallDone
  <2>18. ASSUME NEW c \in Conns, Drop(c) PROVE TypeOK'
    BY <2>18 DEF Drop
  <2>19. CASE CrashServer
    BY <2>19 DEF CrashServer, IdlePush
  <2>20. CASE UNCHANGED vars
    BY <2>20 DEF vars
  <2> QED
    BY <2>1, <2>2, <2>3, <2>4, <2>5, <2>6, <2>7, <2>8, <2>9, <2>10, <2>11, <2>12, <2>13,
       <2>14, <2>15, <2>16, <2>17, <2>18, <2>19, <2>20, <2>21
    DEF Next, FinishDelete, Handler, Reconcile, Agent, Reader
<1> QED
  BY <1>1, <1>2, PTL DEF Spec

\* A handler whose pushTunnelConfig is in progress is between registration and
\* its wait for CloseChan, and a connection not dialed yet has no handler.
PushingHandlers ==
    \A c \in Conns : /\ push[c].at # "idle" => handler[c] = "push"
                     /\ link[c] = "none" => handler[c] = "none"

\* The inductive invariant behind LiveSessionIsCurrent.
SessionInv == LiveSessionIsCurrent /\ PushingHandlers

\* No step of the control plane breaks PushingHandlers.
LEMMA PushingStep == TypeOK /\ PushingHandlers /\ [Next]_vars => PushingHandlers'
<1> SUFFICES ASSUME TypeOK, PushingHandlers, [Next]_vars, NEW c \in Conns
             PROVE  /\ push'[c].at # "idle" => handler'[c] = "push"
                    /\ link'[c] = "none" => handler'[c] = "none"
  BY DEF PushingHandlers
<1> USE DEF PushingHandlers, db, server, network, client, bounds
<1> DEFINE Goal == /\ push'[c].at # "idle" => handler'[c] = "push"
                   /\ link'[c] = "none" => handler'[c] = "none"
<1>t. /\ handler \in [Conns -> {"none", "auth", "register", "push", "wait", "done"}]
      /\ link \in [Conns -> {"none", "up", "closed", "lost"}]
      /\ push = [p \in Pushers |-> push[p]]
      /\ sessions \in Pushers /\ agent.conn \in Pushers
      /\ c \in Pushers /\ c # ReconcileLoop
  BY ConstantsAssumption DEF TypeOK
<1> HIDE DEF Conns, Pushers, Nobody, ReconcileLoop
<1>1. ASSUME NEW n \in Conns, Authenticate(n) PROVE Goal
  BY <1>1, <1>t DEF Authenticate
<1>11. ASSUME NEW n \in Conns, HandlerFails(n) PROVE Goal
  BY <1>11, <1>t DEF HandlerFails
<1>12. ASSUME NEW n \in Conns, Unregister(n) PROVE Goal
  BY <1>12, <1>t DEF Unregister
<1>13. ASSUME NEW n \in Conns, Dial(n) PROVE Goal
  BY <1>13, <1>t DEF Dial
<1>2. ASSUME NEW n \in Conns, Register(n) PROVE Goal
  BY <1>2, <1>t DEF Register
<1>3. ASSUME NEW p \in Pushers, Push(p) PROVE Goal
  <2>1. CASE PushList(p)
    BY <2>1, <1>t DEF PushList
  <2>2. CASE PushReturns(p) /\ link' = link /\ push[p].at # "idle"
    <3>1. CASE c = p
      BY <2>2, <3>1, <1>t DEF PushReturns, IdlePush
    <3>2. CASE c # p
      BY <2>2, <3>2, <1>t DEF PushReturns
    <3> QED
      BY <3>1, <3>2
  <2>3. CASE PushSend(p) /\ ~PushReturns(p)
    BY <2>3, <1>t DEF PushSend
  <2> QED
    BY <1>3, <2>1, <2>2, <2>3 DEF Push, PushSend, PushAssign
<1>4. CASE Tick \/ EditTunnels \/ UNCHANGED vars
  BY <1>4, <1>t DEF Tick, EditTunnels, vars
<1>5. ASSUME NEW d \in Deleters, DeleteLookup(d) \/ ClientRm(d) \/ FinishDelete(d)
      PROVE  Goal
  BY <1>5, <1>t DEF DeleteLookup, ClientRm, FinishDelete, DeletePush, DeleteClient
<1>6. CASE ReadReply \/ AuthFails
  BY <1>6, <1>t DEF ReadReply, AuthFails
<1>7. CASE RunOnceReturns
  BY <1>7, <1>t DEF RunOnceReturns
<1>8. ASSUME NEW n \in Conns, Reader(n) PROVE Goal
  BY <1>8, <1>t DEF Reader, ReadFrame, ReaderFails, UninstallDone
<1>9. ASSUME NEW n \in Conns, Drop(n) PROVE Goal
  BY <1>9, <1>t DEF Drop
<1>10. CASE CrashServer
  BY <1>10, <1>t DEF CrashServer, IdlePush
<1>0. Conns \subseteq Pushers /\ ReconcileLoop \in Pushers
  BY DEF Pushers
<1> QED
  BY <1>0, <1>1, <1>11, <1>12, <1>13, <1>2, <1>3, <1>4, <1>5, <1>6, <1>7, <1>8, <1>9, <1>10
  DEF Next, Handler, Reconcile, Agent

\* However connections interleave, a registered session whose connection is up
\* is the one in the session map: handleConn closes what it replaces and its
\* cleanup spares a newer entry.
THEOREM SessionsCorrect == Spec => []LiveSessionIsCurrent
<1> USE ConstantsAssumption DEF LiveSessionIsCurrent
<1>1. Init => SessionInv
  BY DEF Init, SessionInv, PushingHandlers, IdlePush
<1>2. TypeOK /\ SessionInv /\ [Next]_vars => LiveSessionIsCurrent'
  <2> SUFFICES ASSUME TypeOK, LiveSessionIsCurrent, PushingHandlers, [Next]_vars,
                      NEW c \in Conns,
                      handler'[c] \in {"push", "wait"}, link'[c] = "up"
               PROVE  sessions' = c
    BY DEF SessionInv
  <2> USE DEF TypeOK, db, server, network, client, bounds
  <2>1. ASSUME NEW n \in Conns, Authenticate(n) PROVE sessions' = c
    BY <2>1 DEF Authenticate
  <2>2. ASSUME NEW n \in Conns, HandlerFails(n) PROVE sessions' = c
    BY <2>2 DEF HandlerFails
  <2>3. ASSUME NEW n \in Conns, Register(n) PROVE sessions' = c
    <3>1. CASE c = n
      BY <2>3, <3>1 DEF Register
    <3>2. CASE c # n
      <4>1. handler[c] \in {"push", "wait"} /\ link[c] = "up"
        BY <2>3, <3>2 DEF Register
      <4>2. sessions = c
        BY <4>1
      <4>3. link'[c] = "closed"
        BY <2>3, <4>1, <4>2 DEF Register
      <4> QED
        BY <4>3
    <3> QED
      BY <3>1, <3>2
  <2>4. ASSUME NEW n \in Conns, Unregister(n) PROVE sessions' = c
    BY <2>4 DEF Unregister
  <2>5. ASSUME NEW p \in Pushers, Push(p) PROVE sessions' = c
    \* only the handler's own push returns to "wait", from "push"
    <3>1. link' = link /\ sessions' = sessions
      BY <2>5 DEF Push, PushList, PushSend, PushAssign
    <3>2. handler[c] \in {"push", "wait"}
      <4>1. push[p].at # "idle"
        BY <2>5 DEF Push, PushList, PushSend, PushAssign
      <4>2. CASE c = p
        BY <4>1, <4>2 DEF PushingHandlers
      <4>3. CASE c # p
        BY <2>5, <4>3 DEF Push, PushList, PushSend, PushAssign, PushReturns
      <4> QED
        BY <4>2, <4>3
    <3> QED
      BY <3>1, <3>2
  <2>6. CASE Tick \/ EditTunnels \/ UNCHANGED vars
    BY <2>6 DEF Tick, EditTunnels, vars
  <2>7. ASSUME NEW d \in Deleters, DeleteLookup(d) \/ ClientRm(d) \/ FinishDelete(d)
        PROVE sessions' = c
    BY <2>7 DEF DeleteLookup, ClientRm, FinishDelete, DeletePush, DeleteClient
  <2>8. ASSUME NEW n \in Conns, Dial(n) PROVE sessions' = c
    BY <2>8 DEF Dial
  <2>9. CASE ReadReply \/ AuthFails
    BY <2>9 DEF ReadReply, AuthFails
  <2>10. CASE RunOnceReturns
    BY <2>10 DEF RunOnceReturns
  <2>11. ASSUME NEW n \in Conns, Reader(n) PROVE sessions' = c
    BY <2>11 DEF Reader, ReadFrame, ReaderFails, UninstallDone
  <2>12. ASSUME NEW n \in Conns, Drop(n) PROVE sessions' = c
    BY <2>12 DEF Drop
  <2>13. CASE CrashServer
    BY <2>13 DEF CrashServer
  <2> QED
    BY <2>1, <2>2, <2>3, <2>4, <2>5, <2>6, <2>7, <2>8, <2>9, <2>10, <2>11, <2>12, <2>13
    DEF Next, Handler, Reconcile, Agent
<1>3. TypeOK /\ SessionInv /\ [Next]_vars => SessionInv'
  BY <1>2, PushingStep DEF SessionInv
<1>4. SessionInv => LiveSessionIsCurrent
  BY DEF SessionInv
<1> QED
  BY <1>1, <1>3, <1>4, TypeCorrect, PTL DEF Spec

-----------------------------------------------------------------------------
(* The fingerprint and the agent's targets.                                *)

\* Arriving over a frame sequence w and targets t.
ConfigsIn(w) == {n \in DOMAIN w : ~w[n].uninstall}
Arrives(w, t, T) ==
    /\ ConfigsIn(w) = {} => t = T
    /\ \A n \in ConfigsIn(w) : (\A m \in ConfigsIn(w) : m <= n) => w[n].tunnels = T

\* A config just written is what the agent ends up with.
LEMMA AppendConfig ==
    ASSUME NEW w \in Seq(Frame), NEW t, NEW T \in SUBSET Tunnels
    PROVE  Arrives(Append(w, Config(T)), t, T)
<1> DEFINE v == Append(w, Config(T))
<1>1. v \in Seq(Frame) /\ Len(v) = Len(w) + 1 /\ DOMAIN v = 1..Len(w) + 1
  BY DEF Config, Frame
<1>2. v[Len(w) + 1].uninstall = FALSE /\ v[Len(w) + 1].tunnels = T
  BY DEF Config
<1> HIDE DEF v
<1>3. Len(w) + 1 \in ConfigsIn(v)
  BY <1>1, <1>2 DEF ConfigsIn
<1>4. ASSUME NEW n \in ConfigsIn(v), \A m \in ConfigsIn(v) : m <= n PROVE n = Len(w) + 1
  BY <1>1, <1>3, <1>4 DEF ConfigsIn
<1>5. Arrives(v, t, T)
  BY <1>2, <1>3, <1>4 DEF Arrives
<1> QED
  BY <1>5 DEF v

\* An uninstall frame written after the configs changes none of them.
LEMMA AppendUninstall ==
    ASSUME NEW w \in Seq(Frame), NEW t, NEW T, Arrives(w, t, T)
    PROVE  Arrives(Append(w, Uninstall), t, T)
<1> DEFINE v == Append(w, Uninstall)
<1>1. DOMAIN v = 1..Len(w) + 1 /\ DOMAIN w = 1..Len(w) /\ Len(w) \in Nat
  OBVIOUS
<1>2. v[Len(w) + 1].uninstall = TRUE /\ \A n \in 1..Len(w) : v[n] = w[n]
  BY DEF Uninstall
<1> HIDE DEF v
<1>3. ConfigsIn(v) = ConfigsIn(w)
  BY <1>1, <1>2 DEF ConfigsIn
<1>4. \A n \in ConfigsIn(w) : v[n] = w[n]
  BY <1>1, <1>2 DEF ConfigsIn
<1>5. Arrives(v, t, T)
  BY <1>3, <1>4 DEF Arrives
<1> QED
  BY <1>5 DEF v

\* Reading a config makes it the targets and takes nothing from what follows.
LEMMA ReadConfig ==
    ASSUME NEW w \in Seq(Frame), w # <<>>, ~Head(w).uninstall, NEW t, NEW T,
           Arrives(w, t, T)
    PROVE  Arrives(Tail(w), Head(w).tunnels, T)
<1> DEFINE v == Tail(w)
<1>1. /\ DOMAIN v = 1..Len(w) - 1 /\ DOMAIN w = 1..Len(w) /\ Len(w) \in Nat \ {0}
      /\ Head(w) = w[1]
  OBVIOUS
<1>2. \A n \in 1..Len(w) - 1 : v[n] = w[n + 1]
  OBVIOUS
<1> HIDE DEF v
<1>3. 1 \in ConfigsIn(w)
  BY <1>1 DEF ConfigsIn
<1>4. ASSUME NEW m \in ConfigsIn(w), m # 1 PROVE m - 1 \in ConfigsIn(v)
  BY <1>1, <1>2, <1>4 DEF ConfigsIn
<1>5. CASE ConfigsIn(v) = {}
  <2>1. \A m \in ConfigsIn(w) : m <= 1
    BY <1>4, <1>5
  <2>2. w[1].tunnels = T
    BY <2>1, <1>3 DEF Arrives
  <2>3. Arrives(v, Head(w).tunnels, T)
    BY <2>2, <1>1, <1>5 DEF Arrives
  <2> QED
    BY <2>3 DEF v
<1>6. CASE ConfigsIn(v) # {}
  <2>1. ASSUME NEW n \in ConfigsIn(v), \A m \in ConfigsIn(v) : m <= n
        PROVE  v[n].tunnels = T
    <3>1. n \in 1..Len(w) - 1 /\ v[n] = w[n + 1]
      BY <1>1, <1>2 DEF ConfigsIn
    <3>2. n + 1 \in ConfigsIn(w)
      BY <1>1, <3>1 DEF ConfigsIn
    <3>3. ASSUME NEW m \in ConfigsIn(w) PROVE m <= n + 1
      <4>1. m \in Nat
        BY <1>1 DEF ConfigsIn
      <4>2. CASE m = 1
        BY <4>2, <3>1
      <4>3. CASE m # 1
        <5>1. m - 1 <= n
          BY <4>3, <1>4, <2>1
        <5> QED
          BY <5>1, <4>1, <3>1
      <4> QED
        BY <4>2, <4>3
    <3> QED
      BY <3>1, <3>2, <3>3 DEF Arrives
  <2>2. Arrives(v, Head(w).tunnels, T)
    BY <2>1, <1>6 DEF Arrives
  <2> QED
    BY <2>2 DEF v
<1> QED
  BY <1>5, <1>6

\* Only the reader of the connection the agent runs reads frames: with backoffs
\* long enough (~Stall), no reader of an earlier session outlives them.
ReaderInv ==
    agent.at \in {"auth", "run"} =>
        /\ agent.conn \in Conns
        /\ \A n \in Conns : reader[n] = "read" => agent.at = "run" /\ agent.conn = n

\* A connection not dialed yet has no session and no push.
FreshInv ==
    \A c \in Conns : link[c] = "none" =>
        /\ ~pushed[c]
        /\ sessions # c
        /\ \A p \in Pushers : push[p].conn # c

\* On a session whose pushes never overlapped, one push at a time is past its
\* read of the tunnels.
UniqueInv ==
    \A c \in Conns : link[c] = "up" /\ ~overlapped[c] =>
        \A p, q \in Pushers : InPush(p, c) /\ InPush(q, c) => p = q

\* The agent is on connection c and will read, or reads, its control stream.
Listening(c) ==
    /\ agent.conn = c
    /\ agent.at = "auth" \/ (agent.at = "run" /\ reader[c] = "read")

\* Pusher p has written its config on c and not yet assigned lastPushed.
Assigns(p, c) == push[p].conn = c /\ push[p].at = "assign"

\* What was last written is arriving, from the write on: it is in the pusher's
\* specs until lastPushed is assigned.
SyncAt(c) ==
    link[c] = "up" /\ ~overlapped[c] /\ Listening(c) =>
        /\ \A p \in Pushers : Assigns(p, c) => Arriving(c, push[p].specs)
        /\ (\A p \in Pushers : ~Assigns(p, c)) =>
               ~pushed[c] \/ Arriving(c, lastPushed[c])

\* The inductive invariant behind SerialPushesInSync.
PushInv == ReaderInv /\ FreshInv /\ UniqueInv /\ \A c \in Conns : SyncAt(c)

\* No step breaks ReaderInv: a dial waits for the readers still at work.
LEMMA ReaderStep ==
    ASSUME ~Stall, TypeOK, ReaderInv, [Next]_vars PROVE ReaderInv'
<1> USE DEF ReaderInv, db, server, network, client, bounds
<1>t. /\ reader \in [Conns -> {"off", "read", "uninstall", "ended", "uninstalled"}]
      /\ agent \in [at : {"dial", "auth", "run", "stopped"}, conn : {Nobody} \cup Conns]
  BY DEF TypeOK
<1>1. CASE UNCHANGED <<agent, reader>>
  BY <1>1
<1>2. ASSUME NEW c \in Conns, Dial(c) PROVE ReaderInv'
  BY <1>2, <1>t DEF Dial
<1>3. CASE ReadReply
  <2>1. CASE agent' = [at |-> "run", conn |-> agent.conn]
    <3>1. /\ agent.at = "auth"
          /\ reader' = [reader EXCEPT ![agent.conn] = "read"]
      BY <1>3, <2>1 DEF ReadReply
    <3> QED
      BY <2>1, <3>1, <1>t
  <2>2. CASE agent' = [at |-> "stopped", conn |-> agent.conn]
    BY <2>2
  <2> QED
    BY <1>3, <2>1, <2>2 DEF ReadReply
<1>4. CASE AuthFails \/ RunOnceReturns
  BY <1>4, <1>t DEF AuthFails, RunOnceReturns
<1>5. ASSUME NEW c \in Conns, Reader(c) PROVE ReaderInv'
  BY <1>5, <1>t DEF Reader, ReadFrame, ReaderFails, UninstallDone
<1>6. ASSUME NEW c \in Conns, Handler(c) \/ Drop(c) PROVE UNCHANGED <<agent, reader>>
  BY <1>6 DEF Handler, Authenticate, HandlerFails, Register, Push, PushList, PushSend,
              PushAssign, Unregister, Drop
<1>7. CASE Reconcile \/ EditTunnels \/ CrashServer \/ UNCHANGED vars
  BY <1>1, <1>7 DEF Reconcile, Tick, Push, PushList, PushSend, PushAssign, EditTunnels,
                    CrashServer, vars
<1>8. ASSUME NEW d \in Deleters, DeleteLookup(d) \/ ClientRm(d) \/ FinishDelete(d)
      PROVE  UNCHANGED <<agent, reader>>
  BY <1>8 DEF DeleteLookup, ClientRm, FinishDelete, DeletePush, DeleteClient
<1> QED
  BY <1>1, <1>2, <1>3, <1>4, <1>5, <1>6, <1>7, <1>8 DEF Next, Agent

\* No step breaks FreshInv: sessions and pushes begin on dialed connections.
LEMMA FreshStep ==
    ASSUME TypeOK, PushingHandlers, FreshInv, [Next]_vars PROVE FreshInv'
<1> SUFFICES ASSUME NEW c \in Conns, link'[c] = "none"
             PROVE  /\ ~pushed'[c]
                    /\ sessions' # c
                    /\ \A p \in Pushers : push'[p].conn # c
  BY DEF FreshInv
<1> DEFINE Goal == /\ ~pushed'[c]
                   /\ sessions' # c
                   /\ \A p \in Pushers : push'[p].conn # c
<1> USE DEF db, server, network, client, bounds
<1>t. /\ link \in [Conns -> {"none", "up", "closed", "lost"}]
      /\ lastPushed \in [Conns -> SUBSET Tunnels] /\ pushed \in [Conns -> BOOLEAN]
      /\ push = [p \in Pushers |-> push[p]]
      /\ sessions \in Pushers /\ agent.conn \in Pushers
      /\ c \in Pushers /\ c # Nobody
      /\ Conns \subseteq Pushers /\ ReconcileLoop \in Pushers
  BY ConstantsAssumption DEF TypeOK
<1> HIDE DEF Conns, Pushers, Nobody, ReconcileLoop
<1>0. link[c] = "none" => /\ ~pushed[c] /\ sessions # c /\ handler[c] = "none"
                          /\ \A p \in Pushers : push[p].conn # c
  BY DEF FreshInv, PushingHandlers
<1>1. CASE UNCHANGED <<link, pushed, sessions, push>>
  BY <1>0, <1>1
<1>2. CASE UNCHANGED <<pushed, sessions, push>> /\ (link'[c] = "none" => link[c] = "none")
  BY <1>0, <1>2
<1>3. ASSUME NEW n \in Conns, Authenticate(n) \/ HandlerFails(n) PROVE Goal
  BY <1>3, <1>2, <1>t DEF Authenticate, HandlerFails
<1>4. ASSUME NEW n \in Conns, Register(n) PROVE Goal
  <2>1. link[c] = "none"
    BY <1>4, <1>t DEF Register
  <2>2. n # c
    BY <1>4, <2>1, <1>0 DEF Register
  <2> QED
    BY <1>4, <2>1, <2>2, <1>0, <1>t DEF Register
<1>5. ASSUME NEW n \in Conns, Unregister(n) PROVE Goal
  BY <1>5, <1>0, <1>t DEF Unregister, Forget, Nobody
<1>6. CASE Tick
  BY <1>6, <1>0, <1>t DEF Tick
<1>7. ASSUME NEW p \in Pushers, Push(p) PROVE Goal
  <2>1. link[c] = "none" /\ sessions' = sessions
    BY <1>7 DEF Push, PushList, PushSend, PushAssign
  <2>2. push[p].conn # c
    BY <1>0, <2>1
  <2>3. ~pushed'[c]
    BY <1>7, <1>0, <2>1, <2>2, <1>t DEF Push, PushList, PushSend, PushAssign
  <2>4. \A q \in Pushers : push'[q].conn # c
    BY <1>7, <1>0, <2>1, <2>2, <1>t
    DEF Push, PushList, PushSend, PushAssign, PushReturns, IdlePush
  <2> QED
    BY <1>0, <2>1, <2>3, <2>4
<1>8. ASSUME NEW d \in Deleters, DeleteLookup(d) \/ ClientRm(d) \/ FinishDelete(d)
      PROVE  Goal
  BY <1>8, <1>1 DEF DeleteLookup, ClientRm, FinishDelete, DeletePush, DeleteClient
<1>9. CASE EditTunnels \/ ReadReply \/ AuthFails \/ UNCHANGED vars
  BY <1>9, <1>1 DEF EditTunnels, ReadReply, AuthFails, vars
<1>10. ASSUME NEW n \in Conns, Dial(n) PROVE Goal
  BY <1>10, <1>2, <1>t DEF Dial
<1>11. CASE RunOnceReturns
  BY <1>11, <1>2, <1>t DEF RunOnceReturns
<1>12. ASSUME NEW n \in Conns, Reader(n) PROVE Goal
  BY <1>12, <1>1 DEF Reader, ReadFrame, ReaderFails, UninstallDone
<1>13. ASSUME NEW n \in Conns, Drop(n) PROVE Goal
  BY <1>13, <1>2, <1>t DEF Drop
<1>14. CASE CrashServer
  BY <1>14, <1>t DEF CrashServer, IdlePush
<1> QED
  BY <1>t, <1>3, <1>4, <1>5, <1>6, <1>7, <1>8, <1>9, <1>10, <1>11, <1>12, <1>13, <1>14
  DEF Next, Handler, Reconcile, Agent

\* No step breaks UniqueInv: a push that joins another one marks the overlap.
LEMMA UniqueStep ==
    ASSUME TypeOK, PushingHandlers, FreshInv, UniqueInv, [Next]_vars PROVE UniqueInv'
<1> SUFFICES ASSUME NEW c \in Conns, link'[c] = "up", ~overlapped'[c],
                    NEW p \in Pushers, NEW q \in Pushers, InPush(p, c)', InPush(q, c)'
             PROVE  p = q
  BY DEF UniqueInv
<1> USE DEF db, server, network, client, bounds
<1>t. /\ link \in [Conns -> {"none", "up", "closed", "lost"}]
      /\ overlapped \in [Conns -> BOOLEAN]
      /\ push = [x \in Pushers |-> push[x]]
      /\ push \in [Pushers -> [at : {"idle", "list", "send", "assign"},
                               conn : {Nobody} \cup Conns, specs : SUBSET Tunnels]]
      /\ sessions \in Pushers /\ agent.conn \in Pushers
      /\ c \in Pushers /\ c # Nobody
      /\ Conns \subseteq Pushers /\ ReconcileLoop \in Pushers
  BY ConstantsAssumption DEF TypeOK
<1> HIDE DEF Conns, Pushers, Nobody, ReconcileLoop
<1>1. ASSUME link[c] = "up", ~overlapped[c], InPush(p, c), InPush(q, c) PROVE p = q
  BY <1>1 DEF UniqueInv
<1>2. CASE /\ link'[c] = "up" => link[c] = "up"
           /\ ~overlapped'[c] => ~overlapped[c]
           /\ \A x \in Pushers : InPush(x, c)' => InPush(x, c)
  BY <1>2, <1>1
<1>3. ASSUME NEW n \in Conns, Authenticate(n) \/ HandlerFails(n) PROVE p = q
  BY <1>3, <1>2, <1>t DEF Authenticate, HandlerFails, InPush
<1>4. ASSUME NEW n \in Conns, Register(n) PROVE p = q
  BY <1>4, <1>2, <1>t DEF Register, InPush
<1>5. ASSUME NEW n \in Conns, Unregister(n) PROVE p = q
  <2>1. n # c
    BY <1>5 DEF Unregister
  <2> QED
    BY <1>5, <2>1, <1>2, <1>t DEF Unregister, Forget, InPush
<1>6. CASE Tick
  BY <1>6, <1>2, <1>t DEF Tick, InPush
<1>7. ASSUME NEW x \in Pushers, Push(x) PROVE p = q
  <2>1. CASE PushList(x)
    <3>1. link' = link /\ \A y \in Pushers \ {x} : push'[y] = push[y]
      BY <2>1, <1>t DEF PushList
    <3>2. push'[x].conn = push[x].conn
      BY <2>1, <1>t DEF PushList
    <3>3. CASE push[x].conn # c
      <4>1. overlapped'[c] = overlapped[c]
        BY <2>1, <3>3, <1>t DEF PushList
      <4> QED
        BY <4>1, <3>1, <3>2, <3>3, <1>2 DEF InPush
    <3>4. CASE push[x].conn = c
      <4>1. overlapped'[c] = (overlapped[c] \/ \E y \in Pushers \ {x} : InPush(y, c))
        BY <2>1, <3>4, <1>t DEF PushList
      <4>2. \A y \in Pushers \ {x} : ~InPush(y, c)
        BY <4>1
      <4>3. \A y \in Pushers \ {x} : ~InPush(y, c)'
        BY <4>2, <3>1 DEF InPush
      <4> QED
        BY <4>3
    <3> QED
      BY <3>3, <3>4
  <2>2. CASE PushSend(x) \/ PushAssign(x)
    <3>1. link' = link /\ overlapped' = overlapped
      BY <2>2 DEF PushSend, PushAssign
    <3>2. \A y \in Pushers \ {x} : push'[y] = push[y]
      BY <2>2, <1>t DEF PushSend, PushAssign, PushReturns
    <3>3. InPush(x, c)' => InPush(x, c)
      BY <2>2, <1>t DEF PushSend, PushAssign, PushReturns, IdlePush, InPush
    <3> QED
      BY <3>1, <3>2, <3>3, <1>2 DEF InPush
  <2> QED
    BY <1>7, <2>1, <2>2 DEF Push
<1>8. ASSUME NEW d \in Deleters, DeleteLookup(d) \/ ClientRm(d) \/ FinishDelete(d)
      PROVE  p = q
  BY <1>8, <1>2 DEF DeleteLookup, ClientRm, FinishDelete, DeletePush, DeleteClient, InPush
<1>9. CASE EditTunnels \/ ReadReply \/ AuthFails \/ UNCHANGED vars
  BY <1>9, <1>2 DEF EditTunnels, ReadReply, AuthFails, vars, InPush
<1>10. ASSUME NEW n \in Conns, Dial(n) PROVE p = q
  <2>1. CASE n = c
    <3>1. push[p].conn # c
      BY <1>10, <2>1 DEF Dial, FreshInv
    <3> QED
      BY <1>10, <3>1 DEF Dial, InPush
  <2>2. CASE n # c
    BY <1>10, <2>2, <1>2, <1>t DEF Dial, InPush
  <2> QED
    BY <2>1, <2>2
<1>11. CASE RunOnceReturns
  BY <1>11, <1>2, <1>t DEF RunOnceReturns, InPush
<1>12. ASSUME NEW n \in Conns, Reader(n) PROVE p = q
  BY <1>12, <1>2 DEF Reader, ReadFrame, ReaderFails, UninstallDone, InPush
<1>13. ASSUME NEW n \in Conns, Drop(n) PROVE p = q
  BY <1>13, <1>2, <1>t DEF Drop, InPush
<1>14. CASE CrashServer
  BY <1>14, <1>t DEF CrashServer
<1> QED
  BY <1>t, <1>3, <1>4, <1>5, <1>6, <1>7, <1>8, <1>9, <1>10, <1>11, <1>12, <1>13, <1>14
  DEF Next, Handler, Reconcile, Agent

\* A step that leaves c's stream, fingerprint, targets and writers alone, and
\* opens nothing, keeps SyncAt(c).
LEMMA SyncFrame ==
    ASSUME NEW c \in Conns, SyncAt(c),
           link'[c] = "up" => link[c] = "up",
           ~overlapped'[c] => ~overlapped[c],
           Listening(c)' => Listening(c),
           UNCHANGED <<wire[c], targets, lastPushed[c], pushed[c]>>,
           \A p \in Pushers : Assigns(p, c)' <=> Assigns(p, c),
           \A p \in Pushers : Assigns(p, c) => push'[p].specs = push[p].specs
    PROVE  SyncAt(c)'
<1> SUFFICES ASSUME link'[c] = "up", ~overlapped'[c], Listening(c)'
             PROVE  /\ \A p \in Pushers : Assigns(p, c)' => Arriving(c, push[p].specs)'
                    /\ (\A p \in Pushers : ~Assigns(p, c)') =>
                           ~pushed'[c] \/ Arriving(c, lastPushed[c])'
  BY DEF SyncAt
<1>1. /\ \A p \in Pushers : Assigns(p, c) => Arriving(c, push[p].specs)
      /\ (\A p \in Pushers : ~Assigns(p, c)) =>
             ~pushed[c] \/ Arriving(c, lastPushed[c])
  BY DEF SyncAt
<1>2. \A p \in Pushers : Assigns(p, c)' => Arriving(c, push[p].specs)'
  BY <1>1 DEF Arriving, Configs
<1>3. (\A p \in Pushers : ~Assigns(p, c)') =>
          ~pushed'[c] \/ Arriving(c, lastPushed[c])'
  BY <1>1 DEF Arriving, Configs
<1> QED
  BY <1>2, <1>3

\* No step of a pusher breaks SyncAt: the write brings its specs on their way,
\* and lastPushed is assigned to what is on its way.
LEMMA SyncPush ==
    ASSUME TypeOK, UniqueInv, NEW c \in Conns, SyncAt(c), NEW x \in Pushers, Push(x)
    PROVE  SyncAt(c)'
<1> USE DEF db, server, network, client, bounds
<1>t. /\ wire \in [Conns -> Seq(Frame)]
      /\ overlapped \in [Conns -> BOOLEAN]
      /\ lastPushed \in [Conns -> SUBSET Tunnels] /\ pushed \in [Conns -> BOOLEAN]
      /\ push \in [Pushers -> [at : {"idle", "list", "send", "assign"},
                               conn : {Nobody} \cup Conns, specs : SUBSET Tunnels]]
  BY DEF TypeOK
<1> HIDE DEF Conns, Pushers, Nobody, ReconcileLoop
<1>0. UNCHANGED <<link, agent, reader, targets>>
  BY DEF Push, PushList, PushSend, PushAssign
<1>1. Listening(c)' <=> Listening(c)
  BY <1>0 DEF Listening
<1>2. CASE PushList(x)
  <2>1. UNCHANGED <<wire, lastPushed, pushed>>
    BY <1>2 DEF PushList
  <2>2. \A p \in Pushers : Assigns(p, c)' <=> Assigns(p, c)
    BY <1>2, <1>t DEF PushList, Assigns
  <2>3. \A p \in Pushers : Assigns(p, c) => push'[p].specs = push[p].specs
    BY <1>2, <1>t DEF PushList, Assigns
  <2>4. ~overlapped'[c] => ~overlapped[c]
    BY <1>2, <1>t DEF PushList
  <2> QED
    BY <1>0, <1>1, <2>1, <2>2, <2>3, <2>4, SyncFrame
<1>3. CASE PushSend(x) /\ PushReturns(x) /\ UNCHANGED wire
  <2>1. UNCHANGED <<wire, lastPushed, pushed, overlapped>>
    BY <1>3 DEF PushSend
  <2>2. push[x].at = "send" /\ push'[x].at = "idle" /\ \A p \in Pushers \ {x} : push'[p] = push[p]
    BY <1>3, <1>t DEF PushSend, PushReturns, IdlePush
  <2>3. \A p \in Pushers : Assigns(p, c)' <=> Assigns(p, c)
    BY <2>2 DEF Assigns
  <2>4. \A p \in Pushers : Assigns(p, c) => push'[p].specs = push[p].specs
    BY <2>2 DEF Assigns
  <2> QED
    BY <1>0, <1>1, <2>1, <2>3, <2>4, SyncFrame
<1>4. CASE PushSend(x) /\ ~(PushReturns(x) /\ UNCHANGED wire)
  <2> DEFINE k == push[x].conn
             T == push[x].specs
  <2>1. /\ push[x].at = "send"
        /\ wire' = [wire EXCEPT ![k] = Append(@, Config(T))]
        /\ push' = [push EXCEPT ![x] = [at |-> "assign", conn |-> k, specs |-> T]]
        /\ UNCHANGED <<lastPushed, pushed, overlapped>>
    BY <1>4 DEF PushSend
  <2>2. \A p \in Pushers \ {x} : push'[p] = push[p]
    BY <2>1, <1>t
  <2>3. push'[x].at = "assign" /\ push'[x].conn = k /\ push'[x].specs = T
    BY <2>1, <1>t
  <2>4. T \in SUBSET Tunnels
    BY <1>t
  <2> HIDE DEF T, k
  <2>5. CASE k # c
    <3>1. wire'[c] = wire[c]
      BY <2>1, <2>5, <1>t
    <3>2. \A p \in Pushers : Assigns(p, c)' <=> Assigns(p, c)
      BY <2>2, <2>3, <2>5 DEF Assigns, k
    <3>3. \A p \in Pushers : Assigns(p, c) => push'[p].specs = push[p].specs
      BY <2>2, <2>3, <2>5 DEF Assigns, k
    <3> QED
      BY <1>0, <1>1, <2>1, <3>1, <3>2, <3>3, SyncFrame
  <2>6. CASE k = c
    <3> SUFFICES ASSUME link'[c] = "up", ~overlapped'[c], Listening(c)' PROVE SyncAt(c)'
      BY DEF SyncAt
    <3>1. \A p \in Pushers \ {x} : ~InPush(p, c)
      <4>1. InPush(x, c) /\ link[c] = "up" /\ ~overlapped[c]
        BY <1>0, <2>1, <2>6 DEF InPush, k
      <4> QED
        BY <4>1 DEF UniqueInv
    <3>2. \A p \in Pushers \ {x} : ~Assigns(p, c)'
      BY <2>2, <3>1 DEF InPush, Assigns
    <3>3. Assigns(x, c)'
      BY <2>3, <2>6 DEF Assigns
    <3>4. wire'[c] = Append(wire[c], Config(T)) /\ wire[c] \in Seq(Frame)
      BY <2>1, <2>6, <1>t
    <3>5. Arrives(wire'[c], targets', T)
      BY <3>4, <2>4, AppendConfig
    <3>6. Arriving(c, push[x].specs)'
      BY <3>5, <2>3 DEF Arrives, ConfigsIn, Arriving, Configs
    <3> QED
      BY <3>2, <3>3, <3>6 DEF SyncAt
  <2> QED
    BY <2>5, <2>6
<1>5. CASE PushAssign(x)
  <2> DEFINE k == push[x].conn
             T == push[x].specs
  <2>1. /\ push[x].at = "assign"
        /\ lastPushed' = [lastPushed EXCEPT ![k] = T]
        /\ pushed' = [pushed EXCEPT ![k] = TRUE]
        /\ UNCHANGED <<wire, overlapped>>
    BY <1>5 DEF PushAssign
  <2>2. push'[x].at = "idle" /\ \A p \in Pushers \ {x} : push'[p] = push[p]
    BY <1>5, <1>t DEF PushAssign, PushReturns, IdlePush
  <2> HIDE DEF T, k
  <2>3. CASE k # c
    <3>1. lastPushed'[c] = lastPushed[c] /\ pushed'[c] = pushed[c]
      BY <2>1, <2>3, <1>t
    <3>2. \A p \in Pushers : Assigns(p, c)' <=> Assigns(p, c)
      BY <2>2, <2>3 DEF Assigns, k
    <3>3. \A p \in Pushers : Assigns(p, c) => push'[p].specs = push[p].specs
      BY <2>2, <2>3 DEF Assigns, k
    <3> QED
      BY <1>0, <1>1, <2>1, <3>1, <3>2, <3>3, SyncFrame
  <2>4. CASE k = c
    <3> SUFFICES ASSUME link'[c] = "up", ~overlapped'[c], Listening(c)' PROVE SyncAt(c)'
      BY DEF SyncAt
    <3>1. Assigns(x, c) /\ InPush(x, c) /\ link[c] = "up" /\ ~overlapped[c] /\ Listening(c)
      BY <1>0, <1>1, <2>1, <2>4 DEF Assigns, InPush, k
    <3>2. \A p \in Pushers \ {x} : ~InPush(p, c)
      BY <3>1 DEF UniqueInv
    <3>3. \A p \in Pushers : ~Assigns(p, c)'
      BY <2>2, <3>2 DEF InPush, Assigns
    <3>4. Arriving(c, T) /\ lastPushed'[c] = T
      BY <2>1, <2>4, <3>1, <1>t DEF SyncAt, T
    <3>5. Arriving(c, lastPushed[c])'
      BY <1>0, <2>1, <3>4 DEF Arriving, Configs
    <3> QED
      BY <3>3, <3>5 DEF SyncAt
  <2> QED
    BY <2>3, <2>4
<1> QED
  BY <1>2, <1>3, <1>4, <1>5 DEF Push

\* No frame read on any connection breaks SyncAt: only c's own reader reads
\* while the agent listens to c.
LEMMA SyncRead ==
    ASSUME TypeOK, ReaderInv, NEW c \in Conns, SyncAt(c), NEW n \in Conns, ReadFrame(n)
    PROVE  SyncAt(c)'
<1> USE DEF db, server, network, client, bounds
<1>t. /\ wire \in [Conns -> Seq(Frame)]
      /\ reader \in [Conns -> {"off", "read", "uninstall", "ended", "uninstalled"}]
  BY DEF TypeOK
<1> HIDE DEF Conns, Pushers, Nobody, ReconcileLoop
<1> SUFFICES ASSUME link'[c] = "up", ~overlapped'[c], Listening(c)' PROVE SyncAt(c)'
  BY DEF SyncAt
<1>1. UNCHANGED <<link, overlapped, agent, push, lastPushed, pushed>>
  BY DEF ReadFrame
<1>2. n = c
  BY <1>1 DEF ReadFrame, Running, Listening, ReaderInv
<1>3. reader[c] = "read" /\ wire[c] # <<>> /\ wire'[c] = Tail(wire[c])
  BY <1>2, <1>t DEF ReadFrame, Running
<1>4. agent.at = "run"
  BY <1>1, <1>3 DEF Listening, ReaderInv
<1>5. ~Head(wire[c]).uninstall
  BY <1>1, <1>2, <1>4, <1>t DEF ReadFrame, Listening
<1>6. targets' = Head(wire[c]).tunnels
  BY <1>2, <1>5 DEF ReadFrame
<1>7. Listening(c)
  BY <1>1, <1>3, <1>4 DEF Listening
<1>8. ASSUME NEW T, Arriving(c, T) PROVE Arriving(c, T)'
  <2>1. Arrives(wire[c], targets, T) /\ wire[c] \in Seq(Frame)
    BY <1>8, <1>t DEF Arrives, ConfigsIn, Arriving, Configs
  <2>2. Arrives(wire'[c], targets', T)
    BY <2>1, <1>3, <1>5, <1>6, ReadConfig
  <2> QED
    BY <2>2 DEF Arrives, ConfigsIn, Arriving, Configs
<1> QED
  BY <1>1, <1>7, <1>8 DEF SyncAt, Assigns

\* No step breaks SyncAt.
LEMMA SyncStep ==
    ASSUME TypeOK, PushingHandlers, ReaderInv, FreshInv, UniqueInv,
           NEW c \in Conns, SyncAt(c), [Next]_vars
    PROVE  SyncAt(c)'
<1> USE DEF db, server, network, client, bounds
<1>t. /\ link \in [Conns -> {"none", "up", "closed", "lost"}]
      /\ wire \in [Conns -> Seq(Frame)]
      /\ reader \in [Conns -> {"off", "read", "uninstall", "ended", "uninstalled"}]
      /\ agent \in [at : {"dial", "auth", "run", "stopped"}, conn : {Nobody} \cup Conns]
      /\ push = [x \in Pushers |-> push[x]]
      /\ Conns \subseteq Pushers /\ ReconcileLoop \in Pushers
  BY DEF TypeOK
<1> HIDE DEF Conns, Pushers, Nobody, ReconcileLoop
<1> DEFINE SamePush == \A p \in Pushers : /\ Assigns(p, c)' <=> Assigns(p, c)
                                          /\ Assigns(p, c) => push'[p].specs = push[p].specs
           SameServer == UNCHANGED <<lastPushed, pushed, push, overlapped>>
<1>s. SameServer => /\ SamePush
                    /\ UNCHANGED <<lastPushed[c], pushed[c], overlapped[c]>>
  BY DEF Assigns
<1>l. UNCHANGED <<agent, reader>> => (Listening(c)' <=> Listening(c))
  BY DEF Listening
<1>f. ASSUME SamePush, link'[c] = "up" => link[c] = "up", ~overlapped'[c] => ~overlapped[c],
             Listening(c)' => Listening(c), UNCHANGED <<wire[c], targets, lastPushed[c], pushed[c]>>
      PROVE  SyncAt(c)'
  BY <1>f, SyncFrame
<1> HIDE DEF SamePush
<1>1. ASSUME NEW n \in Conns, Authenticate(n) \/ HandlerFails(n) PROVE SyncAt(c)'
  <2>1. link'[c] = "up" => link[c] = "up"
    BY <1>1, <1>t DEF Authenticate, HandlerFails
  <2>2. SameServer /\ UNCHANGED <<wire, targets, agent, reader>>
    BY <1>1 DEF Authenticate, HandlerFails
  <2> QED
    BY <2>1, <2>2, <1>s, <1>l, <1>f
<1>2. ASSUME NEW n \in Conns, Register(n) PROVE SyncAt(c)'
  <2>1. link'[c] = "up" => link[c] = "up"
    BY <1>2, <1>t DEF Register
  <2>2. UNCHANGED <<wire, targets, agent, reader, lastPushed, pushed, overlapped>>
    BY <1>2 DEF Register
  <2>3. SamePush
    <3>1. push[n].at = "idle"
      BY <1>2 DEF Register, PushingHandlers
    <3> QED
      BY <1>2, <3>1, <1>t DEF Register, SamePush, Assigns
  <2> QED
    BY <2>1, <2>2, <2>3, <1>l, <1>f
<1>3. ASSUME NEW n \in Conns, Unregister(n) PROVE SyncAt(c)'
  <2>1. CASE n = c
    BY <1>3, <2>1 DEF Unregister, SyncAt
  <2>2. CASE n # c
    <3>1. lastPushed'[c] = lastPushed[c] /\ pushed'[c] = pushed[c] /\ overlapped'[c] = overlapped[c]
      BY <1>3, <2>2, <1>t DEF Unregister, Forget, TypeOK
    <3>2. UNCHANGED <<link, wire, targets, agent, reader>> /\ SamePush
      BY <1>3 DEF Unregister, SamePush, Assigns
    <3> QED
      BY <3>1, <3>2, <1>l, <1>f
  <2> QED
    BY <2>1, <2>2
<1>4. CASE Tick
  <2>1. SamePush
    BY <1>4, <1>t DEF Tick, SamePush, Assigns
  <2>2. UNCHANGED <<link, wire, targets, agent, reader, lastPushed, pushed, overlapped>>
    BY <1>4 DEF Tick
  <2> QED
    BY <2>1, <2>2, <1>l, <1>f
<1>5. ASSUME NEW d \in Deleters, DeletePush(d) PROVE SyncAt(c)'
  <2>1. SameServer /\ UNCHANGED <<link, targets, agent, reader>>
    BY <1>5 DEF DeletePush
  <2>2. CASE wire'[c] = wire[c]
    BY <2>1, <2>2, <1>s, <1>l, <1>f
  <2>3. CASE wire'[c] = Append(wire[c], Uninstall)
    <3>1. ASSUME NEW T, Arriving(c, T) PROVE Arriving(c, T)'
      <4>1. Arrives(wire[c], targets, T) /\ wire[c] \in Seq(Frame)
        BY <3>1, <1>t DEF Arrives, ConfigsIn, Arriving, Configs
      <4>2. Arrives(wire'[c], targets', T)
        BY <4>1, <2>1, <2>3, AppendUninstall
      <4> QED
        BY <4>2 DEF Arrives, ConfigsIn, Arriving, Configs
    <3> QED
      BY <2>1, <3>1, <1>l DEF SyncAt, Assigns
  <2> QED
    BY <1>5, <2>2, <2>3, <1>t DEF DeletePush
<1>6. ASSUME NEW d \in Deleters, DeleteLookup(d) \/ ClientRm(d) \/ DeleteClient(d)
      PROVE  SyncAt(c)'
  <2>1. SameServer /\ UNCHANGED <<link, wire, targets, agent, reader>>
    BY <1>6 DEF DeleteLookup, ClientRm, DeleteClient
  <2> QED
    BY <2>1, <1>s, <1>l, <1>f
<1>7. CASE EditTunnels \/ UNCHANGED vars
  <2>1. SameServer /\ UNCHANGED <<link, wire, targets, agent, reader>>
    BY <1>7 DEF EditTunnels, vars
  <2> QED
    BY <2>1, <1>s, <1>l, <1>f
<1>8. ASSUME NEW n \in Conns, Dial(n) PROVE SyncAt(c)'
  <2>1. CASE n = c
    <3>1. ~pushed[c] /\ \A p \in Pushers : push[p].conn # c
      BY <1>8, <2>1 DEF Dial, FreshInv
    <3>2. ~pushed'[c] /\ \A p \in Pushers : ~Assigns(p, c)'
      BY <1>8, <3>1 DEF Dial, Assigns
    <3> QED
      BY <3>2 DEF SyncAt
  <2>2. CASE n # c
    BY <1>8, <2>2 DEF Dial, Listening, SyncAt
  <2> QED
    BY <2>1, <2>2
<1>9. CASE ReadReply
  <2>1. SameServer /\ UNCHANGED <<link, wire, targets>>
    BY <1>9 DEF ReadReply
  <2>2. Listening(c)' => Listening(c)
    <3>1. agent.at = "auth" /\ agent'.conn = agent.conn
      BY <1>9 DEF ReadReply
    <3> QED
      BY <3>1 DEF Listening
  <2> QED
    BY <2>1, <2>2, <1>s, <1>f
<1>10. CASE AuthFails
  BY <1>10 DEF AuthFails, Listening, SyncAt
<1>11. CASE RunOnceReturns
  BY <1>11 DEF RunOnceReturns, Listening, SyncAt
<1>12. ASSUME NEW n \in Conns, ReaderFails(n) PROVE SyncAt(c)'
  <2>1. CASE n = c
    BY <1>12, <2>1 DEF ReaderFails, SyncAt
  <2>2. CASE n # c
    <3>1. SameServer /\ UNCHANGED <<link, targets, agent>>
      BY <1>12 DEF ReaderFails
    <3>2. wire'[c] = wire[c] /\ reader'[c] = reader[c]
      BY <1>12, <2>2, <1>t DEF ReaderFails
    <3>3. Listening(c)' => Listening(c)
      BY <3>1, <3>2 DEF Listening
    <3> QED
      BY <3>1, <3>2, <3>3, <1>s, <1>f
  <2> QED
    BY <2>1, <2>2
<1>13. ASSUME NEW n \in Conns, UninstallDone(n) PROVE SyncAt(c)'
  <2>1. SameServer /\ UNCHANGED <<link, wire, targets, agent>>
    BY <1>13 DEF UninstallDone
  <2>2. Listening(c)' => Listening(c)
    BY <1>13, <2>1, <1>t DEF UninstallDone, Listening
  <2> QED
    BY <2>1, <2>2, <1>s, <1>f
<1>14. ASSUME NEW n \in Conns, Drop(n) PROVE SyncAt(c)'
  <2>1. link'[c] = "up" => link[c] = "up"
    BY <1>14, <1>t DEF Drop
  <2>2. SameServer /\ UNCHANGED <<wire, targets, agent, reader>>
    BY <1>14 DEF Drop
  <2> QED
    BY <2>1, <2>2, <1>s, <1>l, <1>f
<1>15. CASE CrashServer
  BY <1>15 DEF CrashServer, SyncAt
<1> QED
  BY <1>t, <1>1, <1>2, <1>3, <1>4, <1>5, <1>6, <1>7, <1>8, <1>9, <1>10, <1>11, <1>12, <1>13,
     <1>14, <1>15, SyncPush, SyncRead
  DEF Next, Handler, Reconcile, Agent, Reader, FinishDelete

\* Between two pushes of a session whose pushes never overlapped, lastPushed of
\* server.go is what the agent holds or is about to hold, provided that no
\* reader of an earlier session outlives the agent's backoff.
THEOREM PushesStayInSync ==
    ASSUME ~Stall PROVE Spec => []SerialPushesInSync
<1>1. Init => PushInv
  <2> SUFFICES ASSUME Init PROVE PushInv
    OBVIOUS
  <2>1. ReaderInv /\ FreshInv
    BY DEF Init, ReaderInv, FreshInv, IdlePush
  <2>2. UniqueInv /\ \A c \in Conns : SyncAt(c)
    BY DEF Init, UniqueInv, SyncAt
  <2> QED
    BY <2>1, <2>2 DEF PushInv
<1>2. TypeOK /\ PushingHandlers /\ PushInv /\ [Next]_vars => PushInv'
  BY ReaderStep, FreshStep, UniqueStep, SyncStep DEF PushInv
<1>3. PushInv => SerialPushesInSync
  <2> SUFFICES ASSUME PushInv, NEW c \in Conns, Served(c), ~overlapped[c],
                      pushed[c],
                      \A p \in Pushers : push[p].conn = c => push[p].at # "assign"
               PROVE  Arriving(c, lastPushed[c])
    BY DEF SerialPushesInSync
  <2>1. Listening(c) /\ link[c] = "up"
    BY DEF Served, Listening
  <2>2. \A p \in Pushers : ~Assigns(p, c)
    BY DEF Assigns
  <2> QED
    BY <2>1, <2>2 DEF PushInv, SyncAt
<1>4. Init => PushingHandlers
  BY ConstantsAssumption DEF Init, PushingHandlers, IdlePush
<1> QED
  BY <1>1, <1>2, <1>3, <1>4, PushingStep, TypeCorrect, PTL DEF Spec
=============================================================================
