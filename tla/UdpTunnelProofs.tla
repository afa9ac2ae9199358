--------------------------- MODULE UdpTunnelProofs ---------------------------
(***************************************************************************)
(* Theorems about UdpTunnel, for any number of senders, streams, sockets,  *)
(* datagrams and losses: an answer finds the address it is for, is for the *)
(* sender it answers, and a session in the map has a socket of its own     *)
(* that is open.                                                           *)
(***************************************************************************)
EXTENDS UdpTunnel, TLAPS

SocketState ==
    [at : {"free", "open", "closed"}, stream : {None} \cup Streams, sender : {None} \cup Senders,
     lastActive : {"zero", "recent", "old"}, reader : {"read", "ended"}, got : SUBSET Senders]

HandlerState ==
    [at : {"off", "open", "read", "store", "write"}, sender : {None} \cup Senders,
     sock : {None} \cup Sockets]

Routable(k) == {a \in Answer : a.tag = a.origin /\ a.tag \in addrs[k]}

\* What travels on a stream belongs to senders the pump has recorded for it.
WireInv ==
    \A k \in Streams : toAgent[k] \in Seq(addrs[k]) /\ toServer[k] \in Seq(Routable(k))

\* The pump records a sender before it forwards.
LoopInv == loop.at = "write" => loop.sender \in addrs[loop.stream]

\* A socket in use is of a recorded sender, and only that sender's datagrams
\* were written to it.
SocketInv ==
    \A i \in Sockets :
        /\ socket[i].stream = None => socket[i] = FreeSocket
        /\ socket[i].stream # None => socket[i].sender \in addrs[socket[i].stream]
        /\ socket[i].got \subseteq {socket[i].sender}

\* A stream without a running handler has no sessions, and the socket a handler
\* has at hand is never given to another sender under it.
HandlerInv ==
    \A k \in Streams :
        /\ handler[k].at \in {"off", "open"} => \A s \in Senders : sessions[k][s] = None
        /\ handler[k].at \in {"store", "write"} =>
               /\ handler[k].sock \in Sockets
               /\ socket[handler[k].sock].stream = k
               /\ socket[handler[k].sock].sender = handler[k].sender

\* The inductive invariant behind the theorems of this module.
UdpInv == TypeOK /\ WireInv /\ LoopInv /\ SocketInv /\ HandlerInv /\ SessionsUsable

\* A sequence stays one over a larger set.
LEMMA SeqGrows == ASSUME NEW S, NEW T, S \subseteq T, NEW q \in Seq(S) PROVE q \in Seq(T)
  OBVIOUS

\* A queue whose first element is taken.
LEMMA SeqTail ==
    ASSUME NEW S, NEW q \in Seq(S), q # <<>>
    PROVE  Tail(q) \in Seq(S) /\ Head(q) \in S
  OBVIOUS

\* A queue that is appended to.
LEMMA SeqAppend == ASSUME NEW S, NEW q \in Seq(S), NEW x \in S PROVE Append(q, x) \in Seq(S)
  OBVIOUS

LEMMA Numbers == None \notin Streams /\ None \notin Sockets /\ None \notin Senders
  BY UdpAssumption DEF None, Streams, Sockets

\* A socket whose update leaves its stream and its sender, and adds nothing to
\* what it got.
Follows(r, q) ==
    /\ r \in SocketState /\ r.at = q.at /\ r.stream = q.stream /\ r.sender = q.sender
    /\ r.got \subseteq q.got

\* What the agent's updates make of one socket.
LEMMA SocketUpdates ==
    ASSUME NEW q \in SocketState
    PROVE  /\ Follows([q EXCEPT !.lastActive = "recent"], q)
           /\ Follows([q EXCEPT !.lastActive = "old"], q)
           /\ Follows([q EXCEPT !.reader = "ended", !.got = {}], q)
           /\ Follows([q EXCEPT !.reader = "ended", !.got = {}, !.lastActive = "recent"], q)
           /\ \A s : Follows([q EXCEPT !.got = @ \ {s}, !.lastActive = "recent"], q)
           /\ [q EXCEPT !.lastActive = "recent"].got = q.got
           /\ [q EXCEPT !.at = "closed", !.got = {}] \in SocketState
           /\ [q EXCEPT !.at = "closed", !.got = {}].stream = q.stream
           /\ [q EXCEPT !.at = "closed", !.got = {}].sender = q.sender
           /\ [q EXCEPT !.at = "closed", !.got = {}].got = {}
           /\ \A s \in Senders : [q EXCEPT !.got = @ \cup {s}] \in SocketState
<1>1. PICK a, st, se, la, re, g :
          /\ q = [at |-> a, stream |-> st, sender |-> se, lastActive |-> la, reader |-> re,
                  got |-> g]
          /\ a \in {"free", "open", "closed"} /\ st \in {None} \cup Streams
          /\ se \in {None} \cup Senders /\ la \in {"zero", "recent", "old"}
          /\ re \in {"read", "ended"} /\ g \in SUBSET Senders
  BY DEF SocketState
<1>2. /\ Follows([q EXCEPT !.lastActive = "recent"], q)
      /\ Follows([q EXCEPT !.lastActive = "old"], q)
      /\ [q EXCEPT !.lastActive = "recent"].got = q.got
  BY <1>1 DEF SocketState, Follows
<1>3. Follows([q EXCEPT !.reader = "ended", !.got = {}], q)
  BY <1>1 DEF SocketState, Follows
<1>4. Follows([q EXCEPT !.reader = "ended", !.got = {}, !.lastActive = "recent"], q)
  BY <1>1 DEF SocketState, Follows
<1>5. \A s : Follows([q EXCEPT !.got = @ \ {s}, !.lastActive = "recent"], q)
  BY <1>1 DEF SocketState, Follows
<1>6. /\ [q EXCEPT !.at = "closed", !.got = {}] \in SocketState
      /\ [q EXCEPT !.at = "closed", !.got = {}].stream = q.stream
      /\ [q EXCEPT !.at = "closed", !.got = {}].sender = q.sender
      /\ [q EXCEPT !.at = "closed", !.got = {}].got = {}
  BY <1>1 DEF SocketState
<1>7. \A s \in Senders : [q EXCEPT !.got = @ \cup {s}] \in SocketState
  BY <1>1 DEF SocketState
<1> QED
  BY <1>2, <1>3, <1>4, <1>5, <1>6, <1>7

\* What they make of a handler.
LEMMA HandlerUpdates ==
    ASSUME NEW h \in HandlerState
    PROVE  /\ [h EXCEPT !.at = "read"] \in HandlerState
           /\ [h EXCEPT !.at = "write"] \in HandlerState
  BY DEF HandlerState

LEMMA BreakType ==
    ASSUME stream \in [Streams -> {"free", "up", "broken"}], NEW k, Break(k)
    PROVE  stream' \in [Streams -> {"free", "up", "broken"}]
  BY DEF Break

\* The pump of the server.
LEMMA PumpInv ==
    ASSUME UdpInv, \/ Pump \/ \E s \in Senders : PumpReads(s)
    PROVE  UdpInv'
<1> USE Numbers DEF UdpInv, peer, public, wires, private
<1>1. ASSUME NEW k \in Streams, OpenStream(k) PROVE UdpInv'
  <2>1. TypeOK'
    <3>1. socket' \in [Sockets -> SocketState]
      BY <1>1 DEF OpenStream, TypeOK, FreeSocket, SocketState
    <3>2. handler' \in [Streams -> HandlerState]
      <4>1. handler' = [handler EXCEPT ![k].at = "open"]
        BY <1>1 DEF OpenStream
      <4>2. handler \in [Streams -> HandlerState]
        BY DEF TypeOK, HandlerState
      <4> QED
        BY <4>1, <4>2 DEF HandlerState
    <3>3. toAgent' \in [Streams -> Seq(Senders)] /\ toServer' \in [Streams -> Seq(Answer)]
      BY <1>1 DEF OpenStream, TypeOK
    <3>4. /\ loop'.at = "read" /\ loop'.stream = k /\ loop'.sender = None
          /\ loop' \in [at : {"dial", "read", "write", "exited"}, stream : {None} \cup Streams,
                        sender : {None} \cup Senders]
      BY <1>1 DEF OpenStream
    <3>5. /\ stream' \in [Streams -> {"free", "up", "broken"}]
          /\ addrs' \in [Streams -> SUBSET Senders]
          /\ replier' \in [Streams -> {"off", "run", "ended"}]
      BY <1>1 DEF OpenStream, TypeOK
    <3> QED
      BY <1>1, <3>1, <3>2, <3>3, <3>4, <3>5 DEF OpenStream, TypeOK, SocketState, HandlerState
  <2>2. WireInv'
    <3>1. toAgent'[k] = <<>> /\ toServer'[k] = <<>>
      BY <1>1 DEF OpenStream, TypeOK
    <3>2. ASSUME NEW n \in Streams \ {k}
          PROVE  toAgent'[n] = toAgent[n] /\ toServer'[n] = toServer[n] /\ addrs'[n] = addrs[n]
      BY <1>1 DEF OpenStream, TypeOK
    <3>3. ASSUME NEW n \in Streams \ {k} PROVE Routable(n)' = Routable(n)
      BY <3>2 DEF Routable
    <3>4. \A S : <<>> \in Seq(S)
      OBVIOUS
    <3> QED
      BY <3>1, <3>2, <3>3, <3>4 DEF WireInv
  <2>3. LoopInv'
    BY <1>1 DEF OpenStream, LoopInv
  <2>4. SocketInv'
    BY <1>1 DEF OpenStream, TypeOK, SocketInv, FreeSocket
  <2>5. HandlerInv'
    BY <1>1 DEF OpenStream, TypeOK, HandlerInv, Unused
  <2>6. SessionsUsable'
    BY <1>1 DEF OpenStream, TypeOK, HandlerInv, SessionsUsable, Unused
  <2> QED
    BY <2>1, <2>2, <2>3, <2>4, <2>5, <2>6
<1>2. ASSUME UNCHANGED <<peer, toAgent, toServer, addrs, replier, private, sent>>,
             \/ (loop' = [loop EXCEPT !.at = "exited"] /\ loop.at = "dial" /\ UNCHANGED stream)
             \/ (PumpReturns /\ loop.at \in {"read", "write"})
      PROVE  UdpInv'
  <2>0. loop'.at \in {"dial", "exited"} /\ loop'.stream = None
    BY <1>2 DEF PumpReturns, TypeOK
  <2>1. TypeOK'
    <3>1. stream' \in [Streams -> {"free", "up", "broken"}]
      <4>1. stream' = stream \/ Break(loop.stream)
        BY <1>2 DEF PumpReturns
      <4>2. stream \in [Streams -> {"free", "up", "broken"}]
        BY DEF TypeOK
      <4> QED
        BY <4>1, <4>2, BreakType
    <3>2. loop' \in [at : {"dial", "read", "write", "exited"}, stream : {None} \cup Streams,
                     sender : {None} \cup Senders]
      BY <1>2 DEF PumpReturns, TypeOK
    <3> QED
      BY <1>2, <2>0, <3>1, <3>2 DEF TypeOK
  <2>2. WireInv' /\ SocketInv' /\ HandlerInv' /\ SessionsUsable'
    <3>1. UNCHANGED <<toAgent, toServer, addrs, handler, sessions, socket>>
      BY <1>2
    <3>2. WireInv'
      BY <3>1 DEF WireInv, Routable
    <3>3. SocketInv'
      BY <3>1 DEF SocketInv
    <3>4. HandlerInv' /\ SessionsUsable'
      BY <3>1 DEF HandlerInv, SessionsUsable
    <3> QED
      BY <3>2, <3>3, <3>4
  <2>3. LoopInv'
    BY <2>0 DEF LoopInv
  <2> QED
    BY <2>1, <2>2, <2>3
<1>3. CASE LoopExits
  BY <1>2, <1>3 DEF LoopExits
<1>4. CASE PumpChecks
  BY <1>2, <1>4 DEF PumpChecks
<1>5. CASE PumpWrites
  <2>1. CASE stream[loop.stream] = "up"
    <3> DEFINE k == loop.stream
    <3>1. k \in Streams /\ loop.sender \in addrs[k] /\ addrs[k] \subseteq Senders
      BY <1>5 DEF PumpWrites, LoopInv, TypeOK
    <3>2. /\ toAgent' = [toAgent EXCEPT ![k] = Append(@, loop.sender)]
          /\ loop' = [loop EXCEPT !.at = "read", !.sender = None] /\ loop.at = "write"
          /\ UNCHANGED <<peer, stream, toServer, addrs, replier, private, sent>>
      BY <1>5, <2>1 DEF PumpWrites
    <3>3. Append(toAgent[k], loop.sender) \in Seq(addrs[k])
      <4>1. toAgent[k] \in Seq(addrs[k])
        BY <3>1 DEF WireInv
      <4> QED
        BY <3>1, <4>1, SeqAppend
    <3>4. WireInv'
      <4>1. ASSUME NEW n \in Streams PROVE toAgent'[n] \in Seq(addrs[n])
        <5>1. n # k => toAgent'[n] = toAgent[n]
          BY <3>2 DEF TypeOK
        <5>2. n = k => toAgent'[n] = Append(toAgent[k], loop.sender)
          BY <3>2 DEF TypeOK
        <5> QED
          BY <3>3, <5>1, <5>2 DEF WireInv
      <4>2. ASSUME NEW n \in Streams PROVE Routable(n)' = Routable(n)
        BY <3>2 DEF Routable
      <4> QED
        BY <3>2, <4>1, <4>2 DEF WireInv
    <3>5. toAgent' \in [Streams -> Seq(Senders)]
      BY <3>1, <3>2 DEF TypeOK
    <3>6. TypeOK'
      BY <3>1, <3>2, <3>5 DEF TypeOK
    <3> QED
      BY <3>2, <3>4, <3>6 DEF LoopInv, SocketInv, HandlerInv, SessionsUsable
  <2>2. CASE stream[loop.stream] # "up"
    BY <1>2, <1>5, <2>2 DEF PumpWrites
  <2> QED
    BY <2>1, <2>2
<1>6. ASSUME NEW s \in Senders, PumpReads(s) PROVE UdpInv'
  <2>1. /\ loop.stream \in Streams
        /\ addrs' = [addrs EXCEPT ![loop.stream] = @ \cup {s}]
        /\ loop' = [loop EXCEPT !.at = "write", !.sender = s]
        /\ UNCHANGED <<peer, wires, replier, private>>
    BY <1>6 DEF PumpReads, TypeOK
  <2>2. \A k \in Streams : addrs[k] \subseteq addrs'[k]
    BY <2>1 DEF TypeOK
  <2>3. TypeOK'
    <3>1. addrs' \in [Streams -> SUBSET Senders]
      BY <2>1 DEF TypeOK
    <3>2. /\ loop' \in [at : {"dial", "read", "write", "exited"}, stream : {None} \cup Streams,
                        sender : {None} \cup Senders]
          /\ loop'.at = "write" /\ loop'.stream = loop.stream
      BY <2>1 DEF TypeOK
    <3>3. sent' \in Nat
      <4>1. sent' = sent + 1 /\ sent \in Nat
        BY <1>6 DEF PumpReads, TypeOK
      <4> QED
        BY <4>1
    <3> QED
      BY <2>1, <3>1, <3>2, <3>3 DEF TypeOK
  <2>4. WireInv'
    <3>1. ASSUME NEW k \in Streams PROVE toAgent'[k] \in Seq(addrs'[k])
      BY <2>1, <2>2, SeqGrows DEF WireInv
    <3>2. ASSUME NEW k \in Streams PROVE toServer'[k] \in Seq(Routable(k)')
      <4>1. Routable(k) \subseteq Routable(k)'
        BY <2>2 DEF Routable
      <4> QED
        BY <2>1, <4>1, SeqGrows DEF WireInv
    <3> QED
      BY <3>1, <3>2 DEF WireInv
  <2>5. LoopInv'
    BY <2>1 DEF LoopInv, TypeOK
  <2>6. SocketInv'
    BY <2>1, <2>2 DEF SocketInv, TypeOK
  <2> QED
    BY <2>1, <2>3, <2>4, <2>5, <2>6 DEF HandlerInv, SessionsUsable
<1> QED
  BY <1>1, <1>3, <1>4, <1>5, <1>6 DEF Pump

\* The goroutine for answers, and what only changes the agent's or the tunnel's
\* state.
LEMMA QuietInv ==
    ASSUME UdpInv,
           \/ \E k \in Streams : Replier(k)
           \/ AgentConnects \/ AgentLearns \/ AgentDrops \/ StopListener \/ UNCHANGED vars
    PROVE  UdpInv'
<1> USE Numbers DEF UdpInv, peer, public, wires, private
<1>1. ASSUME NEW k \in Streams, Replier(k) PROVE UdpInv'
  <2>1. \/ toServer' = [toServer EXCEPT ![k] = Tail(@)] /\ toServer[k] # <<>>
        \/ toServer' = [toServer EXCEPT ![k] = <<>>]
    BY <1>1 DEF Replier, ReplierReads, ReplierEnds
  <2>2. /\ UNCHANGED <<peer, stream, toAgent, loop, addrs, sent, private>>
        /\ replier' \in [Streams -> {"off", "run", "ended"}]
    BY <1>1 DEF Replier, ReplierReads, ReplierEnds, TypeOK
  <2>3. ASSUME NEW n \in Streams
        PROVE  toServer'[n] \in Seq(Routable(n)) /\ Routable(n)' = Routable(n)
    <3>1. toServer[n] \in Seq(Routable(n)) /\ DOMAIN toServer = Streams
      BY DEF WireInv, TypeOK
    <3>2. /\ <<>> \in Seq(Routable(n))
          /\ toServer[n] # <<>> => Tail(toServer[n]) \in Seq(Routable(n))
      BY <3>1, SeqTail
    <3>3. toServer'[n] = toServer[n] \/ toServer'[n] = <<>>
          \/ (toServer[n] # <<>> /\ toServer'[n] = Tail(toServer[n]))
      BY <2>1, <3>1
    <3> QED
      BY <2>2, <3>1, <3>2, <3>3 DEF Routable
  <2>4. WireInv'
    BY <2>2, <2>3 DEF WireInv
  <2>5. toServer' \in [Streams -> Seq(Answer)]
    <3>1. \A n \in Streams : Routable(n) \subseteq Answer
      BY DEF Routable
    <3>2. \A n \in Streams : toServer'[n] \in Seq(Answer)
      BY <2>3, <3>1, SeqGrows
    <3>3. toServer' = [n \in Streams |-> toServer'[n]]
      BY <2>1 DEF TypeOK
    <3> QED
      BY <3>2, <3>3
  <2>6. TypeOK'
    BY <2>2, <2>5 DEF TypeOK
  <2> QED
    BY <2>2, <2>4, <2>6 DEF LoopInv, SocketInv, HandlerInv, SessionsUsable
<1>2. ASSUME UNCHANGED <<public, toAgent, toServer, private>>,
             online' \in BOOLEAN, known' \in BOOLEAN, stop' \in BOOLEAN, drops' \in Nat,
             stream' \in [Streams -> {"free", "up", "broken"}]
      PROVE  UdpInv'
  <2>1. TypeOK'
    BY <1>2 DEF TypeOK
  <2>2. WireInv'
    BY <1>2 DEF WireInv, Routable
  <2>3. LoopInv' /\ SocketInv'
    BY <1>2 DEF LoopInv, SocketInv
  <2>4. HandlerInv' /\ SessionsUsable'
    BY <1>2 DEF HandlerInv, SessionsUsable
  <2> QED
    BY <2>1, <2>2, <2>3, <2>4
<1>3. CASE AgentConnects
  BY <1>2, <1>3 DEF AgentConnects, TypeOK
<1>4. CASE AgentLearns
  BY <1>2, <1>4 DEF AgentLearns, TypeOK
<1>5. CASE AgentDrops
  <2>1. /\ UNCHANGED <<public, toAgent, toServer, private>> /\ online' = FALSE
        /\ known' = known /\ stop' = stop /\ drops' = drops + 1
    BY <1>5 DEF AgentDrops
  <2>2. known \in BOOLEAN /\ stop \in BOOLEAN /\ drops \in Nat
    BY DEF TypeOK
  <2>3. stream' \in [Streams -> {"free", "up", "broken"}]
    BY <1>5 DEF AgentDrops, TypeOK
  <2>4. drops' \in Nat
    BY <2>1, <2>2
  <2> QED
    BY <1>2, <2>1, <2>2, <2>3, <2>4
<1>6. CASE StopListener
  BY <1>2, <1>6 DEF StopListener, TypeOK
<1>7. CASE UNCHANGED vars
  BY <1>2, <1>7 DEF vars, TypeOK
<1> QED
  BY <1>1, <1>3, <1>4, <1>5, <1>6, <1>7

\* What the agent's goroutines leave alone.
AgentSide == UNCHANGED <<peer, public>>

\* Parts of the invariant that a step of the agent leaves to its queues, and to
\* its sockets and sessions.
LEMMA AgentStep ==
    ASSUME UdpInv, AgentSide,
           stream' \in [Streams -> {"free", "up", "broken"}],
           toAgent' \in [Streams -> Seq(Senders)], toServer' \in [Streams -> Seq(Answer)],
           \A k \in Streams : toAgent'[k] \in Seq(addrs[k]) /\ toServer'[k] \in Seq(Routable(k)),
           handler' \in [Streams -> HandlerState], socket' \in [Sockets -> SocketState],
           sessions' \in [Streams -> [Senders -> {None} \cup Sockets]],
           SocketInv', HandlerInv', SessionsUsable'
    PROVE  UdpInv'
<1>1. UNCHANGED <<online, known, stop, drops, loop, addrs, replier, sent>>
  BY DEF AgentSide, peer, public
<1>2. TypeOK'
  BY <1>1 DEF UdpInv, TypeOK, SocketState, HandlerState
<1>3. \A k \in Streams : Routable(k)' = Routable(k)
  BY <1>1 DEF Routable
<1>4. WireInv' /\ LoopInv'
  BY <1>1, <1>3 DEF UdpInv, WireInv, LoopInv
<1> QED
  BY <1>2, <1>4 DEF UdpInv

\* The same with queues and streams untouched.
LEMMA SocketStep ==
    ASSUME UdpInv, AgentSide, UNCHANGED wires,
           handler' \in [Streams -> HandlerState], socket' \in [Sockets -> SocketState],
           sessions' \in [Streams -> [Senders -> {None} \cup Sockets]],
           SocketInv', HandlerInv', SessionsUsable'
    PROVE  UdpInv'
<1>1. /\ stream' \in [Streams -> {"free", "up", "broken"}]
      /\ toAgent' \in [Streams -> Seq(Senders)] /\ toServer' \in [Streams -> Seq(Answer)]
  BY DEF wires, UdpInv, TypeOK
<1>2. \A k \in Streams : toAgent'[k] \in Seq(addrs[k]) /\ toServer'[k] \in Seq(Routable(k))
  BY DEF wires, UdpInv, WireInv
<1> QED
  BY <1>1, <1>2, AgentStep

\* The handler of a stream, step by step.
LEMMA HandlerStep ==
    ASSUME UdpInv, NEW k \in Streams, Handler(k)
    PROVE  UdpInv'
<1> USE Numbers
<1>t. /\ handler \in [Streams -> HandlerState] /\ socket \in [Sockets -> SocketState]
      /\ sessions \in [Streams -> [Senders -> {None} \cup Sockets]]
      /\ toAgent \in [Streams -> Seq(Senders)] /\ toServer \in [Streams -> Seq(Answer)]
      /\ stream \in [Streams -> {"free", "up", "broken"}] /\ addrs \in [Streams -> SUBSET Senders]
  BY DEF UdpInv, TypeOK, SocketState, HandlerState
<1>i. SocketInv /\ HandlerInv /\ SessionsUsable /\ WireInv
  BY DEF UdpInv
<1>1. CASE HandlerOpens(k)
  <2>1. /\ AgentSide /\ UNCHANGED <<toServer, sessions, socket>> /\ handler[k].at = "open"
        /\ handler' = [handler EXCEPT ![k].at = "read"] \/ handler' = [handler EXCEPT ![k] = Idle]
        /\ toAgent' = toAgent \/ toAgent' = [toAgent EXCEPT ![k] = <<>>]
        /\ stream' = stream \/ Break(k)
    BY <1>1 DEF HandlerOpens, AgentSide
  <2>2. handler' \in [Streams -> HandlerState]
    <3>1. Idle \in HandlerState
      BY DEF HandlerState, Idle
    <3>2. [handler[k] EXCEPT !.at = "read"] \in HandlerState
      BY <1>t, HandlerUpdates
    <3> QED
      BY <1>t, <2>1, <3>1, <3>2
  <2>3. /\ \A n \in Streams \ {k} : handler'[n] = handler[n]
        /\ handler'[k].at \in {"read", "off"}
    BY <1>t, <2>1 DEF HandlerState, Idle
  <2>4. stream' \in [Streams -> {"free", "up", "broken"}]
    BY <1>t, <2>1, BreakType
  <2>5. toAgent' \in [Streams -> Seq(Senders)]
    <3>1. <<>> \in Seq(Senders)
      OBVIOUS
    <3> QED
      BY <1>t, <2>1, <3>1
  <2>6. \A n \in Streams : toAgent'[n] \in Seq(addrs[n]) /\ toServer'[n] \in Seq(Routable(n))
    <3>1. \A n \in Streams : toAgent'[n] = toAgent[n] \/ toAgent'[n] = <<>>
      BY <1>t, <2>1
    <3>2. \A S : <<>> \in Seq(S)
      OBVIOUS
    <3> QED
      BY <1>i, <2>1, <3>1, <3>2 DEF WireInv
  <2>7. HandlerInv'
    BY <1>i, <2>1, <2>3 DEF HandlerInv
  <2>8. SocketInv' /\ SessionsUsable'
    BY <1>i, <2>1 DEF SocketInv, SessionsUsable, AgentSide, public
  <2> QED
    BY <1>t, <2>1, <2>2, <2>4, <2>5, <2>6, <2>7, <2>8, AgentStep
<1>2. CASE HandlerLooksUp(k)
  <2> DEFINE s == Head(toAgent[k])
             found == sessions[k][s]
             held(i) == [at |-> "store", sender |-> s, sock |-> i]
             fresh == [FreeSocket EXCEPT !.at = "open", !.stream = k, !.sender = s,
                                         !.reader = "read"]
  <2>0. /\ AgentSide /\ UNCHANGED <<stream, toServer>>
        /\ handler[k].at = "read" /\ toAgent[k] # <<>>
        /\ toAgent' = [toAgent EXCEPT ![k] = Tail(@)]
    BY <1>2 DEF HandlerLooksUp, AgentSide
  <2>1. s \in addrs[k] /\ s \in Senders /\ Tail(toAgent[k]) \in Seq(addrs[k])
        /\ Tail(toAgent[k]) \in Seq(Senders)
    BY <1>t, <1>i, <2>0, SeqTail DEF WireInv
  <2>2. /\ toAgent' \in [Streams -> Seq(Senders)]
        /\ \A n \in Streams : toAgent'[n] \in Seq(addrs[n]) /\ toServer'[n] \in Seq(Routable(n))
    BY <1>t, <1>i, <2>0, <2>1 DEF WireInv
  <2> HIDE DEF s
  <2>3. CASE found # None /\ handler' = [handler EXCEPT ![k] = held(found)]
             /\ UNCHANGED <<sessions, socket>>
    <3>1. found \in Sockets /\ socket[found].stream = k /\ socket[found].sender = s
      BY <1>t, <1>i, <2>1, <2>3 DEF SessionsUsable
    <3>2. handler' \in [Streams -> HandlerState]
      BY <1>t, <2>1, <2>3, <3>1 DEF HandlerState
    <3>3. handler'[k] = held(found) /\ \A n \in Streams \ {k} : handler'[n] = handler[n]
      BY <1>t, <2>3
    <3>4. HandlerInv'
      BY <1>i, <2>3, <3>1, <3>3 DEF HandlerInv
    <3>5. SocketInv' /\ SessionsUsable'
      BY <1>i, <2>0, <2>3 DEF SocketInv, SessionsUsable, AgentSide, public
    <3> QED
      BY <1>t, <2>0, <2>2, <2>3, <3>2, <3>4, <3>5, AgentStep
  <2>4. ASSUME NEW i \in Sockets, found = None, FreeFor(i), socket' = [socket EXCEPT ![i] = fresh],
               sessions' = [sessions EXCEPT ![k][s] = i],
               handler' = [handler EXCEPT ![k] = held(i)]
        PROVE  UdpInv'
    <3>1. handler' \in [Streams -> HandlerState]
      BY <1>t, <2>1, <2>4 DEF HandlerState
    <3>2. fresh \in SocketState
      BY <2>1 DEF SocketState, FreeSocket
    <3>3. /\ socket' \in [Sockets -> SocketState]
          /\ socket'[i] = fresh /\ \A j \in Sockets \ {i} : socket'[j] = socket[j]
      BY <1>t, <2>4, <3>2
    <3>4. sessions' \in [Streams -> [Senders -> {None} \cup Sockets]]
      BY <1>t, <2>1, <2>4
    <3>5. /\ fresh.at = "open" /\ fresh.stream = k /\ fresh.sender = s /\ fresh.got = {}
      BY DEF FreeSocket
    <3>6. addrs' = addrs
      BY <2>0 DEF AgentSide, public
    <3> HIDE DEF fresh
    <3>7. SocketInv'
      BY <1>i, <2>1, <3>3, <3>5, <3>6 DEF SocketInv
    <3>8. /\ handler'[k].at = "store" /\ handler'[k].sender = s /\ handler'[k].sock = i
          /\ \A n \in Streams \ {k} : handler'[n] = handler[n]
      BY <1>t, <2>4
    <3>9. \A n \in Streams \ {k} : sessions'[n] = sessions[n]
      BY <1>t, <2>4
    <3>10. HandlerInv'
      <4>1. \A n \in Streams : handler[n].sock # i
        BY <2>4 DEF FreeFor
      <4>2. ASSUME NEW n \in Streams \ {k}, handler[n].at \in {"store", "write"}
            PROVE  socket'[handler[n].sock] = socket[handler[n].sock]
        BY <1>i, <3>3, <4>1, <4>2 DEF HandlerInv
      <4> QED
        BY <1>i, <3>3, <3>5, <3>8, <3>9, <4>2 DEF HandlerInv
    <3>11. SessionsUsable'
      <4>1. \A n \in Streams, t \in Senders : sessions[n][t] # i
        BY <1>i, <2>4 DEF SessionsUsable, FreeFor
      <4>2. /\ sessions'[k][s] = i
            /\ \A n \in Streams, t \in Senders :
                   n # k \/ t # s => sessions'[n][t] = sessions[n][t]
        BY <1>t, <2>1, <2>4
      <4> SUFFICES ASSUME NEW n \in Streams, NEW t \in Senders, sessions'[n][t] # None
                   PROVE  LET j == sessions'[n][t] IN
                          socket'[j].at = "open" /\ socket'[j].stream = n /\ socket'[j].sender = t
        BY DEF SessionsUsable
      <4>3. CASE n = k /\ t = s
        BY <3>3, <3>5, <4>2, <4>3
      <4>4. CASE ~(n = k /\ t = s)
        <5>1. /\ sessions'[n][t] = sessions[n][t] /\ sessions[n][t] \in Sockets
              /\ sessions[n][t] # i
          BY <1>t, <4>1, <4>2, <4>4
        <5>2. socket'[sessions[n][t]] = socket[sessions[n][t]]
          BY <3>3, <5>1
        <5> QED
          BY <1>i, <5>1, <5>2 DEF SessionsUsable
      <4> QED
        BY <4>3, <4>4
    <3> QED
      BY <1>t, <2>0, <2>2, <3>1, <3>3, <3>4, <3>7, <3>10, <3>11, AgentStep
  <2>5. CASE UNCHANGED private
    <3>1. UNCHANGED <<handler, sessions, socket, addrs>>
      BY <2>0, <2>5 DEF private, AgentSide, public
    <3>2. SocketInv' /\ HandlerInv' /\ SessionsUsable'
      BY <1>i, <3>1 DEF SocketInv, HandlerInv, SessionsUsable
    <3> QED
      BY <1>t, <2>0, <2>2, <3>1, <3>2, AgentStep
  <2> QED
    BY <1>2, <2>3, <2>4, <2>5 DEF HandlerLooksUp, s
<1>3. CASE HandlerStores(k)
  <2>1. /\ AgentSide /\ UNCHANGED wires /\ sessions' = sessions /\ handler[k].at = "store"
        /\ socket' = [socket EXCEPT ![handler[k].sock].lastActive = "recent"]
        /\ handler' = [handler EXCEPT ![k].at = "write"] /\ addrs' = addrs
    BY <1>3 DEF HandlerStores, AgentSide, public
  <2>2. handler' \in [Streams -> HandlerState] /\ socket' \in [Sockets -> SocketState]
    <3>1. [handler[k] EXCEPT !.at = "write"] \in HandlerState
      BY <1>t, HandlerUpdates
    <3>2. handler[k].sock \in Sockets
      BY <1>i, <2>1 DEF HandlerInv
    <3>3. [socket[handler[k].sock] EXCEPT !.lastActive = "recent"] \in SocketState
      <4>1. socket[handler[k].sock] \in SocketState
        BY <1>t, <3>2
      <4> QED
        BY <4>1, SocketUpdates DEF Follows
    <3> QED
      BY <1>t, <2>1, <3>1, <3>2, <3>3
  <2>3. \A i \in Sockets : /\ socket'[i].at = socket[i].at /\ socket'[i].stream = socket[i].stream
                           /\ socket'[i].sender = socket[i].sender /\ socket'[i].got = socket[i].got
                           /\ socket[i].stream = None => socket'[i] = socket[i]
    BY <1>t, <1>i, <2>1 DEF SocketState, HandlerInv
  <2>4. /\ handler'[k].at = "write" /\ handler'[k].sock = handler[k].sock
        /\ handler'[k].sender = handler[k].sender
        /\ \A n \in Streams \ {k} : handler'[n] = handler[n]
    BY <1>t, <2>1 DEF HandlerState
  <2>5. SocketInv'
    BY <1>i, <2>1, <2>3 DEF SocketInv
  <2>6. HandlerInv'
    BY <1>i, <2>1, <2>3, <2>4 DEF HandlerInv
  <2>7. SessionsUsable'
    BY <1>t, <1>i, <2>1, <2>3 DEF SessionsUsable
  <2> QED
    BY <1>t, <2>1, <2>2, <2>5, <2>6, <2>7, SocketStep
<1>4. CASE HandlerWrites(k)
  <2> DEFINE i == handler[k].sock
  <2>1. /\ AgentSide /\ UNCHANGED wires /\ sessions' = sessions /\ handler[k].at = "write"
        /\ handler' = [handler EXCEPT ![k] = [Idle EXCEPT !.at = "read"]] /\ addrs' = addrs
        /\ \/ socket' = socket
           \/ socket' = [socket EXCEPT ![i].got = @ \cup {handler[k].sender}]
    BY <1>4 DEF HandlerWrites, AgentSide, public
  <2>2. i \in Sockets /\ socket[i].stream = k /\ socket[i].sender = handler[k].sender
    BY <1>i, <2>1 DEF HandlerInv
  <2>3. socket[i].sender \in Senders
    BY <1>t, <1>i, <2>2 DEF SocketInv
  <2>4. handler' \in [Streams -> HandlerState]
    BY <1>t, <2>1 DEF HandlerState, Idle
  <2>5. socket' \in [Sockets -> SocketState]
    <3>1. [socket[i] EXCEPT !.got = @ \cup {handler[k].sender}] \in SocketState
      <4>1. socket[i] \in SocketState /\ handler[k].sender \in Senders
        BY <1>t, <2>2, <2>3
      <4> QED
        BY <4>1, SocketUpdates
    <3> QED
      BY <1>t, <2>1, <2>2, <3>1
  <2>6. \A j \in Sockets : /\ socket'[j].at = socket[j].at /\ socket'[j].stream = socket[j].stream
                           /\ socket'[j].sender = socket[j].sender
                           /\ socket'[j].got \subseteq socket[j].got \cup {socket[j].sender}
                           /\ socket[j].stream = None => socket'[j] = socket[j]
    <3>1. CASE socket' = socket
      BY <3>1
    <3>2. CASE socket' = [socket EXCEPT ![i].got = @ \cup {handler[k].sender}]
      <4>1. \A j \in Sockets \ {i} : socket'[j] = socket[j]
        BY <1>t, <3>2
      <4>2. socket'[i] = [socket[i] EXCEPT !.got = @ \cup {handler[k].sender}]
        BY <1>t, <2>2, <3>2
      <4>3. /\ socket'[i].at = socket[i].at /\ socket'[i].stream = socket[i].stream
            /\ socket'[i].sender = socket[i].sender
            /\ socket'[i].got = socket[i].got \cup {handler[k].sender}
        BY <1>t, <2>2, <4>2 DEF SocketState
      <4> QED
        BY <2>2, <4>1, <4>3
    <3> QED
      BY <2>1, <3>1, <3>2
  <2>7. handler'[k].at = "read" /\ \A n \in Streams \ {k} : handler'[n] = handler[n]
    BY <1>t, <2>1 DEF Idle
  <2>8. SocketInv'
    BY <1>i, <2>1, <2>6 DEF SocketInv
  <2>9. HandlerInv'
    BY <1>i, <2>1, <2>6, <2>7 DEF HandlerInv
  <2>10. SessionsUsable'
    BY <1>t, <1>i, <2>1, <2>6 DEF SessionsUsable
  <2> QED
    BY <1>t, <2>1, <2>4, <2>5, <2>8, <2>9, <2>10, SocketStep
<1>5. CASE HandlerEnds(k)
  <2>1. /\ AgentSide /\ UNCHANGED <<stream, toServer, socket, addrs>>
        /\ handler' = [handler EXCEPT ![k] = Idle]
        /\ sessions' = [sessions EXCEPT ![k] = [s \in Senders |-> None]]
        /\ toAgent' = [toAgent EXCEPT ![k] = <<>>]
    BY <1>5 DEF HandlerEnds, AgentSide, public
  <2>2. /\ handler' \in [Streams -> HandlerState] /\ toAgent' \in [Streams -> Seq(Senders)]
        /\ sessions' \in [Streams -> [Senders -> {None} \cup Sockets]]
    BY <1>t, <2>1 DEF HandlerState, Idle
  <2>3. /\ handler'[k].at = "off" /\ \A n \in Streams \ {k} : handler'[n] = handler[n]
        /\ \A s \in Senders : sessions'[k][s] = None
        /\ \A n \in Streams \ {k} : sessions'[n] = sessions[n]
    BY <1>t, <2>1 DEF Idle
  <2>4. \A n \in Streams : toAgent'[n] \in Seq(addrs[n]) /\ toServer'[n] \in Seq(Routable(n))
    BY <1>t, <1>i, <2>1 DEF WireInv
  <2>5. SocketInv'
    BY <1>i, <2>1 DEF SocketInv
  <2>6. HandlerInv' /\ SessionsUsable'
    BY <1>i, <2>1, <2>3 DEF HandlerInv, SessionsUsable
  <2> QED
    BY <1>t, <2>1, <2>2, <2>4, <2>5, <2>6, AgentStep
<1> QED
  BY <1>1, <1>2, <1>3, <1>4, <1>5 DEF Handler

\* The sockets: the reaper, time, and the readers.
LEMMA SocketsStep ==
    ASSUME UdpInv, \/ \E k \in Streams : Reap(k)
                   \/ \E i \in Sockets : Age(i) \/ ReaderForwards(i) \/ ReaderEnds(i)
    PROVE  UdpInv'
<1> USE Numbers
<1>t. /\ handler \in [Streams -> HandlerState] /\ socket \in [Sockets -> SocketState]
      /\ sessions \in [Streams -> [Senders -> {None} \cup Sockets]]
      /\ toAgent \in [Streams -> Seq(Senders)] /\ toServer \in [Streams -> Seq(Answer)]
      /\ stream \in [Streams -> {"free", "up", "broken"}] /\ addrs \in [Streams -> SUBSET Senders]
  BY DEF UdpInv, TypeOK, SocketState, HandlerState
<1>i. SocketInv /\ HandlerInv /\ SessionsUsable /\ WireInv
  BY DEF UdpInv
<1> DEFINE Kept(i) == /\ socket'[i].stream = socket[i].stream
                      /\ socket'[i].sender = socket[i].sender
                      /\ socket'[i].got \subseteq socket[i].got
                      /\ socket[i].stream = None => socket'[i] = socket[i]
\* a socket keeps its stream and sender and gets nothing new
<1>1. ASSUME UNCHANGED <<addrs, handler>>, \A i \in Sockets : Kept(i),
             \A k \in Streams, s \in Senders : sessions'[k][s] \in {sessions[k][s], None}
      PROVE  SocketInv' /\ HandlerInv'
  <2>1. SocketInv'
    BY <1>i, <1>1 DEF SocketInv
  <2>2. HandlerInv'
    BY <1>i, <1>1 DEF HandlerInv
  <2> QED
    BY <2>1, <2>2
<1>2. ASSUME NEW k \in Streams, Reap(k) PROVE UdpInv'
  <2>1. /\ AgentSide /\ UNCHANGED wires /\ handler' = handler /\ addrs' = addrs
        /\ socket' = Close(Stale(k))
        /\ sessions' = [sessions EXCEPT ![k] =
                           [s \in Senders |-> IF @[s] \in Stale(k) THEN None ELSE @[s]]]
    BY <1>2 DEF Reap, AgentSide, public
  <2>2. \A i \in Stale(k) : i \in Sockets /\ socket[i].stream = k
    BY <1>t, <1>i DEF Stale, SessionsUsable
  <2>3. \A i \in Sockets : /\ i \notin Stale(k) => socket'[i] = socket[i]
                           /\ i \in Stale(k) => socket'[i] = [socket[i] EXCEPT !.at = "closed",
                                                                              !.got = {}]
    BY <2>1 DEF Close
  <2>4. socket' \in [Sockets -> SocketState]
    <3>1. \A i \in Sockets : [socket[i] EXCEPT !.at = "closed", !.got = {}] \in SocketState
      BY <1>t, SocketUpdates
    <3> QED
      BY <1>t, <2>1, <3>1 DEF Close
  <2>5. ASSUME NEW i \in Sockets PROVE Kept(i)
    <3>1. CASE i \in Stale(k)
      <4>1. socket[i] \in SocketState
        BY <1>t
      <4>2. /\ socket'[i].stream = socket[i].stream /\ socket'[i].sender = socket[i].sender
            /\ socket'[i].got = {}
        BY <2>3, <3>1, <4>1, SocketUpdates
      <4> QED
        BY <2>2, <3>1, <4>2
    <3>2. CASE i \notin Stale(k)
      BY <2>3, <3>2
    <3> QED
      BY <3>1, <3>2
  <2>6. /\ sessions' \in [Streams -> [Senders -> {None} \cup Sockets]]
        /\ \A n \in Streams \ {k} : sessions'[n] = sessions[n]
        /\ \A s \in Senders : sessions'[k][s] = IF sessions[k][s] \in Stale(k) THEN None
                                                ELSE sessions[k][s]
    BY <1>t, <2>1
  <2>7. SocketInv' /\ HandlerInv'
    <3>1. \A n \in Streams, s \in Senders : sessions'[n][s] \in {sessions[n][s], None}
      BY <2>6
    <3> HIDE DEF Kept
    <3>2. \A i \in Sockets : Kept(i)
      BY <2>5
    <3> QED
      BY <1>1, <2>1, <3>1, <3>2
  <2>8. SessionsUsable'
    <3> SUFFICES ASSUME NEW n \in Streams, NEW t \in Senders, sessions'[n][t] # None
                 PROVE  LET j == sessions'[n][t] IN
                        socket'[j].at = "open" /\ socket'[j].stream = n /\ socket'[j].sender = t
      BY DEF SessionsUsable
    <3>1. sessions'[n][t] = sessions[n][t] /\ (n = k => sessions[n][t] \notin Stale(k))
      BY <2>6
    <3>2. sessions[n][t] \in Sockets
      BY <1>t, <3>1
    <3> DEFINE j == sessions[n][t]
    <3>3. socket[j].at = "open" /\ socket[j].stream = n /\ socket[j].sender = t
      BY <1>i, <3>1 DEF SessionsUsable
    <3>4. j \notin Stale(k)
      BY <2>2, <3>1, <3>3
    <3>5. socket'[j] = socket[j]
      BY <2>3, <3>2, <3>4
    <3> QED
      BY <3>1, <3>3, <3>5
  <2> QED
    BY <1>t, <2>1, <2>4, <2>6, <2>7, <2>8, SocketStep
\* a step that keeps every session, and leaves open sockets open
<1>3. ASSUME UNCHANGED <<addrs, handler, sessions>>,
             \A i \in Sockets : Kept(i) /\ socket'[i].at = socket[i].at
      PROVE  SocketInv' /\ HandlerInv' /\ SessionsUsable'
  <2>1. SocketInv' /\ HandlerInv'
    BY <1>1, <1>3
  <2>2. SessionsUsable'
    <3> SUFFICES ASSUME NEW n \in Streams, NEW t \in Senders, sessions'[n][t] # None
                 PROVE  LET j == sessions'[n][t] IN
                        socket'[j].at = "open" /\ socket'[j].stream = n /\ socket'[j].sender = t
      BY DEF SessionsUsable
    <3>1. sessions'[n][t] = sessions[n][t] /\ sessions[n][t] \in Sockets
      BY <1>t, <1>3
    <3>2. LET j == sessions[n][t] IN
          socket[j].at = "open" /\ socket[j].stream = n /\ socket[j].sender = t
      BY <1>i, <3>1 DEF SessionsUsable
    <3> QED
      BY <1>3, <3>1, <3>2
  <2> QED
    BY <2>1, <2>2
<1>4. ASSUME NEW i \in Sockets, NEW r, Follows(r, socket[i]), socket[i].stream # None,
             socket' = [socket EXCEPT ![i] = r],
             AgentSide, UNCHANGED <<handler, sessions>>
      PROVE  SocketInv' /\ HandlerInv' /\ SessionsUsable' /\ socket' \in [Sockets -> SocketState]
  <2>1. socket'[i] = r /\ \A j \in Sockets \ {i} : socket'[j] = socket[j]
    BY <1>t, <1>4
  <2>2. \A j \in Sockets : Kept(j) /\ socket'[j].at = socket[j].at
    BY <1>4, <2>1 DEF Follows
  <2>4. r \in SocketState
    BY <1>4 DEF Follows
  <2>3. addrs' = addrs
    BY <1>4 DEF AgentSide, public
  <2> QED
    BY <1>t, <1>3, <1>4, <2>2, <2>3, <2>4
<1>5. ASSUME NEW i \in Sockets, Age(i) PROVE UdpInv'
  <2> DEFINE r == [socket[i] EXCEPT !.lastActive = "old"]
  <2>1. Follows(r, socket[i])
    <3>1. socket[i] \in SocketState
      BY <1>t
    <3> QED
      BY <3>1, SocketUpdates
  <2>2. socket[i].stream # None
    BY <1>i, <1>5 DEF Age, SocketInv, FreeSocket
  <2>3. socket' = [socket EXCEPT ![i] = r] /\ AgentSide /\ UNCHANGED wires
        /\ UNCHANGED <<handler, sessions>>
    BY <1>5 DEF Age, AgentSide
  <2> HIDE DEF r
  <2> QED
    BY <1>t, <1>4, <2>1, <2>2, <2>3, SocketStep
<1>6. ASSUME NEW i \in Sockets, ReaderEnds(i) PROVE UdpInv'
  <2> DEFINE r == [socket[i] EXCEPT !.reader = "ended", !.got = {}]
  <2>1. Follows(r, socket[i])
    <3>1. socket[i] \in SocketState
      BY <1>t
    <3> QED
      BY <3>1, SocketUpdates
  <2>2. socket[i].stream # None
    BY <1>i, <1>6 DEF ReaderEnds, SocketInv, FreeSocket
  <2>3. socket' = [socket EXCEPT ![i] = r] /\ AgentSide /\ UNCHANGED wires
        /\ UNCHANGED <<handler, sessions>>
    BY <1>t, <1>6 DEF ReaderEnds, EndReader, AgentSide
  <2> HIDE DEF r
  <2> QED
    BY <1>t, <1>4, <2>1, <2>2, <2>3, SocketStep
<1>7. ASSUME NEW i \in Sockets, ReaderForwards(i) PROVE UdpInv'
  <2> DEFINE k == socket[i].stream
  <2>1. /\ AgentSide /\ UNCHANGED <<stream, toAgent, handler, sessions>>
        /\ socket[i].reader = "read" /\ socket[i].at = "open"
    BY <1>7 DEF ReaderForwards, AgentSide
  <2>2. k \in Streams
    BY <1>t, <1>i, <2>1 DEF SocketInv, FreeSocket, SocketState
  <2>3. PICK s \in socket[i].got :
            IF stream[k] = "up"
            THEN /\ toServer' = [toServer EXCEPT ![k] =
                                    Append(@, [tag |-> socket[i].sender, origin |-> s])]
                 /\ socket' = [socket EXCEPT ![i].got = @ \ {s}, ![i].lastActive = "recent"]
            ELSE /\ socket' = [EndReader(i) EXCEPT ![i].lastActive = "recent"]
                 /\ UNCHANGED toServer
    BY <1>7 DEF ReaderForwards
  <2>4. s \in Senders /\ s = socket[i].sender /\ s \in addrs[k]
    <3>1. socket[i].got \subseteq {socket[i].sender} /\ socket[i].sender \in addrs[k]
      BY <1>i, <2>2 DEF SocketInv
    <3>2. s = socket[i].sender
      BY <2>3, <3>1
    <3>3. addrs[k] \subseteq Senders
      BY <1>t, <2>2
    <3> QED
      BY <3>1, <3>2, <3>3
  <2>5. CASE stream[k] = "up"
    <3> DEFINE a == [tag |-> socket[i].sender, origin |-> s]
               r == [socket[i] EXCEPT !.got = @ \ {s}, !.lastActive = "recent"]
    <3>1. a \in Answer /\ a \in Routable(k)
      BY <2>4 DEF Answer, Routable
    <3>2. toServer' = [toServer EXCEPT ![k] = Append(@, a)]
      BY <2>3, <2>5
    <3>3. Append(toServer[k], a) \in Seq(Answer) /\ Append(toServer[k], a) \in Seq(Routable(k))
      BY <1>t, <1>i, <2>2, <3>1, SeqAppend DEF WireInv
    <3> HIDE DEF a
    <3>4. /\ toServer' \in [Streams -> Seq(Answer)]
          /\ \A n \in Streams : toAgent'[n] \in Seq(addrs[n]) /\ toServer'[n] \in Seq(Routable(n))
      BY <1>t, <1>i, <2>1, <2>2, <3>2, <3>3 DEF WireInv
    <3>5. Follows(r, socket[i])
      <4>1. socket[i] \in SocketState
        BY <1>t
      <4> QED
        BY <4>1, SocketUpdates
    <3>6. socket' = [socket EXCEPT ![i] = r]
      BY <1>t, <2>3, <2>5
    <3> HIDE DEF r
    <3> QED
      BY <1>t, <1>4, <2>1, <2>2, <3>4, <3>5, <3>6, AgentStep
  <2>6. CASE stream[k] # "up"
    <3> DEFINE r == [socket[i] EXCEPT !.reader = "ended", !.got = {}, !.lastActive = "recent"]
    <3>1. Follows(r, socket[i])
      <4>1. socket[i] \in SocketState
        BY <1>t
      <4> QED
        BY <4>1, SocketUpdates
    <3>2. socket' = [socket EXCEPT ![i] = r]
      BY <1>t, <2>3, <2>6 DEF EndReader
    <3>3. UNCHANGED wires
      BY <2>1, <2>3, <2>6 DEF wires
    <3> HIDE DEF r
    <3> QED
      BY <1>t, <1>4, <2>1, <2>2, <3>1, <3>2, <3>3, SocketStep
  <2> QED
    BY <2>5, <2>6
<1> QED
  BY <1>2, <1>5, <1>6, <1>7

LEMMA UdpInvariant == Spec => []UdpInv
<1>1. Init => UdpInv
  <2> SUFFICES ASSUME Init PROVE UdpInv
    OBVIOUS
  <2>0. \A S : <<>> \in Seq(S)
    OBVIOUS
  <2>1. TypeOK
    BY <2>0, Numbers DEF Init, TypeOK, Idle, FreeSocket
  <2>2. WireInv
    BY <2>0 DEF Init, WireInv
  <2>3. LoopInv /\ SocketInv /\ HandlerInv /\ SessionsUsable
    BY DEF Init, LoopInv, SocketInv, HandlerInv, SessionsUsable, Idle, FreeSocket
  <2> QED
    BY <2>1, <2>2, <2>3 DEF UdpInv
<1>2. UdpInv /\ [Next]_vars => UdpInv'
  BY PumpInv, QuietInv, HandlerStep, SocketsStep DEF Next
<1> QED
  BY <1>1, <1>2, PTL DEF Spec

\* Every variable of a UDP tunnel keeps its type: in particular the pump has a
\* stream exactly while it reads or writes one.
THEOREM TypeCorrect == Spec => []TypeOK
<1>1. UdpInv => TypeOK
  BY DEF UdpInv
<1> QED
  BY <1>1, UdpInvariant, PTL

\* Every answer on its way to the server is of a sender whose address the pump
\* recorded for that stream, through any number of redials (udp.go:105-112,
\* 134-141).
THEOREM AnswersFindTheirSender == Spec => []AnswersRoutable
<1>1. UdpInv => AnswersRoutable
  <2> SUFFICES ASSUME UdpInv, NEW k \in Streams, NEW n \in 1..Len(toServer[k])
               PROVE  toServer[k][n].tag \in addrs[k]
    BY DEF AnswersRoutable
  <2>1. toServer[k] \in Seq(Routable(k))
    BY DEF UdpInv, WireInv
  <2>2. toServer[k][n] \in Routable(k)
    BY <2>1
  <2> QED
    BY <2>2 DEF Routable
<1> QED
  BY <1>1, UdpInvariant, PTL

\* An answer carries the name of the sender it answers, however sessions are
\* reaped and sockets used again (udp.go:157-158, 200-248).
THEOREM AnswersNotCrossWired == Spec => []NotCrossWired
<1>1. UdpInv => NotCrossWired
  <2> SUFFICES ASSUME UdpInv, NEW k \in Streams, NEW n \in 1..Len(toServer[k])
               PROVE  toServer[k][n].tag = toServer[k][n].origin
    BY DEF NotCrossWired
  <2>1. toServer[k] \in Seq(Routable(k))
    BY DEF UdpInv, WireInv
  <2>2. toServer[k][n] \in Routable(k)
    BY <2>1
  <2> QED
    BY <2>2 DEF Routable
<1> QED
  BY <1>1, UdpInvariant, PTL

\* A session in the map always has an open socket of its own sender and stream:
\* the reaper removes what it closes (udp.go:187-195).
THEOREM SessionsStayUsable == Spec => []SessionsUsable
<1>1. UdpInv => SessionsUsable
  BY DEF UdpInv
<1> QED
  BY <1>1, UdpInvariant, PTL
=============================================================================
