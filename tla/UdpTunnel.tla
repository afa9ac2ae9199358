------------------------------ MODULE UdpTunnel ------------------------------
(***************************************************************************)
(* One UDP tunnel (internal/tunnel/udp.go): the server's public socket,    *)
(* paired with one yamux stream to the agent at a time, and the agent's    *)
(* local sockets, one for each public sender of a stream.                  *)
(*                                                                         *)
(* A datagram is its sender, an answer the sender it answers.  Bytes are   *)
(* counted in module Traffic.  A stream that either end closed, or whose   *)
(* session is lost, is broken: writes fail, reads fail once or before what *)
(* is buffered has been read.                                              *)
(***************************************************************************)
EXTENDS Naturals, Sequences

CONSTANTS
    Senders,       \* public addresses
    MaxStreams,    \* bound: streams in existence at a time
    MaxSockets,    \* bound: the agent's sockets in existence at a time
    MaxDatagrams,  \* bound: datagrams of all senders
    MaxDrops       \* bound: losses of the agent's session

Streams == 1..MaxStreams
Sockets == 1..MaxSockets
None == 0

ASSUME UdpAssumption ==
    /\ MaxStreams \in Nat \ {0} /\ MaxSockets \in Nat \ {0}
    /\ MaxDatagrams \in Nat /\ MaxDrops \in Nat
    /\ None \notin Senders

VARIABLES
    online,      \* the agent has a session in Server.sessions
    known,       \* the agent's targets hold the tunnel, and its local address resolves
    stop,        \* the listener was cancelled and its socket closed
    loop,        \* serveUDPTunnel and runUDPSession: position, stream, datagram held
    stream,      \* each stream: free, up or broken
    toAgent,     \* UDPPackets in flight, per stream
    toServer,
    addrs,       \* runUDPSession's addrs, per stream
    replier,     \* its goroutine; "ended" is a closed done
    handler,     \* handleUDPStream: position, sender and socket at hand
    sessions,    \* its sessions, per stream and sender
    socket,      \* the agent's sockets, with their session and reader goroutine
    sent, drops  \* counters of the bounds

vars == <<online, known, stop, loop, stream, toAgent, toServer, addrs, replier, handler,
          sessions, socket, sent, drops>>
peer    == <<online, known, stop, drops>>
public  == <<loop, addrs, replier, sent>>
wires   == <<stream, toAgent, toServer>>
private == <<handler, sessions, socket>>

Answer == [tag : Senders, origin : Senders]
Idle == [at |-> "off", sender |-> None, sock |-> None]
FreeSocket == [at |-> "free", stream |-> None, sender |-> None, lastActive |-> "zero",
               reader |-> "ended", got |-> {}]

TypeOK ==
    /\ online \in BOOLEAN /\ known \in BOOLEAN /\ stop \in BOOLEAN
    /\ loop \in [at : {"dial", "read", "write", "exited"}, stream : {None} \cup Streams,
                 sender : {None} \cup Senders]
    /\ loop.at \in {"read", "write"} <=> loop.stream # None
    /\ stream \in [Streams -> {"free", "up", "broken"}]
    /\ toAgent \in [Streams -> Seq(Senders)]
    /\ toServer \in [Streams -> Seq(Answer)]
    /\ addrs \in [Streams -> SUBSET Senders]
    /\ replier \in [Streams -> {"off", "run", "ended"}]
    /\ handler \in [Streams -> [at : {"off", "open", "read", "store", "write"},
                                sender : {None} \cup Senders, sock : {None} \cup Sockets]]
    /\ sessions \in [Streams -> [Senders -> {None} \cup Sockets]]
    /\ socket \in [Sockets -> [at : {"free", "open", "closed"}, stream : {None} \cup Streams,
                               sender : {None} \cup Senders,
                               lastActive : {"zero", "recent", "old"},
                               reader : {"read", "ended"}, got : SUBSET Senders]]
    /\ sent \in Nat /\ drops \in Nat

Init ==
    /\ online = FALSE /\ known = FALSE /\ stop = FALSE
    /\ loop = [at |-> "dial", stream |-> None, sender |-> None]
    /\ stream = [k \in Streams |-> "free"]
    /\ toAgent = [k \in Streams |-> <<>>] /\ toServer = [k \in Streams |-> <<>>]
    /\ addrs = [k \in Streams |-> {}]
    /\ replier = [k \in Streams |-> "off"]
    /\ handler = [k \in Streams |-> Idle]
    /\ sessions = [k \in Streams |-> [s \in Senders |-> None]]
    /\ socket = [i \in Sockets |-> FreeSocket]
    /\ sent = 0 /\ drops = 0

Break(k) == stream' = [stream EXCEPT ![k] = IF @ = "up" THEN "broken" ELSE @]

-----------------------------------------------------------------------------
(* The server.                                                              *)

\* A stream nobody refers to any more.
Unused(k) ==
    /\ stream[k] # "up" /\ loop.stream # k
    /\ replier[k] # "run" /\ handler[k].at = "off"
    /\ \A i \in Sockets : socket[i].stream = k => socket[i].reader = "ended"

\* openClientStream; while the agent is offline serveUDPTunnel backs off.
OpenStream(k) ==
    /\ loop.at = "dial" /\ ~stop /\ online
    /\ Unused(k)
    /\ loop' = [at |-> "read", stream |-> k, sender |-> None]
    /\ stream' = [stream EXCEPT ![k] = "up"]
    /\ toAgent' = [toAgent EXCEPT ![k] = <<>>]
    /\ toServer' = [toServer EXCEPT ![k] = <<>>]
    /\ addrs' = [addrs EXCEPT ![k] = {}]
    /\ replier' = [replier EXCEPT ![k] = "run"]
    /\ handler' = [handler EXCEPT ![k].at = "open"]
    /\ socket' = [i \in Sockets |-> IF socket[i].stream = k THEN FreeSocket ELSE socket[i]]
    /\ UNCHANGED <<peer, sessions, sent>>

LoopExits ==
    /\ loop.at = "dial" /\ stop
    /\ loop' = [loop EXCEPT !.at = "exited"]
    /\ UNCHANGED <<peer, wires, addrs, replier, private, sent>>

\* mutant: the stream is not closed
PumpReturnsOpen ==
    /\ loop' = [at |-> "dial", stream |-> None, sender |-> None]
    /\ UNCHANGED stream

\* mutant: the loop keeps the stream it closed
PumpReturnsHolds ==
    /\ loop' = [loop EXCEPT !.at = "dial"]
    /\ Break(loop.stream)

\* runUDPSession returns and serveUDPTunnel closes the stream.
PumpReturns ==
    /\ loop' = [at |-> "dial", stream |-> None, sender |-> None]
    /\ Break(loop.stream)

\* mutant: only stop is looked at
PumpChecksStop ==
    /\ loop.at = "read" /\ stop
    /\ PumpReturns
    /\ UNCHANGED <<peer, toAgent, toServer, addrs, replier, private, sent>>

\* done or stop, at the latest a read deadline after it happened.
PumpChecks ==
    /\ loop.at = "read"
    /\ stop \/ replier[loop.stream] = "ended"
    /\ PumpReturns
    /\ UNCHANGED <<peer, toAgent, toServer, addrs, replier, private, sent>>

\* mutant: the sender's address is recorded for the first sender only
PumpReadsFirst(s) ==
    /\ loop.at = "read" /\ ~stop /\ sent < MaxDatagrams
    /\ sent' = sent + 1
    /\ addrs' = [addrs EXCEPT ![loop.stream] = IF @ = {} THEN {s} ELSE @]
    /\ loop' = [loop EXCEPT !.at = "write", !.sender = s]
    /\ UNCHANGED <<peer, wires, replier, private>>

\* A datagram is read, perhaps after done was closed; its sender is recorded ...
PumpReads(s) ==
    /\ loop.at = "read" /\ ~stop /\ sent < MaxDatagrams
    /\ sent' = sent + 1
    /\ addrs' = [addrs EXCEPT ![loop.stream] = @ \cup {s}]
    /\ loop' = [loop EXCEPT !.at = "write", !.sender = s]
    /\ UNCHANGED <<peer, wires, replier, private>>

\* ... and it is forwarded, or the write fails.
PumpWrites ==
    LET k == loop.stream IN
    /\ loop.at = "write"
    /\ IF stream[k] = "up"
       THEN /\ toAgent' = [toAgent EXCEPT ![k] = Append(@, loop.sender)]
            /\ loop' = [loop EXCEPT !.at = "read", !.sender = None]
            /\ UNCHANGED stream
       ELSE PumpReturns /\ UNCHANGED toAgent
    /\ UNCHANGED <<peer, toServer, addrs, replier, private, sent>>

\* The goroutine for answers: one with no recorded address is dropped.
ReplierReads(k) ==
    /\ replier[k] = "run" /\ toServer[k] # <<>>
    /\ toServer' = [toServer EXCEPT ![k] = Tail(@)]
    /\ UNCHANGED <<peer, stream, toAgent, public, private>>

\* What a stream still holds when its reader is gone is lost.
ReplierEnds(k) ==
    /\ replier[k] = "run" /\ stream[k] # "up"
    /\ replier' = [replier EXCEPT ![k] = "ended"]
    /\ toServer' = [toServer EXCEPT ![k] = <<>>]
    /\ UNCHANGED <<peer, stream, toAgent, loop, addrs, sent, private>>

-----------------------------------------------------------------------------
(* The agent: handleDataStream and handleUDPStream.                         *)

\* The stream of a tunnel not among the targets, or without a local address, is
\* closed.
HandlerOpens(k) ==
    /\ handler[k].at = "open"
    /\ IF known THEN handler' = [handler EXCEPT ![k].at = "read"] /\ UNCHANGED stream
                ELSE handler' = [handler EXCEPT ![k] = Idle] /\ Break(k)
    /\ toAgent' = IF known THEN toAgent ELSE [toAgent EXCEPT ![k] = <<>>]
    /\ UNCHANGED <<peer, public, toServer, sessions, socket>>

\* A socket that is neither mapped, nor at hand, nor read from.
FreeFor(i) ==
    /\ socket[i].at # "open" /\ socket[i].reader = "ended"
    /\ \A k \in Streams : handler[k].sock # i

\* mutant: one socket serves every sender of the stream
HandlerLooksUpShares(k) ==
    LET s == Head(toAgent[k])
        shared == {sessions[k][t] : t \in Senders} \ {None}
        found == IF shared = {} THEN None ELSE CHOOSE i \in shared : TRUE
    IN
    /\ handler[k].at = "read" /\ toAgent[k] # <<>>
    /\ toAgent' = [toAgent EXCEPT ![k] = Tail(@)]
    /\ \/ /\ found # None
          /\ handler' = [handler EXCEPT ![k] = [at |-> "store", sender |-> s, sock |-> found]]
          /\ UNCHANGED <<sessions, socket>>
       \/ \E i \in Sockets :
          /\ found = None /\ FreeFor(i)
          /\ socket' = [socket EXCEPT ![i] = [FreeSocket EXCEPT !.at = "open", !.stream = k,
                                                  !.sender = s, !.reader = "read"]]
          /\ sessions' = [sessions EXCEPT ![k][s] = i]
          /\ handler' = [handler EXCEPT ![k] = [at |-> "store", sender |-> s, sock |-> i]]
       \/ found = None /\ UNCHANGED private
    /\ UNCHANGED <<peer, public, stream, toServer>>

\* Under sessionsMu: the sender's session, or a new one whose lastActive is
\* still zero.  A datagram for which no socket can be had is dropped.
HandlerLooksUp(k) ==
    LET s == Head(toAgent[k])
        found == sessions[k][s]
    IN
    /\ handler[k].at = "read" /\ toAgent[k] # <<>>
    /\ toAgent' = [toAgent EXCEPT ![k] = Tail(@)]
    /\ \/ /\ found # None
          /\ handler' = [handler EXCEPT ![k] = [at |-> "store", sender |-> s, sock |-> found]]
          /\ UNCHANGED <<sessions, socket>>
       \/ \E i \in Sockets :
          /\ found = None /\ FreeFor(i)
          /\ socket' = [socket EXCEPT ![i] = [FreeSocket EXCEPT !.at = "open", !.stream = k,
                                                  !.sender = s, !.reader = "read"]]
          /\ sessions' = [sessions EXCEPT ![k][s] = i]
          /\ handler' = [handler EXCEPT ![k] = [at |-> "store", sender |-> s, sock |-> i]]
       \/ found = None /\ UNCHANGED private
    /\ UNCHANGED <<peer, public, stream, toServer>>

HandlerStores(k) ==
    /\ handler[k].at = "store"
    /\ socket' = [socket EXCEPT ![handler[k].sock].lastActive = "recent"]
    /\ handler' = [handler EXCEPT ![k].at = "write"]
    /\ UNCHANGED <<peer, public, wires, sessions>>

\* Writing to a socket that was reaped meanwhile fails and is logged.  What is
\* written on one whose reader has ended gets no answer through.
HandlerWrites(k) ==
    LET i == handler[k].sock IN
    /\ handler[k].at = "write"
    /\ socket' = IF socket[i].at = "open" /\ socket[i].reader = "read"
                 THEN [socket EXCEPT ![i].got = @ \cup {handler[k].sender}] ELSE socket
    /\ handler' = [handler EXCEPT ![k] = [Idle EXCEPT !.at = "read"]]
    /\ UNCHANGED <<peer, public, wires, sessions>>

\* The stream is at its end: the reaper stops with the handler, the sockets
\* are left to their readers.
HandlerEnds(k) ==
    /\ handler[k].at = "read" /\ stream[k] # "up"
    /\ handler' = [handler EXCEPT ![k] = Idle]
    /\ sessions' = [sessions EXCEPT ![k] = [s \in Senders |-> None]]
    /\ toAgent' = [toAgent EXCEPT ![k] = <<>>]
    /\ UNCHANGED <<peer, public, stream, toServer, socket>>

Stale(k) == {i \in Sockets : /\ \E s \in Senders : sessions[k][s] = i
                             /\ socket[i].lastActive # "recent"}

\* Nothing is read from a closed socket, nor from one whose reader ended.
Close(I) == [i \in Sockets |->
                IF i \in I THEN [socket[i] EXCEPT !.at = "closed", !.got = {}]
                ELSE socket[i]]
EndReader(i) == [socket EXCEPT ![i].reader = "ended", ![i].got = {}]

\* mutant: the reaper closes the sockets but leaves the sessions
ReapCloses(k) ==
    /\ Stale(k) # {} /\ handler[k].at # "off"
    /\ socket' = Close(Stale(k))
    /\ UNCHANGED <<peer, public, wires, handler, sessions>>

\* The reaper's tick: zero is older than any cutoff.
Reap(k) ==
    /\ Stale(k) # {} /\ handler[k].at # "off"
    /\ socket' = Close(Stale(k))
    /\ sessions' = [sessions EXCEPT ![k] =
                       [s \in Senders |-> IF @[s] \in Stale(k) THEN None ELSE @[s]]]
    /\ UNCHANGED <<peer, public, wires, handler>>

Age(i) ==
    /\ socket[i].at = "open" /\ socket[i].lastActive = "recent"
    /\ socket' = [socket EXCEPT ![i].lastActive = "old"]
    /\ UNCHANGED <<peer, public, wires, handler, sessions>>

\* The local service answers a datagram it got on the socket, and the socket's
\* reader goroutine forwards the answer under its sender's name.
ReaderForwards(i) ==
    LET k == socket[i].stream IN
    /\ socket[i].reader = "read" /\ socket[i].at = "open"
    /\ \E s \in socket[i].got :
           IF stream[k] = "up"
           THEN /\ toServer' = [toServer EXCEPT ![k] =
                                   Append(@, [tag |-> socket[i].sender, origin |-> s])]
                /\ socket' = [socket EXCEPT ![i].got = @ \ {s}, ![i].lastActive = "recent"]
           ELSE /\ socket' = [EndReader(i) EXCEPT ![i].lastActive = "recent"]
                /\ UNCHANGED toServer
    /\ UNCHANGED <<peer, public, stream, toAgent, handler, sessions>>

\* It ends when the socket is closed, when no answer came for the idle timeout
\* or when the local port refused; the session stays.
ReaderEnds(i) ==
    /\ socket[i].reader = "read"
    /\ socket' = EndReader(i)
    /\ UNCHANGED <<peer, public, wires, handler, sessions>>

-----------------------------------------------------------------------------
(* What happens to the tunnel from outside.                                 *)

\* The agent's session is registered; its config arrives; the session is lost.
AgentConnects ==
    /\ ~online
    /\ online' = TRUE
    /\ UNCHANGED <<known, stop, drops, public, wires, private>>

AgentLearns ==
    /\ ~known /\ online
    /\ known' = TRUE
    /\ UNCHANGED <<online, stop, drops, public, wires, private>>

AgentDrops ==
    /\ online /\ drops < MaxDrops
    /\ online' = FALSE
    /\ drops' = drops + 1
    /\ stream' = [k \in Streams |-> IF stream[k] = "up" THEN "broken" ELSE stream[k]]
    /\ UNCHANGED <<known, stop, public, toAgent, toServer, private>>

\* reconcileListeners or Shutdown: cancel, and close the socket.
StopListener ==
    /\ ~stop
    /\ stop' = TRUE
    /\ UNCHANGED <<online, known, drops, public, wires, private>>

-----------------------------------------------------------------------------
Pump == (\E k \in Streams : OpenStream(k)) \/ LoopExits \/ PumpChecks \/ PumpWrites
Replier(k) == ReplierReads(k) \/ ReplierEnds(k)
Handler(k) == \/ HandlerOpens(k) \/ HandlerLooksUp(k) \/ HandlerStores(k)
              \/ HandlerWrites(k) \/ HandlerEnds(k)

Next ==
    \/ Pump \/ \E s \in Senders : PumpReads(s)
    \/ \E k \in Streams : Replier(k) \/ Handler(k) \/ Reap(k)
    \/ \E i \in Sockets : Age(i) \/ ReaderForwards(i) \/ ReaderEnds(i)
    \/ AgentConnects \/ AgentLearns \/ AgentDrops \/ StopListener

Spec == Init /\ [][Next]_vars

\* Goroutines run, a reader's deadline passes, an agent that knows the server
\* connects and is sent its config (module ControlPlane).
Fairness ==
    /\ WF_vars(Pump) /\ WF_vars(AgentConnects) /\ WF_vars(AgentLearns)
    /\ \A k \in Streams : WF_vars(Replier(k)) /\ WF_vars(Handler(k))
    /\ \A i \in Sockets : WF_vars(ReaderEnds(i))

FairSpec == Spec /\ Fairness

-----------------------------------------------------------------------------
(* Properties.                                                              *)

\* An answer on its way always finds its sender's address: the pump records a
\* sender before it forwards the datagram, and nothing of an earlier stream
\* survives into a later one (udp.go:105-112, 134-141).
AnswersRoutable ==
    \A k \in Streams : \A n \in 1..Len(toServer[k]) : toServer[k][n].tag \in addrs[k]

\* udp.go:157-158: each sender gets its own local socket, "so responses aren't
\* cross-wired between simultaneous senders".
NotCrossWired ==
    \A k \in Streams : \A n \in 1..Len(toServer[k]) :
        toServer[k][n].tag = toServer[k][n].origin

\* A session in the map has an open socket of that sender and stream, so the
\* reaper never leaves a sender talking to a closed socket (udp.go:187-195).
SessionsUsable ==
    \A k \in Streams, s \in Senders :
        LET i == sessions[k][s] IN
        i # None => socket[i].at = "open" /\ socket[i].stream = k /\ socket[i].sender = s

Paired == /\ loop.at = "read" /\ stream[loop.stream] = "up"
          /\ handler[loop.stream].at = "read"

\* udp.go:36-37: "If the client is offline or the stream breaks, it redials":
\* the tunnel comes to be served again and again until it is stopped.
PairedAgain == []<>(Paired \/ stop)

\* A stopped tunnel leaves no goroutine behind on either side.
StopIsComplete ==
    stop ~> /\ loop.at = "exited"
            /\ \A k \in Streams : replier[k] # "run" /\ handler[k].at = "off"
            /\ \A i \in Sockets : socket[i].reader = "ended"
=============================================================================
