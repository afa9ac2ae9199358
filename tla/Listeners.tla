------------------------------ MODULE Listeners ------------------------------
(***************************************************************************)
(* The public side of portly-server: the reconcile loop that opens and     *)
(* closes one TCP listener per enabled tunnel, the accept goroutines,      *)
(* Portly's own listeners (control plane, Minecraft router, web and API),  *)
(* the API's port probe, and the draining Shutdown                         *)
(* (internal/tunnel/server.go, mcrouter.go, cmd/portly-server/main.go).    *)
(*                                                                         *)
(* Critical sections under listenersMu are single steps.  What a player    *)
(* connection carries is left out; whether Shutdown waits for it is not.   *)
(***************************************************************************)
EXTENDS Naturals, FiniteSets

CONSTANTS
    Tunnels,        \* tunnel IDs
    PublicPort,     \* the public port of each; 0 is hostname-routed only
    ControlPort,    \* the port of --control-addr
    RouterPort,     \* the port of --mc-router-addr
    WebPorts,       \* the ports of --api-addr, --web-addr and --https-addr
    Players,        \* player connections that may arrive
    MaxEdits,       \* bound: changes of the enabled tunnels
    MaxAcceptErrors \* bound: Accept errors such as EMFILE

ASSUME ListenersAssumption ==
    /\ PublicPort \in [Tunnels -> Nat]
    /\ WebPorts \cup {ControlPort, RouterPort} \subseteq Nat \ {0}
    /\ ControlPort # RouterPort /\ {ControlPort, RouterPort} \cap WebPorts = {}
    /\ MaxEdits \in Nat
    /\ MaxAcceptErrors \in Nat

VARIABLES
    enabled,     \* DB: tunnels with enabled = 1
    listeners,   \* keys of Server.listeners
    open,        \* tunnels whose listening socket is bound
    accepting,   \* tunnels whose accept goroutine is running
    probing,     \* ports held for a moment by ProbePublicPort, with their tunnel
    loop,        \* reconcileLoop: its position and the wanted tunnels it read
    controlLn,   \* Run's listener
    mcRouterLn,  \* RunMinecraftRouter's listener
    webLn,       \* the listener of each web and API port
    shut,        \* how far Shutdown has come
    conn,        \* each player connection
    edits, acceptErrors,   \* counters of the bounds
    overtaken,   \* history: Shutdown closed the listeners during the pass under way
    inflight,    \* history: what the overtaken pass wanted to be open
    early        \* history: connections tracked when the shutdown signal came

vars == <<enabled, listeners, open, accepting, probing, loop, controlLn, mcRouterLn,
          webLn, shut, conn, edits, acceptErrors, overtaken, inflight, early>>
database == <<enabled, probing, edits>>
public   == <<listeners, open, accepting, acceptErrors>>
shared   == <<controlLn, mcRouterLn, webLn>>
history  == <<overtaken, inflight, early>>

\* Shutdown's progress, in order.
ShutdownSteps == {"no", "signalled", "controlClosed", "routerClosed", "draining",
                  "drained", "timedOut"}
Closed == {"draining", "drained", "timedOut"}    \* every listener was closed
LnStates == {"unset", "bound", "stored", "failed", "closed"}

TypeOK ==
    /\ enabled \subseteq Tunnels
    /\ listeners \subseteq Tunnels
    /\ open \subseteq Tunnels
    /\ accepting \subseteq Tunnels
    /\ probing \subseteq Tunnels
    /\ loop \in [at : {"off", "idle", "checked", "listed", "exited"}, wanted : SUBSET Tunnels]
    /\ loop.at # "listed" => loop.wanted = {}
    /\ controlLn \in LnStates
    /\ mcRouterLn \in LnStates
    /\ webLn \in [WebPorts -> {"unset", "bound", "failed"}]
    /\ shut \in ShutdownSteps
    /\ conn \in [Players -> {"none", "peek", "accepted", "tracked", "done"}]
    /\ edits \in Nat
    /\ acceptErrors \in Nat
    /\ overtaken \in BOOLEAN
    /\ inflight \subseteq Tunnels
    /\ early \subseteq Players

\* public_port is UNIQUE in the tunnels table.
UniquePorts(T) ==
    \A t, u \in T : PublicPort[t] = PublicPort[u] /\ PublicPort[t] # 0 => t = u

Init ==
    /\ enabled \in {T \in SUBSET Tunnels : UniquePorts(T)}
    /\ listeners = {}
    /\ open = {}
    /\ accepting = {}
    /\ probing = {}
    /\ loop = [at |-> "off", wanted |-> {}]
    /\ controlLn = "unset"
    /\ mcRouterLn = "unset"
    /\ webLn = [w \in WebPorts |-> "unset"]
    /\ shut = "no"
    /\ conn = [p \in Players |-> "none"]
    /\ edits = 0
    /\ acceptErrors = 0
    /\ overtaken = FALSE
    /\ inflight = {}
    /\ early = {}

-----------------------------------------------------------------------------
(* The database, changed by the API and the CLI.                            *)

DisableTunnel(t) ==
    /\ t \in enabled /\ edits < MaxEdits
    /\ enabled' = enabled \ {t}
    /\ edits' = edits + 1
    /\ UNCHANGED <<probing, public, shared, loop, shut, conn, history>>

\* `tunnel add` on the command line: no probe.
AddTunnel(t) ==
    /\ t \notin enabled /\ UniquePorts(enabled \cup {t}) /\ edits < MaxEdits
    /\ enabled' = enabled \cup {t}
    /\ edits' = edits + 1
    /\ UNCHANGED <<probing, public, shared, loop, shut, conn, history>>

Ports(T) == {PublicPort[t] : t \in T}

\* The ports of Portly's own listeners, while these are open.
OwnPorts == {p \in {ControlPort} : controlLn \in {"bound", "stored"}}
            \cup {p \in {RouterPort} : mcRouterLn \in {"bound", "stored"}}
            \cup {p \in WebPorts : webLn[p] = "bound"}

\* The API enables a tunnel after binding and releasing its port; a port in use
\* is a conflict and nothing changes.
ProbePublicPort(t) ==
    /\ t \notin enabled /\ PublicPort[t] # 0 /\ edits < MaxEdits
    /\ PublicPort[t] \notin Ports(open \cup probing) \cup OwnPorts
    /\ probing' = probing \cup {t}
    /\ edits' = edits + 1
    /\ UNCHANGED <<enabled, public, shared, loop, shut, conn, history>>

EnableTunnel(t) ==
    /\ t \in probing
    /\ probing' = probing \ {t}
    /\ enabled' = IF UniquePorts(enabled \cup {t}) THEN enabled \cup {t} ELSE enabled
    /\ UNCHANGED <<edits, public, shared, loop, shut, conn, history>>

-----------------------------------------------------------------------------
(* Run, RunMinecraftRouter and the web servers: bind, then publish.         *)

\* A port that is taken ends the process; systemd starts it again.
ListenControl ==
    /\ controlLn = "unset"
    /\ ControlPort \notin Ports(open \cup probing)
    /\ controlLn' = "bound"
    /\ UNCHANGED <<database, public, mcRouterLn, webLn, loop, shut, conn, history>>

\* controlLn is set and the reconcile loop starts.
StoreControl ==
    /\ controlLn = "bound"
    /\ controlLn' = "stored"
    /\ loop' = [at |-> "idle", wanted |-> {}]
    /\ UNCHANGED <<database, public, mcRouterLn, webLn, shut, conn, history>>

\* A listener whose port a tunnel's socket or a probe holds is given up, with a
\* line in the log and nothing else.
ListenRouter ==
    /\ mcRouterLn = "unset"
    /\ mcRouterLn' = IF RouterPort \in Ports(open \cup probing) THEN "failed" ELSE "bound"
    /\ UNCHANGED <<database, public, controlLn, webLn, loop, shut, conn, history>>

StoreRouter ==
    /\ mcRouterLn = "bound"
    /\ mcRouterLn' = "stored"
    /\ UNCHANGED <<database, public, controlLn, webLn, loop, shut, conn, history>>

ListenWeb(w) ==
    /\ webLn[w] = "unset"
    /\ webLn' = [webLn EXCEPT ![w] = IF w \in Ports(open \cup probing) THEN "failed" ELSE "bound"]
    /\ UNCHANGED <<database, public, controlLn, mcRouterLn, loop, shut, conn, history>>

-----------------------------------------------------------------------------
(* reconcileListeners.                                                      *)

\* mutant: the shutdown check is gone
ReconcileCheckUnchecked ==
    /\ loop.at = "idle"
    /\ loop' = [at |-> "checked", wanted |-> {}]
    /\ UNCHANGED <<database, public, shared, shut, conn, history>>

\* A pass begins with the shutdown check ...
ReconcileCheck ==
    /\ loop.at = "idle" /\ shut = "no"
    /\ loop' = [at |-> "checked", wanted |-> {}]
    /\ UNCHANGED <<database, public, shared, shut, conn, history>>

\* ... and reads the table before it takes listenersMu.
ReconcileQuery ==
    /\ loop.at = "checked"
    /\ loop' = [at |-> "listed", wanted |-> enabled]
    /\ inflight' = IF overtaken THEN enabled ELSE inflight
    /\ UNCHANGED <<database, public, shared, shut, conn, overtaken, early>>

\* mutant: the list of the previous pass is kept for the next one
ReconcileApplyKeepsList ==
    /\ loop.at = "listed"
    /\ listeners' = {t \in loop.wanted : PublicPort[t] # 0}
    /\ open' = listeners'
    /\ accepting' = listeners'
    /\ loop' = [loop EXCEPT !.at = "idle"]
    /\ overtaken' = FALSE
    /\ UNCHANGED <<database, acceptErrors, shared, shut, conn, inflight, early>>

\* mutant: a listener that failed to start is recorded all the same
ReconcileApplyRecordsFailures ==
    LET kept == listeners \cap loop.wanted
        started == {t \in loop.wanted \ kept :
                       PublicPort[t] \notin {0} \cup Ports(kept \cup probing) \cup OwnPorts}
    IN
    /\ loop.at = "listed"
    /\ listeners' = {t \in loop.wanted : PublicPort[t] # 0}
    /\ open' = (open \cap kept) \cup started
    /\ accepting' = (accepting \cap kept) \cup started
    /\ loop' = [at |-> "idle", wanted |-> {}]
    /\ overtaken' = FALSE
    /\ UNCHANGED <<database, acceptErrors, shared, shut, conn, inflight, early>>

\* Under listenersMu: unwanted listeners are stopped first, then each wanted
\* tunnel with a port and no entry is started; one whose port is taken, by
\* another tunnel, a probe or Portly itself, is logged and tried again on the
\* next tick.
ReconcileApply ==
    LET kept == listeners \cap loop.wanted
        started == {t \in loop.wanted \ kept :
                       PublicPort[t] \notin {0} \cup Ports(kept \cup probing) \cup OwnPorts}
    IN
    /\ loop.at = "listed"
    /\ listeners' = kept \cup started
    /\ open' = (open \cap kept) \cup started
    /\ accepting' = (accepting \cap kept) \cup started
    /\ loop' = [at |-> "idle", wanted |-> {}]
    /\ overtaken' = FALSE
    /\ UNCHANGED <<database, acceptErrors, shared, shut, conn, inflight, early>>

LoopExits ==
    /\ loop.at = "idle" /\ shut # "no"
    /\ loop' = [at |-> "exited", wanted |-> {}]
    /\ UNCHANGED <<database, public, shared, shut, conn, history>>

-----------------------------------------------------------------------------
(* Player connections.                                                      *)

\* An accept goroutine accepts and spawns proxyConn.
AcceptPlayer(p) ==
    /\ conn[p] = "none" /\ open \cap accepting # {}
    /\ conn' = [conn EXCEPT ![p] = "accepted"]
    /\ UNCHANGED <<database, public, shared, loop, shut, history>>

\* The shared router accepts: handleMinecraftConn peeks at the handshake ...
AcceptMinecraft(p) ==
    /\ conn[p] = "none" /\ mcRouterLn \in {"bound", "stored"}
    /\ conn' = [conn EXCEPT ![p] = "peek"]
    /\ UNCHANGED <<database, public, shared, loop, shut, history>>

\* ... and calls proxyConn, or drops the connection.
PeekHostname(p) ==
    /\ conn[p] = "peek"
    /\ \E next \in {"accepted", "done"} : conn' = [conn EXCEPT ![p] = next]
    /\ UNCHANGED <<database, public, shared, loop, shut, history>>

\* proxyConn's first step: activeConns.Add(1).
TrackConn(p) ==
    /\ conn[p] = "accepted"
    /\ conn' = [conn EXCEPT ![p] = "tracked"]
    /\ UNCHANGED <<database, public, shared, loop, shut, history>>

\* The proxied connection ends (or finds no session): activeConns.Done().
FinishConn(p) ==
    /\ conn[p] = "tracked"
    /\ conn' = [conn EXCEPT ![p] = "done"]
    /\ UNCHANGED <<database, public, shared, loop, shut, history>>

\* Accept fails although nobody stopped the listener: its goroutine returns.
AcceptFails(t) ==
    /\ t \in open \cap accepting /\ acceptErrors < MaxAcceptErrors
    /\ acceptErrors' = acceptErrors + 1
    /\ accepting' = accepting \ {t}
    /\ UNCHANGED <<database, listeners, open, shared, loop, shut, conn, history>>

-----------------------------------------------------------------------------
(* Shutdown, started by SIGTERM or SIGINT at any time.                      *)

Tracked == {p \in Players : conn[p] = "tracked"}

Signal ==
    /\ shut = "no"
    /\ shut' = "signalled"
    /\ early' = Tracked
    /\ UNCHANGED <<database, public, shared, loop, conn, overtaken, inflight>>

CloseControl ==
    /\ shut = "signalled"
    /\ shut' = "controlClosed"
    /\ controlLn' = IF controlLn = "stored" THEN "closed" ELSE controlLn
    /\ UNCHANGED <<database, public, mcRouterLn, webLn, loop, conn, history>>

CloseRouter ==
    /\ shut = "controlClosed"
    /\ shut' = "routerClosed"
    /\ mcRouterLn' = IF mcRouterLn = "stored" THEN "closed" ELSE mcRouterLn
    /\ UNCHANGED <<database, public, controlLn, webLn, loop, conn, history>>

\* mutant: the listeners are forgotten but not closed
CloseListenersForgets ==
    /\ shut = "routerClosed"
    /\ shut' = "draining"
    /\ listeners' = {}
    /\ overtaken' = (loop.at \in {"checked", "listed"})
    /\ inflight' = loop.wanted
    /\ UNCHANGED <<database, open, accepting, acceptErrors, shared, loop, conn, early>>

\* Under listenersMu: every public listener is closed and forgotten.
CloseListeners ==
    /\ shut = "routerClosed"
    /\ shut' = "draining"
    /\ listeners' = {}
    /\ open' = {}
    /\ accepting' = {}
    /\ overtaken' = (loop.at \in {"checked", "listed"})
    /\ inflight' = loop.wanted
    /\ UNCHANGED <<database, acceptErrors, shared, loop, conn, early>>

\* mutant: Shutdown does not wait
DrainedAtOnce ==
    /\ shut = "draining"
    /\ shut' = "drained"
    /\ UNCHANGED <<database, public, shared, loop, conn, history>>

\* activeConns.Wait returns once the counter is zero ...
Drained ==
    /\ shut = "draining" /\ Tracked = {}
    /\ shut' = "drained"
    /\ UNCHANGED <<database, public, shared, loop, conn, history>>

\* ... or the context's deadline passes first.
DrainTimesOut ==
    /\ shut = "draining"
    /\ shut' = "timedOut"
    /\ UNCHANGED <<database, public, shared, loop, conn, history>>

-----------------------------------------------------------------------------
Reconcile == ReconcileCheck \/ ReconcileQuery \/ ReconcileApply \/ LoopExits
Shutdown  == CloseControl \/ CloseRouter \/ CloseListeners \/ Drained \/ DrainTimesOut
Startup   == ListenControl \/ StoreControl \/ ListenRouter \/ StoreRouter
             \/ \E w \in WebPorts : ListenWeb(w)

Next ==
    \/ \E t \in Tunnels : \/ DisableTunnel(t) \/ AddTunnel(t)
                          \/ ProbePublicPort(t) \/ EnableTunnel(t)
                          \/ AcceptFails(t)
    \/ Startup
    \/ Reconcile
    \/ \E p \in Players : \/ AcceptPlayer(p) \/ AcceptMinecraft(p) \/ PeekHostname(p)
                          \/ TrackConn(p) \/ FinishConn(p)
    \/ Signal
    \/ Shutdown

Spec == Init /\ [][Next]_vars

\* The server's own goroutines run and a probe ends; administrators, players
\* and signals are not forced to act.
Fairness ==
    /\ WF_vars(Reconcile) /\ WF_vars(Shutdown)
    /\ WF_vars(ListenControl \/ StoreControl) /\ WF_vars(ListenRouter \/ StoreRouter)
    /\ \A w \in WebPorts : WF_vars(ListenWeb(w))
    /\ \A t \in Tunnels : WF_vars(EnableTunnel(t))

FairSpec == Spec /\ Fairness

-----------------------------------------------------------------------------
(* Properties.                                                              *)

\* Whatever probes, re-used ports and passes overlap, the sockets listening end
\* up being those of the enabled tunnels whose port is free for them: a tunnel
\* with no port of its own never listens, and one that was stored with a port
\* that Portly itself listens on fails on every tick for ever (server.go:380-383,
\* 466-480).
ListenersConverge ==
    <>[](shut = "no" => open = {t \in enabled : PublicPort[t] \notin {0} \cup OwnPorts})

\* A listening socket always has its entry in the map, so that a later pass or
\* Shutdown can close it, and no two are bound to one port, Portly's own
\* listeners included (server.go:438-465).
NoLeakedSocket == open = listeners /\ UniquePorts(open) /\ Ports(open) \cap OwnPorts = {}

\* After Shutdown closed the listeners, the only ones that can be open are those
\* wanted by the one pass it overtook, which had made its shutdown check before;
\* it may read the table afterwards and want a tunnel enabled since.  A pass that
\* starts later opens nothing (server.go:414-421).
OnlyInflightReopens == shut \in Closed => open \subseteq inflight

\* A connection whose tracking preceded the signal is never cut by a Shutdown
\* that reports success (server.go:171-178).
EarlyConnsDrained == shut = "drained" => \A p \in early : conn[p] = "done"
=============================================================================
