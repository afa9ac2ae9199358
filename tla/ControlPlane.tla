---------------------------- MODULE ControlPlane ----------------------------
(***************************************************************************)
(* The control plane between portly-server and one enrolled machine:       *)
(* authentication, the session map, the config push of                     *)
(* internal/tunnel/server.go, the reconnecting agent of                    *)
(* internal/tunnel/client.go, and the two ways of deleting the machine.    *)
(*                                                                         *)
(* Connections are numbered in the order the agent dials them.  A          *)
(* goroutine is a program counter; a step is the code between two points   *)
(* where another goroutine can be scheduled.  Every session-map entry, DB  *)
(* row and lastPushed is per machine, so one machine is enough.            *)
(***************************************************************************)
EXTENDS Naturals, Sequences

CONSTANTS
    Tunnels,      \* tunnel specs the administrator can enable for the machine
    MaxConns,     \* bound: connections the agent may dial
    MaxFaults,    \* bound: network losses and restarts of the server process
    MaxEdits,     \* bound: changes of the enabled tunnels
    Deleters,     \* who deletes the machine: a subset of {"api", "cli"}
    Stall         \* may a control-stream reader outlive the agent's backoff?

Conns == 1..MaxConns
Nobody == 0                      \* no connection
ReconcileLoop == 0               \* the reconcile loop, among the pushers
Pushers == {ReconcileLoop} \cup Conns     \* pusher c is the handler of connection c

ASSUME ConstantsAssumption ==
    /\ MaxConns \in Nat \ {0}
    /\ MaxFaults \in Nat
    /\ MaxEdits \in Nat
    /\ Deleters \subseteq {"api", "cli"}
    /\ Stall \in BOOLEAN

VARIABLES
    row,          \* DB: TRUE while the clients row exists, FALSE once its token is revoked
    tunnels,      \* DB: the machine's enabled tunnels
    del,          \* each deleter's position, and the session it found
    sessions,     \* Server.sessions[client.ID]: a connection or Nobody
    handler,      \* handleConn's position for each connection
    reply,        \* the AuthResponse in flight on each connection
    link,         \* each connection: none, up, closed (by the server) or lost
    wire,         \* frames in flight on each control stream
    lastPushed,   \* clientSession.lastPushed, the fingerprint as a set ("" is {})
    push,         \* each pusher's position in pushTunnelConfig, its session, its specs
    agent,        \* Client.Run: its position and the connection of runOnce
    reader,       \* readControlStream's position for each connection
    targets,      \* Client.targets
    uninstalls,   \* calls of OnUninstall
    faults, edits,   \* counters of the bounds
    overlapped,   \* history: two pushes of this session overlapped
    pushed        \* history: a push of this session was completed

db      == <<row, tunnels, del>>
server  == <<sessions, handler, lastPushed, push, overlapped, pushed>>
network == <<reply, link, wire>>
client  == <<agent, reader, targets, uninstalls>>
bounds  == <<faults, edits>>
vars    == <<db, server, network, client, bounds>>

Frame == [uninstall : BOOLEAN, tunnels : SUBSET Tunnels]
Config(T) == [uninstall |-> FALSE, tunnels |-> T]
Uninstall == [uninstall |-> TRUE, tunnels |-> {}]

IdlePush == [at |-> "idle", conn |-> Nobody, specs |-> {}]

TypeOK ==
    /\ row \in BOOLEAN
    /\ tunnels \in SUBSET Tunnels
    /\ del \in [Deleters -> [at : {"idle", "write", "tx", "done"}, conn : {Nobody} \cup Conns]]
    /\ \A d \in Deleters : del[d].at = "write" => del[d].conn # Nobody
    /\ sessions \in {Nobody} \cup Conns
    /\ handler \in [Conns -> {"none", "auth", "register", "push", "wait", "done"}]
    /\ reply \in [Conns -> {"none", "ok", "uninstall"}]
    /\ link \in [Conns -> {"none", "up", "closed", "lost"}]
    /\ wire \in [Conns -> Seq(Frame)]
    /\ lastPushed \in [Conns -> SUBSET Tunnels]
    /\ push \in [Pushers -> [at : {"idle", "list", "send", "assign"},
                             conn : {Nobody} \cup Conns, specs : SUBSET Tunnels]]
    /\ agent \in [at : {"dial", "auth", "run", "stopped"}, conn : {Nobody} \cup Conns]
    /\ reader \in [Conns -> {"off", "read", "uninstall", "ended", "uninstalled"}]
    /\ targets \in SUBSET Tunnels
    /\ uninstalls \in Nat
    /\ faults \in Nat /\ edits \in Nat
    /\ overlapped \in [Conns -> BOOLEAN] /\ pushed \in [Conns -> BOOLEAN]

Init ==
    /\ row = TRUE
    /\ tunnels \in SUBSET Tunnels
    /\ del = [d \in Deleters |-> [at |-> "idle", conn |-> Nobody]]
    /\ sessions = Nobody
    /\ handler = [c \in Conns |-> "none"]
    /\ reply = [c \in Conns |-> "none"]
    /\ link = [c \in Conns |-> "none"]
    /\ wire = [c \in Conns |-> <<>>]
    /\ lastPushed = [c \in Conns |-> {}]
    /\ push = [p \in Pushers |-> IdlePush]
    /\ agent = [at |-> "dial", conn |-> Nobody]
    /\ reader = [c \in Conns |-> "off"]
    /\ targets = {}
    /\ uninstalls = 0
    /\ faults = 0 /\ edits = 0
    /\ overlapped = [c \in Conns |-> FALSE] /\ pushed = [c \in Conns |-> FALSE]

-----------------------------------------------------------------------------
(* The server: handleConn, one process per connection.                      *)

\* mutant: a revoked token is rejected like an unknown one
AuthenticateRejects(c) ==
    /\ handler[c] = "auth"
    /\ handler' = [handler EXCEPT ![c] = IF row THEN "register" ELSE "done"]
    /\ reply' = [reply EXCEPT ![c] = IF row THEN "ok" ELSE "none"]
    /\ link' = IF row \/ link[c] # "up" THEN link ELSE [link EXCEPT ![c] = "closed"]
    /\ UNCHANGED <<db, sessions, lastPushed, push, overlapped, pushed, wire, client, bounds>>

\* The token is looked up; a deleted machine's token is in revoked_tokens.
\* A conn.Close after an answer still delivers that answer.
Authenticate(c) ==
    /\ handler[c] = "auth"
    /\ handler' = [handler EXCEPT ![c] = IF row THEN "register" ELSE "done"]
    /\ reply' = [reply EXCEPT ![c] = IF row THEN "ok" ELSE "uninstall"]
    /\ link' = IF row \/ link[c] # "up" THEN link ELSE [link EXCEPT ![c] = "closed"]
    /\ UNCHANGED <<db, sessions, lastPushed, push, overlapped, pushed, wire, client, bounds>>

\* A read, write or yamux call on a dead connection fails before registration.
HandlerFails(c) ==
    /\ handler[c] \in {"auth", "register"}
    /\ link[c] # "up"
    /\ handler' = [handler EXCEPT ![c] = "done"]
    /\ UNCHANGED <<db, sessions, lastPushed, push, overlapped, pushed, network, client, bounds>>

\* mutant: Register forgets to close the session it replaces
RegisterKeepsOld(c) ==
    /\ handler[c] = "register"
    /\ sessions' = c
    /\ handler' = [handler EXCEPT ![c] = "push"]
    /\ push' = [push EXCEPT ![c] = [at |-> "list", conn |-> c, specs |-> {}]]
    /\ UNCHANGED <<db, lastPushed, overlapped, pushed, network, client, bounds>>

\* mutant: the new session takes the old one's fingerprint over
RegisterInheritsPush(c) ==
    /\ handler[c] = "register"
    /\ link' = IF sessions # Nobody /\ link[sessions] = "up"
               THEN [link EXCEPT ![sessions] = "closed"] ELSE link
    /\ sessions' = c
    /\ handler' = [handler EXCEPT ![c] = "push"]
    /\ push' = [push EXCEPT ![c] = [at |-> "list", conn |-> c, specs |-> {}]]
    /\ IF sessions = Nobody THEN UNCHANGED <<lastPushed, pushed>>
       ELSE /\ lastPushed' = [lastPushed EXCEPT ![c] = lastPushed[sessions]]
            /\ pushed' = [pushed EXCEPT ![c] = pushed[sessions]]
    /\ UNCHANGED <<db, overlapped, reply, wire, client, bounds>>

\* The new session replaces the one registered before it and closes it.
Register(c) ==
    /\ handler[c] = "register"
    /\ link' = IF sessions # Nobody /\ link[sessions] = "up"
               THEN [link EXCEPT ![sessions] = "closed"] ELSE link
    /\ sessions' = c
    /\ handler' = [handler EXCEPT ![c] = "push"]
    /\ push' = [push EXCEPT ![c] = [at |-> "list", conn |-> c, specs |-> {}]]
    /\ UNCHANGED <<db, lastPushed, overlapped, pushed, reply, wire, client, bounds>>

\* The clientSession of a dead connection: no later write on it can succeed.
Forget(c) ==
    /\ lastPushed' = [lastPushed EXCEPT ![c] = {}]
    /\ overlapped' = [overlapped EXCEPT ![c] = FALSE]
    /\ pushed' = [pushed EXCEPT ![c] = FALSE]

\* mutant: the entry is deleted whoever owns it
UnregisterAny(c) ==
    /\ handler[c] = "wait"
    /\ link[c] # "up"
    /\ handler' = [handler EXCEPT ![c] = "done"]
    /\ sessions' = Nobody
    /\ Forget(c)
    /\ UNCHANGED <<db, push, network, client, bounds>>

\* CloseChan fires; only the handler's own entry is removed.
Unregister(c) ==
    /\ handler[c] = "wait"
    /\ link[c] # "up"
    /\ handler' = [handler EXCEPT ![c] = "done"]
    /\ sessions' = IF sessions = c THEN Nobody ELSE sessions
    /\ Forget(c)
    /\ UNCHANGED <<db, push, network, client, bounds>>

-----------------------------------------------------------------------------
(* pushTunnelConfig, run by each handler once and by the reconcile loop on  *)
(* every tick.  Only the write is under writeMu.                            *)

\* reconcileClientConfigs copies the session under mu and pushes without it.
Tick ==
    /\ push[ReconcileLoop].at = "idle"
    /\ sessions # Nobody
    /\ push' = [push EXCEPT ![ReconcileLoop] =
                   [at |-> "list", conn |-> sessions, specs |-> {}]]
    /\ UNCHANGED <<db, sessions, handler, lastPushed, overlapped, pushed, network, client,
                   bounds>>

InPush(p, c) == push[p].conn = c /\ push[p].at \in {"send", "assign"}

PushList(p) ==
    LET c == push[p].conn IN
    /\ push[p].at = "list"
    /\ push' = [push EXCEPT ![p] = [at |-> "send", conn |-> c, specs |-> tunnels]]
    /\ overlapped' = [overlapped EXCEPT ![c] = @ \/ \E q \in Pushers \ {p} : InPush(q, c)]
    /\ UNCHANGED <<db, sessions, handler, lastPushed, pushed, network, client, bounds>>

\* pushTunnelConfig returns: the handler goes on to wait for CloseChan.
PushReturns(p) ==
    /\ push' = [push EXCEPT ![p] = IdlePush]
    /\ handler' = IF p = ReconcileLoop THEN handler ELSE [handler EXCEPT ![p] = "wait"]

\* mutant: an empty list of tunnels is never sent
PushSendNonEmpty(p) ==
    LET c == push[p].conn IN
    /\ push[p].at = "send"
    /\ IF push[p].specs \notin {{}, lastPushed[c]} /\ link[c] = "up"
       THEN /\ wire' = [wire EXCEPT ![c] = Append(@, Config(push[p].specs))]
            /\ push' = [push EXCEPT ![p] = [at |-> "assign", conn |-> c, specs |-> push[p].specs]]
            /\ UNCHANGED handler
       ELSE PushReturns(p) /\ UNCHANGED wire
    /\ UNCHANGED <<db, sessions, lastPushed, overlapped, pushed, reply, link, client, bounds>>

\* Compare with lastPushed and, if it differs, write.  The unlocked comparison
\* commutes with other pushers' writes, so the two are one step.  A write on a
\* dead session fails and lastPushed keeps its value.
PushSend(p) ==
    LET c == push[p].conn IN
    /\ push[p].at = "send"
    /\ IF push[p].specs # lastPushed[c] /\ link[c] = "up"
       THEN /\ wire' = [wire EXCEPT ![c] = Append(@, Config(push[p].specs))]
            /\ push' = [push EXCEPT ![p] = [at |-> "assign", conn |-> c, specs |-> push[p].specs]]
            /\ UNCHANGED handler
       ELSE PushReturns(p) /\ UNCHANGED wire
    /\ UNCHANGED <<db, sessions, lastPushed, overlapped, pushed, reply, link, client, bounds>>

PushAssign(p) ==
    /\ push[p].at = "assign"
    /\ lastPushed' = [lastPushed EXCEPT ![push[p].conn] = push[p].specs]
    /\ pushed' = [pushed EXCEPT ![push[p].conn] = TRUE]
    /\ PushReturns(p)
    /\ UNCHANGED <<db, sessions, overlapped, network, client, bounds>>

Push(p) == PushList(p) \/ PushSend(p) \/ PushAssign(p)

-----------------------------------------------------------------------------
(* Deleting the machine and editing its tunnels.                            *)

\* mutant: the missing session is not noticed before the write
DeleteLookupUnchecked(d) ==
    /\ d = "api" /\ del[d].at = "idle"
    /\ del' = [del EXCEPT ![d] = [at |-> "write", conn |-> sessions]]
    /\ UNCHANGED <<row, tunnels, server, network, client, bounds>>

\* handleDeleteClient: PushUninstall looks the session up under mu ...
DeleteLookup(d) ==
    /\ d = "api" /\ del[d].at = "idle"
    /\ del' = [del EXCEPT ![d] =
                  [at |-> IF sessions = Nobody THEN "tx" ELSE "write", conn |-> sessions]]
    /\ UNCHANGED <<row, tunnels, server, network, client, bounds>>

\* ... and writes the uninstall frame on what it found; an error is logged only.
DeletePush(d) ==
    LET c == del[d].conn IN
    /\ del[d].at = "write"
    /\ wire' = IF link[c] = "up" THEN [wire EXCEPT ![c] = Append(@, Uninstall)] ELSE wire
    /\ del' = [del EXCEPT ![d] = [at |-> "tx", conn |-> Nobody]]
    /\ UNCHANGED <<row, tunnels, server, reply, link, client, bounds>>

\* DeleteClient: the row goes, its tunnels cascade, its token is revoked.  A row
\* already gone is an error and no change.
DeleteClient(d) ==
    /\ del[d].at = "tx"
    /\ row' = FALSE
    /\ tunnels' = {}
    /\ del' = [del EXCEPT ![d] = [at |-> "done", conn |-> Nobody]]
    /\ UNCHANGED <<server, network, client, bounds>>

\* `client rm` calls DeleteClient and nothing else: no session is told.
ClientRm(d) ==
    /\ d = "cli" /\ del[d].at = "idle"
    /\ row' = FALSE
    /\ tunnels' = {}
    /\ del' = [del EXCEPT ![d] = [at |-> "done", conn |-> Nobody]]
    /\ UNCHANGED <<server, network, client, bounds>>

\* What is left of a deletion once it has begun.
FinishDelete(d) == DeletePush(d) \/ DeleteClient(d)

\* Creating, deleting, enabling or disabling tunnels, by API or CLI.
EditTunnels ==
    /\ row /\ edits < MaxEdits
    /\ edits' = edits + 1
    /\ tunnels' \in SUBSET Tunnels \ {tunnels}
    /\ UNCHANGED <<row, del, server, network, client, faults>>

-----------------------------------------------------------------------------
(* The agent: Client.Run, runOnce and readControlStream.                    *)

\* The backoff is over and the next connection is made; a failed dial is a
\* stutter.  The backoff lasts at least minBackoff (1s): unless Stall, a reader
\* of an earlier session has by then returned or is in OnUninstall.
Dial(c) ==
    /\ agent.at = "dial"
    /\ Stall \/ \A n \in Conns : reader[n] # "read"
    /\ link[c] = "none" /\ \A n \in Conns : n < c => link[n] # "none"
    /\ link' = [link EXCEPT ![c] = "up"]
    /\ handler' = [handler EXCEPT ![c] = "auth"]
    /\ agent' = [at |-> "auth", conn |-> c]
    /\ UNCHANGED <<db, sessions, lastPushed, push, overlapped, pushed, reply, wire,
                   reader, targets, uninstalls, bounds>>

\* The AuthResponse: run the session, or uninstall and stop for good.
ReadReply ==
    LET c == agent.conn IN
    /\ agent.at = "auth" /\ reply[c] # "none"
    /\ IF reply[c] = "ok"
       THEN /\ agent' = [at |-> "run", conn |-> c]
            /\ reader' = [reader EXCEPT ![c] = "read"]
            /\ UNCHANGED uninstalls
       ELSE /\ agent' = [at |-> "stopped", conn |-> c]
            /\ uninstalls' = uninstalls + 1
            /\ UNCHANGED reader
    /\ reply' = [reply EXCEPT ![c] = "none"]
    /\ UNCHANGED <<db, server, link, wire, targets, bounds>>

\* The connection is lost before an answer arrives.
AuthFails ==
    /\ agent.at = "auth"
    /\ link[agent.conn] = "lost" \/ (link[agent.conn] = "closed" /\ reply[agent.conn] = "none")
    /\ agent' = [at |-> "dial", conn |-> Nobody]
    /\ reply' = [reply EXCEPT ![agent.conn] = "none"]
    /\ UNCHANGED <<db, server, link, wire, reader, targets, uninstalls, bounds>>

\* runOnce returns the first error on errCh and closes the session on its way
\* out.  acceptDataStreams sends one as soon as the session is down; if the
\* reader's ErrUninstalled is first, Run stops, otherwise it retries.
RunOnceReturns ==
    LET c == agent.conn IN
    /\ agent.at = "run"
    /\ \/ /\ reader[c] = "uninstalled"
          /\ agent' = [at |-> "stopped", conn |-> c]
       \/ /\ link[c] # "up" /\ reader[c] # "uninstalled"
          /\ agent' = [at |-> "dial", conn |-> Nobody]
    /\ link' = [link EXCEPT ![c] = "lost"]
    /\ UNCHANGED <<db, server, reply, wire, reader, targets, uninstalls, bounds>>

Running(c) == agent.at # "stopped" /\ reader[c] = "read"

\* A frame arrives: it replaces the targets or starts the uninstall.
ReadFrame(c) ==
    /\ Running(c) /\ wire[c] # <<>>
    /\ wire' = [wire EXCEPT ![c] = Tail(@)]
    /\ IF Head(wire[c]).uninstall
       THEN /\ reader' = [reader EXCEPT ![c] = "uninstall"]
            /\ uninstalls' = uninstalls + 1
            /\ UNCHANGED targets
       ELSE /\ targets' = Head(wire[c]).tunnels
            /\ UNCHANGED <<reader, uninstalls>>
    /\ UNCHANGED <<db, server, reply, link, agent, bounds>>

\* The stream ends: what a lost connection still had in flight is gone.
ReaderFails(c) ==
    /\ Running(c)
    /\ link[c] = "lost" \/ (link[c] = "closed" /\ wire[c] = <<>>)
    /\ reader' = [reader EXCEPT ![c] = "ended"]
    /\ wire' = [wire EXCEPT ![c] = <<>>]
    /\ UNCHANGED <<db, server, reply, link, agent, targets, uninstalls, bounds>>

\* OnUninstall returns.
UninstallDone(c) ==
    /\ agent.at # "stopped" /\ reader[c] = "uninstall"
    /\ reader' = [reader EXCEPT ![c] = "uninstalled"]
    /\ UNCHANGED <<db, server, network, agent, targets, uninstalls, bounds>>

-----------------------------------------------------------------------------
(* Faults.                                                                  *)

Drop(c) ==
    /\ link[c] = "up" /\ faults < MaxFaults
    /\ link' = [link EXCEPT ![c] = "lost"]
    /\ faults' = faults + 1
    /\ UNCHANGED <<db, server, reply, wire, client, edits>>

\* The server process is killed and started again: NewServer has no sessions,
\* an API request in progress is forgotten, a CLI command is another process.
CrashServer ==
    /\ faults < MaxFaults
    /\ faults' = faults + 1
    /\ sessions' = Nobody
    /\ handler' = [c \in Conns |-> IF handler[c] = "none" THEN "none" ELSE "done"]
    /\ push' = [p \in Pushers |-> IdlePush]
    /\ link' = [c \in Conns |-> IF link[c] = "none" THEN "none" ELSE "lost"]
    /\ del' = [d \in Deleters |-> IF del[d].at \in {"write", "tx"}
                                  THEN [at |-> "done", conn |-> Nobody] ELSE del[d]]
    /\ lastPushed' = [c \in Conns |-> {}]
    /\ overlapped' = [c \in Conns |-> FALSE] /\ pushed' = [c \in Conns |-> FALSE]
    /\ UNCHANGED <<row, tunnels, reply, wire, client, edits>>

-----------------------------------------------------------------------------
Handler(c) == Authenticate(c) \/ HandlerFails(c) \/ Register(c) \/ Push(c) \/ Unregister(c)
Reconcile  == Tick \/ Push(ReconcileLoop)
Agent      == (\E c \in Conns : Dial(c)) \/ ReadReply \/ AuthFails \/ RunOnceReturns
Reader(c)  == ReadFrame(c) \/ ReaderFails(c) \/ UninstallDone(c)

Next ==
    \/ \E c \in Conns : Handler(c) \/ Reader(c) \/ Drop(c)
    \/ Reconcile
    \/ Agent
    \/ EditTunnels
    \/ \E d \in Deleters : DeleteLookup(d) \/ ClientRm(d) \/ FinishDelete(d)
    \/ CrashServer

Spec == Init /\ [][Next]_vars

\* Goroutines are scheduled; nothing forces an administrator to act, the
\* network to fail or the server to crash.
Fairness ==
    /\ \A c \in Conns : WF_vars(Handler(c)) /\ WF_vars(Reader(c))
    /\ WF_vars(Reconcile)
    /\ WF_vars(Agent)
    /\ \A d \in Deleters : WF_vars(FinishDelete(d))

FairSpec == Spec /\ Fairness

-----------------------------------------------------------------------------
(* Properties.                                                              *)

\* The agent is being served: its connection is up and is the session that
\* the proxy, the pusher and the UI look up.
Connected == agent.at = "run" /\ sessions = agent.conn /\ link[agent.conn] = "up"

\* A session past registration whose connection is up is the one in the map
\* (server.go:245-262): replacing a session closes the old one, and the old
\* handler's cleanup never removes the entry of a newer connection.
LiveSessionIsCurrent ==
    \A c \in Conns : handler[c] \in {"push", "wait"} /\ link[c] = "up" => sessions = c

\* T is what the agent holds once it has read all that is in flight: the last
\* config on its way, or the targets it has.
Configs(c) == {n \in DOMAIN wire[c] : ~wire[c][n].uninstall}
Arriving(c, T) ==
    /\ Configs(c) = {} => targets = T
    /\ \A n \in Configs(c) : (\A m \in Configs(c) : m <= n) => wire[c][n].tunnels = T

Served(c) == agent = [at |-> "run", conn |-> c] /\ link[c] = "up" /\ reader[c] = "read"

\* Between two pushes of a session that never overlapped, what the server
\* believes it pushed (lastPushed, server.go:366-377) is what the agent holds or
\* is about to hold.  An agent keeps its targets when it reconnects, so this
\* says nothing before the session's first push.
SerialPushesInSync ==
    \A c \in Conns :
        /\ Served(c) /\ ~overlapped[c] /\ pushed[c]
        /\ \A p \in Pushers : push[p].conn = c => push[p].at # "assign"
        => Arriving(c, lastPushed[c])

\* A machine that is not deleted is served again and again, whatever finite
\* number of losses, restarts and replaced sessions it goes through.
ServiceRestored == []<>(Connected \/ ~row)

\* Once edits stop, a served agent's targets are the enabled tunnels, the last of
\* them being disabled included.  Two exceptions: two pushes of the session
\* overlapped; or the session has never pushed anything because no tunnel was
\* enabled whenever it looked (server.go:355-378).
ConfigConverges ==
    <>[](Connected /\ row /\ ~overlapped[sessions] /\ (pushed[sessions] \/ tunnels # {})
         => targets = tunnels)

\* A machine deleted while it is not connected uninstalls itself when it next
\* tries to connect (README: "otherwise the next time it tries to reconnect").
DeletedUninstallsOnDial == (~row /\ agent.at = "dial") ~> agent.at = "stopped"

\* README: "Deleting a machine tells it to uninstall itself, live if it's
\* currently connected": every deleted machine ends up uninstalled.
DeletedUninstalls == ~row ~> agent.at = "stopped"
=============================================================================
