# A TLA+ model of Portly

Portly publishes services of machines behind NAT on a VPS.  `portly-server`
accepts control connections of enrolled machines, opens one public listener per
tunnel, and carries players' connections over a yamux session to the machine's
agent, `portly-client`, which dials the local target.  Tunnels, machines and
accounts are rows of a SQLite database that an administrator edits through a
web interface, an API or the CLI.  The modules here model the concurrent core
of that program, TLC checks them on small instances, and TLAPS proves the
invariants that matter most for instances of any size.

## Inventory

| component | state | operations | who it interacts with |
|---|---|---|---|
| control plane, server side (`internal/tunnel/server.go`) | `sessions`, a `clientSession` with `lastPushed` per machine | `handleConn`, `pushTunnelConfig`, `reconcileClientConfigs`, `PushUninstall` | agents over TLS and yamux; the database; the API (deletion, factory reset) |
| agent (`internal/tunnel/client.go`) | `targets`, the current session, the backoff | `Run`, `runOnce`, `readControlStream`, `runUninstall`, data streams, device reports | server; local services; systemd through `OnUninstall` |
| public listeners and shutdown (`server.go`, `cmd/portly-server/main.go`) | `listeners`, `controlLn`, `mcRouterLn`, `activeConns`, `shutdownCh` | `reconcileListeners`, `startTCPListener`, `proxyConn`, `ProbePublicPort`, `Shutdown` | database, players, the API's port probe, signals |
| Minecraft router (`mcrouter.go`) | its listener, each connection's bytes read ahead | accept, peek at the handshake, look the hostname up, replay, `proxyConn` | database, players |
| UDP tunnels (`udp.go`) | per-sender sessions, the redial loop of a listener | `serveUDPTunnel`, `runUDPSession`, `handleUDPStream` and its reaper | agents, players |
| traffic accounting (`server.go`, `internal/db/db.go`) | `liveBytes`, `lastFlushed`, totals and limits in the database | `countingReader`, `trafficFlushLoop`, `AddTunnelTraffic`, edits of limits, the live feed | listeners (a disabled tunnel is closed), UI |
| administrator (`internal/api/auth.go`, `server.go`, `factory_reset.go`, `apikeys.go`) | `admin_users`, the setup code and its file, sessions, API keys | bootstrap claim, login, logout, keys, factory reset, start-up | database, `setup-code.txt` |
| enrollment (`internal/api/clients.go`, `enroll.go`, `cmd/portly-client/enroll.go`) | `clients`, `enrollment_codes`, `revoked_tokens` | create, re-issue, exchange, delete | agent's installer |
| tunnel administration (`internal/api/tunnels.go`) | `tunnels` | create (single or range, with rollback), update, settings, delete | port probe, listeners |
| schema and migrations (`internal/db/db.go`) | the tables and their columns, the write lock, each connection's foreign-key setting | `Open`, `migrateSchema`, the rebuild of `tunnels` | every `portly-server` process opens the one file |
| TLS identity and certificates (`internal/tlsutil`, `internal/api/setup.go`, `cmd/portly-server/main.go`) | CA and server key files, the domain stored and in memory, the certificate's state | `EnsureServerCert`, `handleSetDomain`, `fetchCert` | start-up and `client add`, agents that pin the fingerprint, autocert |
| updates (`internal/updatecheck`, `internal/api/updates.go`, `cmd/portly-client/selfupdate.go`, `scripts/quickstart-vps.sh`) | marker and progress file, update status, binaries | check, apply, the script's stages, self-update | GitHub, systemd, panel pages, agents |
| framing, LAN scan, public address, web interface | none that others rely on | encoding, probing, presentation | |

The hard behaviour is concurrency: a goroutine per connection, per listener and
per player, three background loops, HTTP handlers in parallel with all of
them, each holding a lock only around a map access or one frame.  Almost every
operation reads the database, lets go, and acts on what it read.  Beyond that,
links fail without both ends noticing, the server restarts with agents
connected, and a shutdown is expected to cut nobody.  `PROJECT.json` lists
these hazards at their lines.

What makes each component correct:

* **control plane**: the session that is looked up is the live one; after any
  loss the agent is served again; its targets become the enabled tunnels; a
  deleted machine removes itself.
* **listeners**: listeners converge to the enabled tunnels, no socket is left
  without an owner, a shutdown leaves nothing accepting and cuts nobody.
* **traffic**: no byte is counted twice, none vanishes but in a crash, and
  both limits are enforced by the flush that reaches them.
* **administrator**: one account, always a way to get it, and a reset leaves
  no session of a wiped account.
* **enrollment**: a code enrolls one host; a machine in service keeps its
  token; a machine whose answer was lost can still be given a command.
* **UDP**: answers reach the sender they answer, a sender's datagrams use a
  live socket, the tunnel is served again after any break, and a stop ends all
  goroutines.
* **tunnel administration**: no two tunnels share a hostname; a range is
  created completely or not at all.
* **schema**: no row is lost by processes that migrate at once or are killed,
  and whoever serves is completely migrated.
* **identity and domain**: a fingerprint an agent pinned stays the server's; the
  server comes up again; a panel at rest tells the truth about its domain.
* **router**: a handshake goes to the tunnel it means, however its bytes
  arrive, and the target receives all of them.
* **updates**: an accepted request is run, an open page learns the end of it,
  and every machine comes to run its server's version with a whole binary on
  disk at every instant.

## Modules

| module | models |
|---|---|
| `ControlPlane` | one machine: `handleConn`, the session map, `pushTunnelConfig` by handler and reconcile loop, the agent's `Run`/`runOnce`/`readControlStream`, deletion through the API (`PushUninstall`, then `DeleteClient`) and the CLI, lost links, a server restart |
| `Listeners`, `MCListeners` | public TCP listeners, accept goroutines, Portly's own listeners (control plane, router, web and API) and the ports they take, the port probe, player connections up to their counting in `activeConns`, every step of `Shutdown` |
| `TrafficLedger` | the promise of traffic accounting: each byte accounted for at most once, and never taken back |
| `Traffic`, `MCTraffic` | live counters, the flush loop, the `AddTunnelTraffic` transaction, limits and their edits, deletion, restart; implements `TrafficLedger` |
| `AdminAuth`, `MCAdminAuth` | setup code and file, bootstrap claims, logins, sessions, API keys, factory resets, restart |
| `UdpTunnel` | one UDP tunnel: `serveUDPTunnel`, the pump and the replier of `runUDPSession`, the agent's `handleUDPStream` with its sessions, reaper and readers |
| `Enrollment`, `MCEnrollment` | one machine name: `clients`, `enrollment_codes`, `revoked_tokens`; the panel's requests and the CLI; installer, config file and client process on each host; authentication and first registration |
| `TunnelAdmin`, `MCTunnelAdmin` | the tunnels of one machine: `handleCreateTunnel` with ranges and rollback, the settings form, enabling, deletion, the CLI, ports bound by the listeners |
| `Migration` | `Open` by several processes statement by statement: tables, columns, the rebuild of `tunnels` in its transaction, foreign keys, `SQLITE_BUSY`, rows stored and deleted meanwhile |
| `Startup` | composes `Migration` with `EnsureServerCert` file by file, the server's load and start, `client add`, enrollment's fingerprint, `handleSetDomain` and `fetchCert`, kills and restarts |
| `Handshake` | the bytes a game sends for the host name it means, the bytes `readHandshakeAddress` accepts, and the host name `peekMinecraftHostname` takes from an address |
| `McRouter`, `MCMcRouter` | extends `Handshake`: one connection to the shared Minecraft port, its bytes in any pieces, the VarInt and address parser, lookup, replay and relay |
| `Updates` | update checks, the marker, `portly-update.path` and its service, the script's stages run by the unit or by hand, the progress file and a page, each agent's `checkAndApplyUpdate` |
| `*Proofs` | the theorems about `ControlPlane`, `Listeners`, `Handshake` and `McRouter` (in `ListenersProofs`), `Traffic`, `AdminAuth`, `UdpTunnel`, `Enrollment` and `Updates` (in `EnrollmentProofs`), `TunnelAdmin`, and `Startup` with `Migration` |

A goroutine or request is a program counter; one step is the code between two
points at which another goroutine can be scheduled: a lock released, a database
statement or transaction, a frame written or read.  Critical sections and
transactions are single steps.  `PROJECT.json` maps every definition to the
lines it stands for.  Operators whose comment begins with *mutant* are the
plausible mistakes the properties are tested against; no specification uses
them.

**ControlPlane.** Connections are numbered in dialling order.  `handler[c]` is
`handleConn`'s position, `reader[c]` that of the agent's control-stream
goroutine, `push[p]` that of one activation of `pushTunnelConfig`, whose pusher
`p` is a handler or the reconcile loop (0).  `lastPushed[c]` is the fingerprint
as the set it was built from: the code's initial `""` is also the fingerprint
of no tunnels, so the initial value is `{}`.  `link[c]` is what the connection
has become; either end notices a lost link in a later step of its own.
`targets` belongs to the agent and survives connections, as in the code.
`pushed` is history: the connections on which a config was ever written, which
is not the same as a fingerprint other than that of no tunnels, for a session
that loses its last tunnel pushes the empty set.
`Stall` says whether a reader may still be at work on buffered frames when the
agent dials again; the backoff of at least a second makes that unusual.
One machine is enough, because every map and row is keyed by machine.

**Listeners.** `open` is the kernel's view, `listeners` the map's keys,
`accepting` the goroutines: the three differ after failures.  A pass is three
steps, the check of `shutdownCh` (`ReconcileCheck`), the query
(`ReconcileQuery`) and the work under `listenersMu` (`ReconcileApply`);
`loop.wanted` is what it has read.  `overtaken`, `inflight` and `early` are
history: `Shutdown` closed the listeners during the pass under way; what that
pass wanted, whether it read the table before or afterwards; which connections
were counted when the signal came.  `OwnPorts` are the ports Portly's own
listeners hold at the moment.  They and the tunnels take ports from each other:
a bind fails while the port is held, a failed pass tries again at the next tick,
and `RunMinecraftRouter` and the web listeners do not try again.  A control
listener that cannot bind ends the process, which systemd starts again; here it
waits for its port, which only a probe can hold then.
Protocols are not told apart: `reconcileListeners` treats a UDP listener as it
does a TCP one, and what happens on it is the subject of a module of its own;
only a UDP tunnel never conflicts with Portly's TCP ports.

**Traffic.** A byte is the unit.  `snap` and `pending` are the tick's snapshot
and the tunnels it has still to write.  `carried` and `lost` are history.  A
connection of a tunnel that reached its limit stays open and is still counted,
as in the code.

**AdminAuth.** Codes are numbered as they are issued.  A claim is six steps, a
factory reset seven, since `ClaimSetupCode` and `EnsureSetupCode` are several
statements without a transaction.  `raced`, `refused` and `stale` are history:
two claims overlapped; a claim was refused after consuming the code; a request
held an account when a reset wiped it.

**UdpTunnel.** A datagram is its sender; an answer carries the sender under
whose name the agent tagged it and the one it really answers.  `loop` is the
server's single goroutine, `replier[k]`, `handler[k]` those of stream `k`, and
a socket carries its reader.  Numbers of streams and sockets that nobody refers
to are used again, which keeps the state space finite without bounding redials.
A stream is up or broken; a broken one may still deliver what is buffered, or
fail at once.  Age is three-valued, because the reaper tells only these apart:
zero (the session was just made), recent, old.

**Enrollment.** Tokens are numbered, a code is called by its token and a client
row by its first token, so the model has no separate names for them.
`CreateClient` and `IssueCode` (likewise `ReissueReads`, `RotateToken`,
`IssueCode`) are the separate statements of one request.  `ExchangeAnswers`
follows the committed exchange and may lose the answer.  `raced`, `collided`
and `misled` are history, each one known exception.  The session map is reduced
to what it means for a host (dialling, authenticated, up, told to uninstall);
`ControlPlane` has its detail.  `UninstallByHand` is `portly-client uninstall`,
which tells the server nothing; `EnrollElsewhere` stands for enrolling the host
again as a machine of another name, whose token is not one of this row's.
`removed` is history: the tokens of the row whose config these two took away.

**TunnelAdmin.** A specification of ports is the number of local ports and the
sequence of public ones, 0 being "no port of its own"; empty means the field
was left out.  A creating request is probe, insert, probe, insert ..., and
rollback deletes one tunnel a step.  `by` marks the request that made a tunnel
and exists for the property only.  `crossed` is history.  Enabling, which reads,
probes and updates, is one step: neither property depends on what it enables.

**Migration and Startup.** A process is the server, through all its restarts, or
one command.  `db` is what is committed, `work` the transaction's view, `lock`
its holder; a read sees `db`, a write needs the lock free or fails as busy.
A row stands for a tunnel and its traffic samples, which the cascade of `DROP
TABLE` would take.  `Init` is a new installation, or one of an older version,
missing any tail of the column list, whose server still runs.  A PEM file is
missing, torn (created, not yet written) or whole with the number of its key
pair; loading succeeds when both files of a pair are whole with one number.
`pins` are the fingerprints given out by `client add` and by enrollment.  A
domain request is three steps (row, memory, certificate state), a certificate
request two (autocert's cache and host policy; the answer).  `collided`,
`interrupted`, `crossed`, `overtaken` and `written` are history.

**Handshake and McRouter.** Bytes are numbers, so that VarInts, the sign bit of
the fifth byte, the NUL of Forge's suffix and the final dot are the real ones.
What the game means is a record the parser never sees; `Bytes` renders it, and
the property compares the parser's choice with the record.  `AddressAt` says
declaratively which bytes are a handshake and where its address stands; the
actions of `McRouter` are the loop of `readVarInt`, a byte at a time.  `read` is how far the
buffered reader has got, `pos` how far the parser has: the difference is what
`Replay` must not lose.

**Updates.** A version is a release's number.  The script's stages are numbered
as in the script; a stage's effect and the progress written by its successor
are one step, so two runs interleave stage by stage.  Stages 5 to 8 touch
nothing modelled and are one.  A run by hand that is started inside a checkout
uses it as it is (`reuse`): it may build any commit of main, an older one than
the server runs included.  A download is a request, which fixes the version
that is sent, a body that arrives or is damaged (`BodyDamaged`), the comparison
with the checksum asked for before, the rename and the exec.  Each check for
updates remembers what GitHub told it, so that the timer's and a click's may be
answered in either order; the one at the server's start is answered before it
listens.  `owed`, `lost`, `abandoned` and `execFailed` are history.

## Runs

| run | specification | checks |
|---|---|---|
| `ControlSessions` | `FairSpec`; 3 connections, a loss or a restart, both deleters, stalled readers, no tunnels | `TypeOK`, `LiveSessionIsCurrent`, `DeletedUninstallsOnDial` |
| `ControlRecovery` | `FairSpec`; 3 connections, a loss or a restart, a tunnel edited | `SerialPushesInSync`, `ServiceRestored`, `ConfigConverges` |
| `Listeners` | `FairSpec`; 4 tunnels, a player, 2 edits, an accept error, the control, router and web ports | `TypeOK`, `NoLeakedSocket`, `OnlyInflightReopens`, `EarlyConnsDrained`, `ListenersConverge` |
| `Traffic` | `FairSpec`; 2 tunnels of a machine, 2 bytes, 2 edits, a restart | `BytesConserved`, `LimitsEnforced`, `ImplementsLedger`, `LimitDisablesAgain`, `FlushesEventually` |
| `AdminAuth` | `Spec`; 3 claims, a login, 2 resets, a key, a restart | `SerialClaimsOneAdmin`, `SessionsHaveAccounts`, `StrandedOnlyByRefusal` |
| `UdpTunnel` | `FairSpec`; 2 senders, 2 datagrams, 2 streams and 2 sockets at a time, a loss | `AnswersRoutable`, `NotCrossWired`, `SessionsUsable`, `PairedAgain`, `StopIsComplete` |
| `Enrollment` | `Spec`; 2 hosts, 3 tokens, a request at a time, a restart | `RunningTokenKept`, `OneHostPerCode`, `SeenStaysReachable` |
| `TunnelAdmin` | `Spec`; a creating request, 2 settings forms, 3 tunnels, a restart | `FailedRangeLeavesNothing`, `HostnamesUnique` |
| `Startup` | `FairSpec`; the server and a command, a row, a domain set or removed by 2 requests, a kill | `DataKept`, `ReadyWhenUp`, `PinnedStaysValid`, `QuietDomainAgrees`, `ServerStarts` |
| `McRouter` | `RouterSpec`; 39 inputs, each split in every way, 4 tunnels, one switched meanwhile | `RoutedAsMeant`, `StreamPreserved` |
| `Updates` | `FairUpdatesSpec`; 2 releases, 2 requests, a run by hand, the timer's check and a click's, an agent, a fault | `BinaryStaysWhole`, `RequestRuns`, `PanelSettles`, `AgentsFollow` |
| `ControlZombie` | `FairSpec`; one connection, deletion through the API | `DeletedUninstalls`, violated, see below |

*Bounds.* Three connections are what an old handler, a current session and a
late registration that displaces it need; a fourth adds another of the same
kind.  A loss between any two steps produces all disagreements between the two
ends, and the theorem about sessions covers any number of both.  In
`Listeners`, `t1` and `t2` share a port one after the other, `t3` has none and
`t4` has the router's, which are the cases `reconcileListeners` and the probe
tell apart; the player's connection comes through a tunnel or through the
router, before or after the signal, and `DrainIsComplete` covers any number of
them.  A limit of one byte is reached by either tunnel, or by both within
one tick, and a second byte goes beyond it.  Three claims and two resets let a
claim, its account's reset and two further claims happen in any order.  In
`UdpTunnel` two streams are the old one, whose goroutines are still ending, and
the new one; two senders are what cross-wiring needs.  In `Enrollment` three
tokens are the first, its rotation and a re-added machine's; two hosts compete
for a code.  One request at a time there still interleaves with all hosts,
deletion and the CLI.  In `TunnelAdmin` `TunnelAdd` and `DeleteTunnel` do to
the tables all that a second creating request could, so one is enough; the
theorems of both modules cover any number of requests.  In `Startup` two
processes are what a collision needs, and one kill falls between any two
statements or file operations; with one domain, removing it and setting it
again gives a certificate request whose domain was replaced, as two would; the
theorems cover any number of each.  `MCHandshakes` takes every number of the
handshake to both sides of each of its limits, one number at a time, and every
combination of capitals, final dot and Forge suffix; no input is longer than 16
bytes, so every split of every input is tried.  In `Updates` two releases let
the server be replaced by the newer one between an agent's checksum and its
download, and a run by hand put the older one back after that; the second
request arrives while the first is at any point of its run; the theorem covers
any number of releases.  Faults of every kind share one budget (`MaxFaults`), in `ControlPlane`
as well: one loss or one restart, one failed stage, check, download or exec or
one reboot, at any point.  `MaxEdits`, `MaxToggles`, `MaxRestarts`, `MaxStops`, `MaxTokens`,
`MaxTunnels`, `MaxDrops`, `MaxCrashes` and the like bound what nothing in the
code bounds.  Symmetry is used where
only invariants are checked (`AdminAuth`, `Enrollment`, `TunnelAdmin`) and for
sets no definition tells apart.
Deadlock is not checked: the bounds make every instance stop, and so may the
system (nobody dials, nobody edits).

*Fairness.* Goroutines that can run are run: each handler, reader, the
reconcile and flush loops (tickers), the agent's retry loop, the rest of a
deletion request, `Shutdown`, start-up and the end of a port probe; for UDP the
pump, replier, handlers and the read deadline of a socket's reader, and an
agent's connecting and learning its config, which `ControlRecovery` shows; at
start-up every process's next statement and systemd's restart of the server,
then each request's and certificate request's goroutine; for updates systemd,
the script, the server's start and the page's poll (whose steps are finitely
many for each request, run and restart, so that one condition on their union
serves), the periodic update check with the answers to all checks, and each
agent's loop.
Edits, players, datagrams, signals, losses and restarts are never forced.  Each is weak fairness
of one goroutine, which the Go scheduler provides.

### Where the code falls short of what it says

One run keeps a counterexample to a sentence of the documentation, quoted under
`findings`: `ControlZombie` - a machine deleted between authentication and
registration stays connected and is never told.

The passing properties carry those exceptions explicitly (`overlapped`,
`pushed`, "while it dials", `inflight`, `OwnPorts`, `refused`, `raced`,
`collided`, `misled`, `removed`, `crossed`, `overtaken`, `interrupted`, `lost`, `abandoned`,
`execFailed`), so that they show the exception is the only one.  The exceptions,
visible in the models:

* an agent that reconnects after its last tunnel was removed is not told, since
  the fingerprint of no tunnels equals the initial `lastPushed`; it keeps its
  old targets until a tunnel is enabled (`pushed`; server.go:366;
  protocol.go:66-68 says the whole desired state is sent on every change).  A
  session that has pushed once is told of the removal, and `ConfigConverges`
  says so;
* a reconcile pass past its shutdown check reopens listeners after `Shutdown`
  closed them; if `Shutdown` came before its query, even of tunnels enabled
  after the signal (`overtaken`, `inflight`; server.go:421-434 against the
  comment at 416-418);
* a TCP tunnel stored with a port of Portly's own is never opened while Portly
  listens there, and every tick fails anew: the command line stores what it is
  given (main.go:483), and its example in the README (`--public-port 25565`) has
  the router's default port (`OwnPorts`; server.go:497).  If the tunnel comes
  first, the router or a web listener fails once and is not started again
  (`mcRouterLn`, `webLn`; main.go:296-329);
* overlapping pushes of one session leave the agent with the older config
  while the newer fingerprint is stored (`overlapped`; server.go:366-377);
* a claim refused for a short name or password has already consumed the setup
  code; only a restart issues another (`refused`; auth.go:165-183);
* two overlapping claims with the one code create two accounts (`raced`;
  README: "refuses to issue a second admin account");
* a login that read the account before a factory reset opens its session after
  `clearAllSessions` (`stale`);
* a connection accepted but not yet counted in `activeConns` is not waited for
  (hence `early` in `EarlyConnsDrained`);
* `OnUninstall` may run twice when the link fails while it runs for a pushed
  frame (`uninstalls` reaches 2; client.go:41: "exactly once");
* after an `Accept` error the map entry stays and nothing restarts the
  listener (`listeners` without `accepting`; server.go:41: "running listener");
* a signal before `Run` has stored its listener leaves the control plane
  accepting through the drain (`controlLn = "stored"` after `Shutdown`);
* live counters start at zero after a restart and no longer mirror the totals
  (server.go:558-560);
* a factory reset leaves the API keys (db.go:527; README: "the same state as a
  fresh install");
* a machine that connects for the first time between a re-issue's check and its
  rotation runs on a token that is no longer valid (`raced`; clients.go:108-113);
* a rotation leaves earlier codes, which are then exchanged for the replaced
  token; that token is not revoked either, so such a host is rejected for ever
  and never told to uninstall (`misled`; db.go:369);
* an uninstall of the deleted machine removes the config a reinstallation on
  the same host has just written (`collided`; uninstall.go:26);
* a machine once seen whose config was removed by `portly-client uninstall`, or
  overwritten by enrolling its host as another machine, stays seen, so that no
  install command can be issued for it: it has to be deleted and added again
  (`removed`; cmd/portly-client/main.go:73-111, enroll.go:59-76, clients.go:108);
* the reader of a UDP session may end while the session stays in use, after
  which its sender gets no answers until it pauses (`ReaderEnds`; udp.go:225);
* two settings forms may give one hostname to two tunnels (`crossed`;
  tunnels.go:297-303);
* a server stopped in the middle of a range leaves the part it created
  (`"cut"`), and a request that leaves out a port field panics (`Panics`;
  tunnels.go:196, 225), which net/http turns into a closed connection;
* an uninstall frame is sent before `DeleteClient`, whose failure leaves the
  machine in the panel and gone in fact (clients.go:188; a database error, so
  not in the model);
* a process killed between creating and filling a key file leaves a file every
  later start fails on, for an empty CA file with a nil pointer
  (`interrupted`; ca.go:178, 115-121): the server never starts again by itself;
* `client add` before the server's first start has finished mixes the files of
  two identities, or hands out a fingerprint that is then replaced (`collided`;
  main.go:386);
* two processes that check for a column and then add it: the later one's `Open`
  fails on the duplicate, and a command is not run again (`AddColumn`;
  db.go:60-70);
* the comment at db.go:50-52 says that a new database gets its columns from
  schema.sql, which has one of the four; the migrations add the others
  (`ApplySchema`, mutant `ApplySchemaTrusts`);
* the outcome of a certificate request for a domain replaced meanwhile is shown
  as the new domain's (`overtaken`; main.go:256-271), and overlapping requests
  may leave another domain in use than the stored one (`crossed`;
  setup.go:52-65);
* a hostname saved with a final dot never matches, because only the player's
  name is trimmed (tunnels.go:287, mcrouter.go:118-129);
* a script that ends through `die`, or a reboot, leaves the progress file at
  "running" and the page's overlay with it (`abandoned`;
  quickstart-vps.sh:53, 118, 123 against README: 245-250);
* an agent whose exec fails after the rename finds its file up to date from then
  on and stays on the old version until it is restarted (`execFailed`;
  selfupdate.go:84-106).

## Proofs

TLAPS checks the theorems for every value of the constants that satisfies the
modules' named assumptions; these only give constants their types
(`ConstantsAssumption`, `ListenersAssumption`, `TrafficAssumption`,
`AdminAssumption`, `UdpAssumption`, `EnrollmentAssumption`,
`TunnelAdminAssumption`, `ProcsAssumption`, `DomainAssumption`,
`UpdatesAssumption`) or say what the inputs are (`HandshakeAssumption`,
`RouterAssumption`, below), and TLC evaluates them in every run.  One theorem
has a hypothesis of its own, named below: `PushesStayInSync`.

* `ControlPlaneProofs`: `TypeCorrect`; `SessionsCorrect`
  (`LiveSessionIsCurrent`).  The property is not inductive: a handler that
  finishes a push becomes "wait", so `SessionInv` adds that only a handler in
  "push" has a push of its own, and that a connection not yet dialled has no
  handler.  `PushesStayInSync` (`SerialPushesInSync`) is proved for `~Stall`,
  the case its run checks: a reader that outlives the backoff could overwrite
  the targets with an older session's config.  `PushInv` adds that only the
  reader of the agent's connection reads (`ReaderInv`), that a connection not
  yet dialled has no session and no push (`FreshInv`), that one push at a time
  is past its read of the tunnels (`UniqueInv`), and, in `SyncAt`, that what
  was last written is arriving: it is in the pusher's specs between the write
  and the assignment, in `lastPushed` afterwards.  Three lemmas say what
  appending a config, appending an uninstall frame and reading a config do to
  what is arriving.
* `ListenersProofs`: `TypeCorrect`; `ShutdownKeepsListenersClosed`
  (`OnlyInflightReopens`), strengthened by `ReopenInv`: only the pass that
  was under way when the listeners were closed goes on, and what it wants is
  recorded; `DrainIsComplete`
  (`EarlyConnsDrained`), strengthened by `DrainInv`: a connection counted at
  the signal stays counted until it is done; `SocketsHaveEntries`
  (`NoLeakedSocket`), strengthened by `SocketInv`: ports are unique in the table
  and in the list a pass has read from it, and a listener of Portly's own and a
  tunnel's never hold one port.  About `Handshake` and
  `McRouter`: `StreamArrivesWhole` (`StreamPreserved`), from `StreamInv`: a
  connection still parsed has reached no target, and a target has what was read;
  and `HandshakesRouted` (`RoutedAsMeant`), described next.
* `TrafficProofs`: `TypeCorrect`; `NoByteCountedTwice` (`BytesConserved`),
  strengthened by `SnapshotInv`: a pending snapshot lies between what was
  flushed and what is counted; `TrafficImplementsLedger`: every step is a
  ledger step or a stutter, from the same invariant; `LimitsAreEnforced`
  (`LimitsEnforced`), an action property, from the type invariant and what
  one `AddTunnelTraffic` does (`FlushEnforces`).
* `AdminAuthProofs`: `TypeCorrect`; `SerialClaims` (`SerialClaimsOneAdmin`),
  strengthened by `ClaimInv`: without overlap at most one claim is past its
  check and no account exists while it is; `SessionsCleared`
  (`SessionsHaveAccounts`), strengthened by `SessionInv`: a request about to
  open a session holds an account that exists or was wiped under it;
  `StrandedByRefusalOnly` (`StrandedOnlyByRefusal`), strengthened by
  `ClaimableInv`: without account and code, a claim is about to create the one
  or a reset to issue the other.
* `UdpTunnelProofs`: `TypeCorrect`, `AnswersFindTheirSender`
  (`AnswersRoutable`), `AnswersNotCrossWired` (`NotCrossWired`) and
  `SessionsStayUsable` (`SessionsUsable`), all from `UdpInv`: what travels on a
  stream belongs to senders recorded for it (`WireInv`, `LoopInv`), a socket
  was written to by its own sender only (`SocketInv`), and the socket a handler
  has at hand is not given to another sender under it (`HandlerInv`), although
  numbers of streams and sockets are used again.
* `EnrollmentProofs`: `TypeCorrect`; `TokenKept` (`RunningTokenKept`);
  `CodesSingleUse` (`OneHostPerCode`).  The first needs `Generated` (nothing
  refers to a token or row not yet generated) and `RaceInv` (unless raced: while
  a re-issue is past its check the machine is not seen and no connection of it
  is authenticated, and one that is authenticated holds the row's token); the
  second needs `Placed`: a code's token is in one place only, the table, one
  installation or one config.  `SeenIsReachable` (`SeenStaysReachable`) adds
  `ReachInv`: once the row's token is in use on some host a config holds it, an
  installation about to write never overwrites it, and a process runs with its
  config's token unless a new one was just written; what is removed or
  overwritten by hand is in `removed` (`HandReach`).  About `Updates`:
  `MachinesStayWhole` (`BinaryStaysWhole`), from `VersionInv` (whatever is built,
  installed or run is a commit of main, in whatever order) and `DownloadInv` (a
  checksum an agent holds is that of a version a server ran, what it is about to
  rename has that checksum, and so has what it is about to execute).
* `TunnelAdminProofs`: `TypeCorrect`, which needs that a request at work points
  into its range; `RollbackIsComplete` (`FailedRangeLeavesNothing`),
  strengthened by `OwnInv`: every tunnel of a request still at work is in its
  list `made`, and a request that has not begun has none; `HostnamesStayUnique`
  (`HostnamesUnique`), strengthened by `HostInv`: the hostname an editor has
  checked is still free, and no two editors hold one for two tunnels, unless
  crossed.

* `StartupProofs`: `TypeCorrect`; `RowsSurvive` (`DataKept`) and
  `ServesMigrated` (`ReadyWhenUp`), both from `MigrationInv`: the transaction's
  holder is the one process inside it, its view agrees with what is committed
  but for the rebuild, foreign keys are off exactly from "copy" to "fkon", and
  a process past a migration finds its column; `PinsStayValid`
  (`PinnedStaysValid`), strengthened by `PinInv`: without a collision there is
  one writer, a half-written leaf never matches its older key, and once a
  fingerprint was handed out the leaf's two files hold that pair;
  `QuietPanelAgrees` (`QuietDomainAgrees`), strengthened by `PanelInv`: without
  overlap one request at a time carries the stored domain into memory, and
  "pending" always has a goroutine that will report.

`HandshakesRouted` says that the parser recovers what the bytes were rendered
from, for every host name, any four numbers of 32 bits, any combination of
capitals, final dot and Forge suffix, any wrong address length, any split, and
any other bytes.  It takes no induction over data, because a VarInt has at most
five bytes and the address is copied in steps.  The argument has three parts:

* *the parser computes the grammar* (`ParserCorrect`, the inductive invariant
  `RouteInv`).  While a number is read, `value` is the worth of the bytes since
  the field began, the field began where `IdAt`, `VersionAt` or `AddrLenAt` has
  it, and every byte since has the continuation bit (`NumberInv`); while the
  address is read, `addr` is the piece behind the fourth number (`AddressInv`);
  a connection that was decided was decided by the one name its bytes spell
  (`ResultInv`).  A drop needs that no number of at most five bytes stands there
  at all, which `NumberStep` shows for each of the reasons to drop;
* *the grammar is unambiguous* (`AddressOnce`, from `VarIntEndsOnce`): bytes
  hold at most one address at one place;
* *what is rendered is in the grammar* (`InputSpells`): `VarIntParsed` is the
  round trip of all 32-bit numbers, negative ones included, by cases on the
  number of groups; `HostnameOfAddress` undoes capitals, final dot and suffix; a
  packet length, id or address length out of range leaves no address
  (`NoAddress`).

`HandshakeAssumption` says what the constants mean: a handshake's host name is
printable, in small letters and without a final dot, as the name of a tunnel must
be to match; a wrong address length is negative or promises more than is sent
(one shorter than the address is a proper handshake for another name); garbage
spells no host name.  `RouterAssumption` takes from `TunnelAdmin` that two tunnels
never share a host name other than the empty one; after crossed settings forms
(`crossed`) they may, and which of the two is served is then the database's
choice.

Only model-checked: the liveness properties (`ServiceRestored`,
`ConfigConverges`, `DeletedUninstallsOnDial`, `ListenersConverge`,
`LimitDisablesAgain`, `FlushesEventually`, `PairedAgain`, `StopIsComplete`,
`ServerStarts`, `RequestRuns`, `PanelSettles`, `AgentsFollow`), which are beyond
this prover.  Every invariant and every action property of the passing runs is
stated by a theorem.

## Not modelled

* What streams carry: TCP data streams, PROXY headers, frame encoding.
* LAN scan and device reports, public address, the web interface: no state
  others rely on.
* Database errors other than a violated constraint or foreign key.
* Changing an administrator's user name or password.
* A client started without systemd (`startDetached`).
* Ports held by programs other than Portly, but for the probe in `Listeners`,
  and a server run without the Minecraft router (`--mc-router-addr ""`).
* Inside autocert, Let's Encrypt, SQLite and systemd: modelled from how the code
  uses them, and marked external.
* Writing the CA's or the server's files failing for want of space or rights.
* Of updates: a checkout with commits of its own, the log file, a torn read of the progress file (rewritten whole
  by the next stage), the script's stages that only install packages, source
  read by a build while another run checks out a newer commit (the checkout is
  one step at its stage's end), and a self-update on a machine that is being
  uninstalled.

## Plan

1. Control plane, listeners, traffic, administrator, UDP, enrollment, tunnel
   administration, with their theorems - done.
2. The router's handshake, migrations and start-up with identity and domain,
   updates; the theorems about start-up - done.
3. The remaining safety invariants, the action property `LimitsEnforced`, and
   the router's parser (`RoutedAsMeant`) - done; no safety property is left
   without a theorem.
4. An administrator's change of credentials, and clients without systemd.
