------------------------------- MODULE Startup -------------------------------
(***************************************************************************)
(* Starting portly-server: opening the database (Migration), then the TLS  *)
(* identity of internal/tlsutil/ca.go, which agents pin by fingerprint and *)
(* which "portly-server client add" also creates when it is missing, then  *)
(* the public domain of the panel and the certificate requested for it     *)
(* (internal/api/setup.go, cmd/portly-server/main.go).  Any process may be *)
(* killed at any step; systemd restarts the server (Restart=on-failure).   *)
(***************************************************************************)
EXTENDS Migration, Integers

CONSTANTS
    Domains,      \* the domains an administrator may enter
    Requests      \* handleSetDomain and handleFactoryReset requests

None == "none"                   \* no domain: the empty string in the code
Boot == "boot"                   \* the certificate request made at start-up
Fetchers == Requests \cup {Boot}

ASSUME DomainAssumption == None \notin Domains /\ Boot \notin Requests

VARIABLES
    file,         \* the four PEM files of the data directory
    writing,      \* the file each process is writing, and the key pair it is of
    pairs,        \* how many key pairs were generated, each one distinct
    served,       \* the fingerprint the running server presents, as its pair's number
    pins,         \* the fingerprints handed to machines, which DialPinned insists on
    collided,     \* history: two processes generated the identity at once
    interrupted,  \* history: a process was killed while it wrote one of the files
    setting,      \* DB: server_settings["domain"]
    domain,       \* api.Server.domain
    certState,    \* api.Server.certState
    req,          \* each request's position and the domain it sets
    fetch,        \* each fetchCert goroutine's position and its domain
    cached,       \* autocert's cache: domains with a certificate
    crossed,      \* history: two requests overlapped since the server started
    overtaken     \* history: certState was last set by a fetch of a replaced domain

identity == <<file, writing, pairs, served, pins, collided, interrupted>>
panel    == <<setting, domain, certState, req, fetch, cached, crossed, overtaken>>
vars     == <<at, schemaVars, identity, panel>>

CA     == [cert |-> "ca-cert.pem", key |-> "ca-key.pem"]
Leaf   == [cert |-> "server-cert.pem", key |-> "server-key.pem"]
Files  == {CA.cert, CA.key, Leaf.cert, Leaf.key}
Missing == [state |-> "missing", pair |-> 0]
Torn    == [state |-> "torn", pair |-> 0]        \* created or truncated, not yet written
Whole(n) == [state |-> "whole", pair |-> n]

\* The PEM decodes and the private key belongs to the certificate.
Matches(pair) == file[pair.cert].state = "whole" /\ file[pair.key] = file[pair.cert]

NoFetch  == [at |-> "idle", d |-> None]
Finished == [at |-> "done", d |-> None]

Init ==
    /\ MigrationInit
    /\ file = [f \in Files |-> Missing]
    /\ writing = [p \in Procs |-> [name |-> CA.cert, pair |-> 0]]
    /\ pairs = 0 /\ served = 0 /\ pins = {}
    /\ collided = FALSE /\ interrupted = FALSE
    /\ setting = None /\ domain = None /\ certState = ""
    /\ req = [q \in Requests |-> [at |-> "new", d |-> None]]
    /\ fetch = [f \in Fetchers |-> NoFetch]
    /\ cached = {}
    /\ crossed = FALSE /\ overtaken = FALSE

Generating(p) == at[p] \in {"create", "fill"}

-----------------------------------------------------------------------------
(* EnsureServerCert.                                                        *)

\* The server goes on once the database is open; so does "client add".
StartIdentity(p) ==
    /\ at[p] = "opened"
    /\ Goto(p, "ca")
    /\ UNCHANGED <<schemaVars, identity, panel>>

\* generateCA and generateServerCert make a new key and start writeKeyPair.
Generate(p, pair) ==
    /\ pairs' = pairs + 1
    /\ writing' = [writing EXCEPT ![p] = [name |-> pair.cert, pair |-> pairs + 1]]
    /\ collided' = (collided \/ \E o \in Procs \ {p} : Generating(o))
    /\ Goto(p, "create")

\* mutant: only a pair of which nothing is left is generated again
IncompleteBoth(pair) == file[pair.cert] = Missing /\ file[pair.key] = Missing

Incomplete(pair) == file[pair.cert] = Missing \/ file[pair.key] = Missing

EnsureCA(p) ==
    /\ at[p] = "ca"
    /\ IF Incomplete(CA) THEN Generate(p, CA)
       ELSE Goto(p, "leaf") /\ UNCHANGED <<pairs, writing, collided>>
    /\ UNCHANGED <<schemaVars, file, served, pins, interrupted, panel>>

\* mutant: a certificate for the hosts detected at this start, every time
EnsureLeafForHosts(p) ==
    /\ at[p] = "leaf"
    /\ IF Matches(CA) THEN Generate(p, Leaf)
       ELSE Goto(p, Gone(p)) /\ UNCHANGED <<pairs, writing, collided>>
    /\ UNCHANGED <<schemaVars, file, served, pins, interrupted, panel>>

\* A CA file that does not decode is a nil pointer, one that does not match
\* an error of CreateCertificate: both end the process.
EnsureLeaf(p) ==
    /\ at[p] = "leaf"
    /\ IF Incomplete(Leaf) /\ Matches(CA) THEN Generate(p, Leaf)
       ELSE /\ Goto(p, IF Incomplete(Leaf) THEN Gone(p) ELSE "load")
            /\ UNCHANGED <<pairs, writing, collided>>
    /\ UNCHANGED <<schemaVars, file, served, pins, interrupted, panel>>

\* writeKeyPair opens a file, which creates or empties it, and then writes it;
\* first the certificate, then the key.
CreateFile(p) ==
    /\ at[p] = "create"
    /\ file' = [file EXCEPT ![writing[p].name] = Torn]
    /\ Goto(p, "fill")
    /\ UNCHANGED <<schemaVars, writing, pairs, served, pins, collided, interrupted, panel>>

KeyOf(name) == IF name = CA.cert THEN CA.key ELSE Leaf.key

FillFile(p) ==
    LET name == writing[p].name IN
    /\ at[p] = "fill"
    /\ file' = [file EXCEPT ![name] = Whole(writing[p].pair)]
    /\ IF name \in {CA.key, Leaf.key}
       THEN Goto(p, IF name = CA.key THEN "leaf" ELSE "load") /\ UNCHANGED writing
       ELSE Goto(p, "create") /\ writing' = [writing EXCEPT ![p].name = KeyOf(name)]
    /\ UNCHANGED <<schemaVars, pairs, served, pins, collided, interrupted, panel>>

\* LoadX509KeyPair.  The command prints the fingerprint for the new machine.
CommandLoads(p) ==
    /\ at[p] = "load" /\ p # Server
    /\ Goto(p, "done")
    /\ pins' = IF Matches(Leaf) THEN pins \cup {file[Leaf.cert].pair} ELSE pins
    /\ UNCHANGED <<schemaVars, file, writing, pairs, served, collided, interrupted, panel>>

\* The server loads its pair, then NewServer reads the domain, and a
\* certificate is requested for one that is set.
ServerLoads ==
    /\ at[Server] = "load"
    /\ IF ~Matches(Leaf)
       THEN Goto(Server, "off") /\ UNCHANGED <<served, panel>>
       ELSE /\ Goto(Server, "up")
            /\ served' = file[Leaf.cert].pair
            /\ domain' = setting
            /\ certState' = IF setting = None THEN "" ELSE "pending"
            /\ fetch' = IF setting = None THEN fetch
                        ELSE [fetch EXCEPT ![Boot] = [at |-> "policy", d |-> setting]]
            /\ UNCHANGED <<setting, req, cached, crossed, overtaken>>
    /\ UNCHANGED <<schemaVars, file, writing, pairs, pins, collided, interrupted>>

\* A machine enrolled by the running server is given its fingerprint.
EnrollMachine ==
    /\ at[Server] = "up"
    /\ served \notin pins
    /\ pins' = pins \cup {served}
    /\ UNCHANGED <<at, schemaVars, file, writing, pairs, served, collided, interrupted, panel>>

EnsureServerCert(p) ==
    \/ EnsureCA(p) \/ EnsureLeaf(p) \/ CreateFile(p) \/ FillFile(p) \/ CommandLoads(p)
    \/ (p = Server /\ ServerLoads)

-----------------------------------------------------------------------------
(* The domain and its certificate, while the server runs.                   *)

InProgress(q) == req[q].at \in {"memory", "state"}

\* SetSetting, or FactoryReset's deletion of every setting, sets the row first.
SetDomainRow(q, d) ==
    /\ at[Server] = "up" /\ lock = Nobody
    /\ req[q].at = "new"
    /\ req' = [req EXCEPT ![q] = [at |-> "memory", d |-> d]]
    /\ setting' = d
    /\ crossed' = (crossed \/ \E o \in Requests : InProgress(o))
    /\ UNCHANGED <<at, schemaVars, identity, domain, certState, fetch, cached, overtaken>>

SetDomainMemory(q) ==
    /\ at[Server] = "up"
    /\ req[q].at = "memory"
    /\ domain' = req[q].d
    /\ req' = [req EXCEPT ![q].at = "state"]
    /\ UNCHANGED <<at, schemaVars, identity, setting, certState, fetch, cached, crossed, overtaken>>

\* mutant: the goroutine reports before "pending" is stored
SetDomainStateLate(q) ==
    /\ at[Server] = "up"
    /\ req[q].at = "state"
    /\ req' = [req EXCEPT ![q] = Finished]
    /\ certState' = IF req[q].d = None THEN "" ELSE "pending"
    /\ cached' = cached \cup ({req[q].d} \ {None})
    /\ overtaken' = FALSE
    /\ UNCHANGED <<at, schemaVars, identity, setting, domain, fetch, crossed>>

SetDomainState(q) ==
    /\ at[Server] = "up"
    /\ req[q].at = "state"
    /\ req' = [req EXCEPT ![q] = Finished]
    /\ certState' = IF req[q].d = None THEN "" ELSE "pending"
    /\ fetch' = IF req[q].d = None THEN fetch
                ELSE [fetch EXCEPT ![q] = [at |-> "policy", d |-> req[q].d]]
    /\ overtaken' = FALSE
    /\ UNCHANGED <<at, schemaVars, identity, setting, domain, cached, crossed>>

\* fetchCert ends with SetCertState, whatever the domain is by now.
Report(f, outcome) ==
    /\ certState' = outcome
    /\ fetch' = [fetch EXCEPT ![f] = NoFetch]
    /\ overtaken' = (fetch[f].d # domain)

\* autocert answers from its cache, or asks HostPolicy, which knows one domain.
FetchPolicy(f) ==
    /\ at[Server] = "up"
    /\ fetch[f].at = "policy"
    /\ IF fetch[f].d \in cached THEN Report(f, "ready")
       ELSE IF fetch[f].d # domain THEN Report(f, "error")
            ELSE fetch' = [fetch EXCEPT ![f].at = "issue"] /\ UNCHANGED <<certState, overtaken>>
    /\ UNCHANGED <<at, schemaVars, identity, setting, domain, req, cached, crossed>>

FetchIssued(f, outcome) ==
    /\ at[Server] = "up"
    /\ fetch[f].at = "issue"
    /\ Report(f, outcome)
    /\ cached' = IF outcome = "ready" THEN cached \cup {fetch[f].d} ELSE cached
    /\ UNCHANGED <<at, schemaVars, identity, setting, domain, req, crossed>>

SetDomain(q) == SetDomainMemory(q) \/ SetDomainState(q)
FetchCert(f) == FetchPolicy(f) \/ \E outcome \in {"ready", "error"} : FetchIssued(f, outcome)

-----------------------------------------------------------------------------
(* Restarts.                                                                *)

\* What the server's memory held, its goroutines among it, is gone.
ForgetPanel ==
    /\ served' = 0 /\ domain' = None /\ certState' = ""
    /\ req' = [q \in Requests |-> IF req[q].at = "new" THEN req[q] ELSE Finished]
    /\ fetch' = [f \in Fetchers |-> NoFetch]
    /\ crossed' = FALSE /\ overtaken' = FALSE

\* A killed process loses its transaction and its memory.
Crash(p) ==
    /\ at[p] \notin {"off", "done"}
    /\ crashes < MaxCrashes
    /\ crashes' = crashes + 1
    /\ Goto(p, Gone(p))
    /\ lock' = IF lock = p THEN Nobody ELSE lock
    /\ work' = IF lock = p THEN Fresh ELSE work
    /\ interrupted' = (interrupted \/ Generating(p))
    /\ IF p = Server THEN ForgetPanel
       ELSE UNCHANGED <<served, domain, certState, req, fetch, crossed, overtaken>>
    /\ UNCHANGED <<column, db, fk, written, file, writing, pairs, pins, collided, setting, cached>>

\* The update restarts an old server as one of this version.
StopOld ==
    /\ at[Server] = "old"
    /\ Goto(Server, "off")
    /\ UNCHANGED <<schemaVars, identity, panel>>

ListCommand(p) ==
    /\ at[p] = "opened" /\ p # Server
    /\ Goto(p, "done")
    /\ UNCHANGED <<schemaVars, identity, panel>>

Process(p) ==
    \/ Open(p) /\ UNCHANGED <<identity, panel>>
    \/ StartIdentity(p)
    \/ EnsureServerCert(p)

Next ==
    \/ \E p \in Procs : \/ Process(p) \/ Crash(p)
                        \/ (StoreTunnel(p) \/ DeleteTunnel(p)) /\ UNCHANGED <<identity, panel>>
                        \/ ListCommand(p)
    \/ StopOld
    \/ EnrollMachine
    \/ \E q \in Requests : SetDomain(q) \/ \E d \in Domains \cup {None} : SetDomainRow(q, d)
    \/ \E f \in Fetchers : FetchCert(f)

Spec == Init /\ [][Next]_vars

\* Each process runs on, and so does each goroutine of the server; nothing makes
\* an administrator act or a process die.
Fairness ==
    /\ WF_vars(StopOld)
    /\ \A p \in Procs : WF_vars(Process(p))
    /\ \A q \in Requests : WF_vars(SetDomain(q))
    /\ \A f \in Fetchers : WF_vars(FetchCert(f))

FairSpec == Spec /\ Fairness

-----------------------------------------------------------------------------
(* Properties.                                                              *)

Places == OpenSteps \cup {"off", "old", "opened", "ca", "leaf", "create", "fill", "load", "up",
                          "done"}

IdentityTypeOK ==
    /\ file \in [Files -> [state : {"missing", "torn", "whole"}, pair : Nat]]
    /\ writing \in [Procs -> [name : Files, pair : Nat]]
    /\ pairs \in Nat /\ served \in Nat /\ pins \in SUBSET Nat
    /\ collided \in BOOLEAN /\ interrupted \in BOOLEAN

PanelTypeOK ==
    /\ setting \in Domains \cup {None} /\ domain \in Domains \cup {None}
    /\ certState \in {"", "pending", "ready", "error"}
    /\ req \in [Requests -> [at : {"new", "memory", "state", "done"}, d : Domains \cup {None}]]
    /\ fetch \in [Fetchers -> {NoFetch} \cup [at : {"policy", "issue"}, d : Domains]]
    /\ cached \in SUBSET Domains
    /\ crossed \in BOOLEAN /\ overtaken \in BOOLEAN

TypeOK ==
    /\ at \in [Procs -> Places]
    /\ MigrationTypeOK
    /\ IdentityTypeOK
    /\ PanelTypeOK

\* A server that serves has every column, a nullable public_port and foreign
\* keys enforced on its connection, which every cascading delete relies on
\* (db.go:27-43, 94-164).
ReadyWhenUp == at[Server] = "up" => Complete(db) /\ fk[Server]

\* Unless two processes created the identity at once, every fingerprint ever
\* handed to a machine is the one the running server presents, whatever was
\* killed in between: an agent that pinned it can still connect (ca.go:35-68,
\* dial.go:12-32).
PinnedStaysValid == ~collided /\ at[Server] = "up" => pins \subseteq {served}

\* The four files can never be loaded again: a key file was left empty, or two
\* processes mixed their files.
Exists(pair) == file[pair.cert] # Missing /\ file[pair.key] # Missing
Unloadable(pair) == Exists(pair) /\ ~Matches(pair)
Bricked == Unloadable(Leaf) \/ (~Exists(Leaf) /\ Unloadable(CA))

\* The server comes up, whatever migrations collide and whatever is killed,
\* retried by systemd after every failed start; the exception is an identity that
\* can never be loaded, which only a process killed while it wrote the files, or
\* two that wrote them at once, leave behind (ca.go:160-184).
ServerStarts == <>[](at[Server] = "up" \/ (Bricked /\ (interrupted \/ collided)))

\* With no request and no certificate request in progress the panel does not
\* say "pending"; unless two requests overlapped, the domain in use is the stored
\* one; and unless a request for a replaced domain reported last, "ready" means
\* that this domain has a certificate (setup.go:55-67, main.go:256-271).
QuietDomainAgrees ==
    /\ at[Server] = "up"
    /\ \A q \in Requests : ~InProgress(q)
    /\ \A f \in Fetchers : fetch[f].at = "idle"
    => /\ certState # "pending"
       /\ ~crossed => domain = setting
       /\ ~crossed /\ ~overtaken => /\ certState = "" <=> domain = None
                                    /\ certState = "ready" => domain \in cached
=============================================================================
