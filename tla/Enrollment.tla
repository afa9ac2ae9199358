----------------------------- MODULE Enrollment -----------------------------
(***************************************************************************)
(* How a machine gets its credentials: the client row with its token, the  *)
(* one-time enrollment codes (internal/api/clients.go, internal/db/db.go), *)
(* the installation script on a host (internal/api/enroll.go,              *)
(* cmd/portly-client/enroll.go) and the first connection with the token    *)
(* (internal/tunnel/server.go).                                            *)
(*                                                                         *)
(* There is one machine name, so one row at a time; it may be deleted and  *)
(* added again.  Tokens are numbered in the order of their generation.  A  *)
(* code is made for one token and is called by its number; a row is called *)
(* by the token it was created with.  Hosts run systemd.                   *)
(***************************************************************************)
EXTENDS Naturals

CONSTANTS
    Hosts,       \* computers on which the installation is run
    Requests,    \* concurrent requests to add the machine or re-issue its command
    MaxTokens,   \* bound: tokens generated
    MaxStops     \* bound: restarts of the server

Tokens == 1..MaxTokens
None == 0

ASSUME EnrollmentAssumption == MaxTokens \in Nat /\ MaxStops \in Nat

VARIABLES
    row,        \* the machine's row in clients: id, token and last_seen, or NoRow
    issued,     \* the number of tokens generated
    codes,      \* enrollment_codes that have not expired, named by their token
    revoked,    \* revoked_tokens
    shown,      \* codes in an install command an administrator was shown
    printed,    \* tokens printed by `portly-server client add`
    request,    \* requests: position, the client id they read, their token
    installer,  \* the installation on a host: position, code, id of the code's client
    config,     \* the token in the host's config file
    proc,       \* the host's client process: position, token, id it is known by
    raced,      \* history: a machine authenticated during a re-issue's check
    collided,   \* history: a deleted machine's uninstall removed a config just written
    removed,    \* history: tokens of the row whose config was removed or overwritten by hand
    misled,     \* history: a host was given a token no longer current
    stops       \* counter of the bound

vars == <<row, issued, codes, revoked, shown, printed, request, installer, config, proc,
          raced, collided, removed, misled, stops>>
database == <<row, issued, codes, revoked>>
screen   == <<shown, printed>>
host     == <<installer, config, proc>>
history  == <<raced, collided, removed, misled>>

NoRow == [id |-> None, token |-> None, seen |-> FALSE]
NoRequest == [at |-> "idle", id |-> None, token |-> None]
NoInstall == [at |-> "idle", code |-> None, id |-> None]
NoProc == [at |-> "off", token |-> None, id |-> None]

TypeOK ==
    /\ row \in [id : {None} \cup Tokens, token : {None} \cup Tokens, seen : BOOLEAN]
    /\ row.id = None <=> row = NoRow
    /\ issued \in {None} \cup Tokens
    /\ codes \subseteq Tokens /\ revoked \subseteq Tokens
    /\ shown \subseteq Tokens /\ printed \subseteq Tokens
    /\ request \in [Requests -> [at : {"idle", "checked", "issue"}, id : {None} \cup Tokens,
                                 token : {None} \cup Tokens]]
    /\ installer \in [Hosts -> [at : {"idle", "asked", "consumed", "answered", "written"},
                                code : {None} \cup Tokens, id : {None} \cup Tokens]]
    /\ config \in [Hosts -> {None} \cup Tokens]
    /\ proc \in [Hosts -> [at : {"off", "dial", "authed", "up", "told"},
                           token : {None} \cup Tokens, id : {None} \cup Tokens]]
    /\ \A h \in Hosts : proc[h].at = "off" <=> proc[h].token = None
    /\ raced \in BOOLEAN /\ collided \in BOOLEAN /\ misled \in BOOLEAN
    /\ removed \subseteq Tokens
    /\ stops \in Nat

Init ==
    /\ row = NoRow /\ issued = 0
    /\ codes = {} /\ revoked = {} /\ shown = {} /\ printed = {}
    /\ request = [r \in Requests |-> NoRequest]
    /\ installer = [h \in Hosts |-> NoInstall]
    /\ config = [h \in Hosts |-> None]
    /\ proc = [h \in Hosts |-> NoProc]
    /\ raced = FALSE /\ collided = FALSE /\ misled = FALSE /\ removed = {}
    /\ stops = 0

-----------------------------------------------------------------------------
(* The panel and the command line.                                          *)

\* GenerateToken and the INSERT of CreateClient; the name is UNIQUE.
InsertClient ==
    /\ row = NoRow /\ issued < MaxTokens
    /\ issued' = issued + 1
    /\ row' = [id |-> issued + 1, token |-> issued + 1, seen |-> FALSE]

\* handleCreateClient inserts the row; its code follows in IssueCode.
CreateClient(r) ==
    /\ request[r].at = "idle"
    /\ InsertClient
    /\ request' = [request EXCEPT ![r] = [at |-> "issue", id |-> issued', token |-> issued']]
    /\ UNCHANGED <<codes, revoked, screen, host, history, stops>>

\* `portly-server client add` prints the token itself.
ClientAdd ==
    /\ InsertClient
    /\ printed' = printed \cup {issued'}
    /\ UNCHANGED <<codes, revoked, shown, request, host, history, stops>>

\* mutant: last_seen is not looked at
ReissueReadsAny(r) ==
    /\ request[r].at = "idle" /\ row # NoRow
    /\ request' = [request EXCEPT ![r] = [NoRequest EXCEPT !.at = "checked", !.id = row.id]]
    /\ UNCHANGED <<database, screen, host, history, stops>>

\* handleReissueInstall reads the row and goes on only if it was never seen.
ReissueReads(r) ==
    /\ request[r].at = "idle" /\ row # NoRow /\ ~row.seen
    /\ request' = [request EXCEPT ![r] = [NoRequest EXCEPT !.at = "checked", !.id = row.id]]
    /\ raced' = (raced \/ \E h \in Hosts : proc[h].at = "authed" /\ proc[h].id = row.id)
    /\ UNCHANGED <<database, screen, host, collided, removed, misled, stops>>

\* RotateClientToken: nothing else changes, neither codes nor revoked tokens.
RotateToken(r) ==
    /\ request[r].at = "checked"
    /\ \/ /\ row # NoRow /\ row.id = request[r].id /\ issued < MaxTokens
          /\ issued' = issued + 1
          /\ row' = [row EXCEPT !.token = issued + 1]
          /\ request' = [request EXCEPT ![r].at = "issue", ![r].token = issued + 1]
       \/ /\ row.id # request[r].id
          /\ request' = [request EXCEPT ![r] = NoRequest]
          /\ UNCHANGED <<row, issued>>
    /\ UNCHANGED <<codes, revoked, screen, host, history, stops>>

\* CreateEnrollmentCode, of handleCreateClient and handleReissueInstall: the
\* foreign key refuses a code of a deleted row.  The command is shown.
IssueCode(r) ==
    LET t == request[r].token IN
    /\ request[r].at = "issue"
    /\ request' = [request EXCEPT ![r] = NoRequest]
    /\ IF row.id = request[r].id
       THEN codes' = codes \cup {t} /\ shown' = shown \cup {t}
       ELSE UNCHANGED <<codes, shown>>
    /\ UNCHANGED <<row, issued, revoked, printed, host, history, stops>>

\* handleDeleteClient: the session is told to uninstall, the row goes with its
\* codes and its token is revoked.  How this interleaves with the machine's
\* connections is module ControlPlane's subject.
DeleteClient ==
    /\ row # NoRow
    /\ proc' = [h \in Hosts |-> IF proc[h].at = "up" /\ proc[h].id = row.id
                                THEN [proc[h] EXCEPT !.at = "told"] ELSE proc[h]]
    /\ row' = NoRow
    /\ codes' = {}
    /\ revoked' = revoked \cup {row.token}
    /\ removed' = {}
    /\ UNCHANGED <<issued, screen, request, installer, config, raced, collided, misled, stops>>

Expire(c) ==
    /\ c \in codes
    /\ codes' = codes \ {c}
    /\ UNCHANGED <<row, issued, revoked, screen, request, host, history, stops>>

\* The server stops and starts again: requests, exchanges and connections are
\* cut, the database stays.
Restart ==
    /\ stops < MaxStops
    /\ stops' = stops + 1
    /\ request' = [r \in Requests |-> NoRequest]
    /\ installer' = [h \in Hosts |-> IF installer[h].at \in {"asked", "consumed"}
                                     THEN NoInstall ELSE installer[h]]
    /\ proc' = [h \in Hosts |-> IF proc[h].at \in {"authed", "up"}
                                THEN [proc[h] EXCEPT !.at = "dial", !.id = None] ELSE proc[h]]
    /\ UNCHANGED <<database, screen, config, history>>

-----------------------------------------------------------------------------
(* The installation on a host.                                              *)

\* install.sh runs `portly-client enroll` with a code the administrator saw.
RunInstaller(h, c) ==
    /\ installer[h].at = "idle" /\ c \in shown
    /\ installer' = [installer EXCEPT ![h] = [NoInstall EXCEPT !.at = "asked", !.code = c]]
    /\ UNCHANGED <<database, screen, request, config, proc, history, stops>>

\* mutant: the code's row is left to expire
ExchangeKeepsCode(h) ==
    LET c == installer[h].code IN
    /\ installer[h].at = "asked"
    /\ IF c \in codes
       THEN installer' = [installer EXCEPT ![h].at = "consumed", ![h].id = row.id]
       ELSE installer' = [installer EXCEPT ![h] = NoInstall]
    /\ UNCHANGED <<database, screen, request, config, proc, history, stops>>

\* mutant: the exchange counts as the machine's first connection
ExchangeMarksSeen(h) ==
    LET c == installer[h].code IN
    /\ installer[h].at = "asked"
    /\ IF c \in codes
       THEN /\ codes' = codes \ {c}
            /\ row' = [row EXCEPT !.seen = TRUE]
            /\ installer' = [installer EXCEPT ![h].at = "consumed", ![h].id = row.id]
       ELSE /\ installer' = [installer EXCEPT ![h] = NoInstall]
            /\ UNCHANGED <<row, codes>>
    /\ UNCHANGED <<issued, revoked, screen, request, config, proc, history, stops>>

\* The transaction of ExchangeEnrollmentCode; an unknown, used or expired code
\* is refused and the script stops.
Exchange(h) ==
    LET c == installer[h].code IN
    /\ installer[h].at = "asked"
    /\ IF c \in codes
       THEN /\ codes' = codes \ {c}
            /\ installer' = [installer EXCEPT ![h].at = "consumed", ![h].id = row.id]
       ELSE /\ installer' = [installer EXCEPT ![h] = NoInstall]
            /\ UNCHANGED codes
    /\ UNCHANGED <<row, issued, revoked, screen, request, config, proc, history, stops>>

\* GetClientByID after the commit, and the answer, which may be lost.  The
\* row's token has perhaps been rotated since the code was made.
ExchangeAnswers(h) ==
    /\ installer[h].at = "consumed"
    /\ \/ /\ row.id = installer[h].id
          /\ installer' = [installer EXCEPT ![h].at = "answered"]
          /\ misled' = (misled \/ row.token # installer[h].code)
       \/ /\ installer' = [installer EXCEPT ![h] = NoInstall]
          /\ UNCHANGED misled
    /\ UNCHANGED <<database, screen, request, config, proc, raced, collided, removed, stops>>

\* SaveClientConfig; the process running meanwhile is not touched.
WriteConfig(h) ==
    /\ installer[h].at = "answered"
    /\ config' = [config EXCEPT ![h] = installer[h].code]
    /\ installer' = [installer EXCEPT ![h].at = "written"]
    /\ UNCHANGED <<database, screen, request, proc, history, stops>>

\* `portly-client init` with a token the command line printed.
InitConfig(h, t) ==
    /\ installer[h].at = "idle" /\ t \in printed
    /\ config' = [config EXCEPT ![h] = t]
    /\ installer' = [installer EXCEPT ![h].at = "written"]
    /\ misled' = (misled \/ t # row.token)
    /\ UNCHANGED <<database, screen, request, proc, raced, collided, removed, stops>>

\* mutant: the service starts without a config
StartServiceUnchecked(h) ==
    /\ installer[h].at = "written" /\ proc[h].at # "told"
    /\ installer' = [installer EXCEPT ![h] = NoInstall]
    /\ proc' = [proc EXCEPT ![h] = [NoProc EXCEPT !.at = "dial", !.token = config[h]]]
    /\ UNCHANGED <<database, screen, request, config, history, stops>>

\* systemctl restart: an uninstall under way ends first; LoadClientConfig
\* fails when there is no config.
StartService(h) ==
    /\ installer[h].at = "written" /\ proc[h].at # "told"
    /\ installer' = [installer EXCEPT ![h] = NoInstall]
    /\ proc' = [proc EXCEPT ![h] = IF config[h] = None THEN NoProc
                                   ELSE [NoProc EXCEPT !.at = "dial", !.token = config[h]]]
    /\ UNCHANGED <<database, screen, request, config, history, stops>>

-----------------------------------------------------------------------------
(* The client process.                                                      *)

\* handleConn up to the answer: a current token is welcome, a revoked one is
\* told to uninstall, any other is rejected and dials again.
Authenticate(h) ==
    /\ proc[h].at = "dial"
    /\ \/ /\ row # NoRow /\ proc[h].token = row.token
          /\ proc' = [proc EXCEPT ![h].at = "authed", ![h].id = row.id]
          /\ raced' = (raced \/ \E r \in Requests :
                                    request[r].at = "checked" /\ request[r].id = row.id)
       \/ /\ proc[h].token # row.token /\ proc[h].token \in revoked
          /\ proc' = [proc EXCEPT ![h].at = "told"]
          /\ UNCHANGED raced
    /\ UNCHANGED <<database, screen, request, installer, config, collided, removed, misled,
                   stops>>

\* The session is stored and the row marked as seen, wherever it is by now.
\* A session of the same machine on another host is closed.
Register(h) ==
    /\ proc[h].at = "authed"
    /\ proc' = [g \in Hosts |->
                   IF g = h THEN [proc[h] EXCEPT !.at = "up"]
                   ELSE IF proc[g].at = "up" /\ proc[g].id = proc[h].id
                        THEN [proc[g] EXCEPT !.at = "dial", !.id = None] ELSE proc[g]]
    /\ row' = IF proc[h].id = row.id THEN [row EXCEPT !.seen = TRUE] ELSE row
    /\ UNCHANGED <<issued, codes, revoked, screen, request, installer, config, history, stops>>

Drop(h) ==
    /\ proc[h].at \in {"authed", "up"}
    /\ proc' = [proc EXCEPT ![h].at = "dial", ![h].id = None]
    /\ UNCHANGED <<database, screen, request, installer, config, history, stops>>

\* performSelfUninstall removes whatever config is there, and the process ends.
SelfUninstall(h) ==
    /\ proc[h].at = "told"
    /\ config' = [config EXCEPT ![h] = None]
    /\ proc' = [proc EXCEPT ![h] = NoProc]
    /\ collided' = (collided \/ (installer[h].at = "written" /\ config[h] # None))
    /\ UNCHANGED <<database, screen, request, installer, raced, removed, misled, stops>>

-----------------------------------------------------------------------------
(* What an administrator may do on a host at any time; the panel, which may  *)
(* be out of reach or gone, is told nothing.                                *)

ForgetConfig(h) ==
    /\ config' = [config EXCEPT ![h] = None]
    /\ removed' = removed \cup (({config[h]} \cap {row.token}) \ {None})

\* `portly-client uninstall`: the service is stopped, then performSelfUninstall.
UninstallByHand(h) ==
    /\ config[h] # None \/ proc[h] # NoProc
    /\ ForgetConfig(h)
    /\ proc' = [proc EXCEPT ![h] = NoProc]
    /\ UNCHANGED <<database, screen, request, installer, raced, collided, misled, stops>>

\* The host is enrolled as another machine: SaveClientConfig writes that one's
\* token over this one's, and the restart that follows ends this one's process.
EnrollElsewhere(h) ==
    /\ installer[h].at = "idle" /\ config[h] # None
    /\ ForgetConfig(h)
    /\ installer' = [installer EXCEPT ![h].at = "written"]
    /\ UNCHANGED <<database, screen, request, proc, raced, collided, misled, stops>>

-----------------------------------------------------------------------------
Next ==
    \/ \E r \in Requests : CreateClient(r) \/ ReissueReads(r) \/ RotateToken(r) \/ IssueCode(r)
    \/ ClientAdd \/ DeleteClient \/ Restart
    \/ \E c \in Tokens : Expire(c)
    \/ \E h \in Hosts :
          \/ \E t \in Tokens : RunInstaller(h, t) \/ InitConfig(h, t)
          \/ Exchange(h) \/ ExchangeAnswers(h) \/ WriteConfig(h) \/ StartService(h)
          \/ Authenticate(h) \/ Register(h) \/ Drop(h) \/ SelfUninstall(h)
          \/ UninstallByHand(h) \/ EnrollElsewhere(h)

Spec == Init /\ [][Next]_vars

-----------------------------------------------------------------------------
(* Properties.                                                              *)

\* clients.go:97-100: an install command is re-issued only for a machine that
\* never connected, since "rotating the token of one that's already running
\* would silently break it".  So a machine that is being served holds the token
\* of its row, unless it authenticated between the check and the rotation.
RunningTokenKept ==
    \A h \in Hosts :
        proc[h].at = "up" /\ row # NoRow /\ proc[h].id = row.id /\ ~raced
            => proc[h].token = row.token

\* schema.sql:70: a code is single-use: of several hosts that run one install
\* command, at the same time or one after the other, one is enrolled.
OneHostPerCode ==
    \A g, h \in Hosts : g # h /\ config[g] = config[h] => config[g] \in {None} \cup printed

\* A machine once seen can be re-issued no command (clients.go:108), so some
\* host must hold its token.  Four things break this: the race above, a deleted
\* machine's uninstall that removes the config just written, a code made before
\* a rotation, which is still exchanged for the dead token, and a config removed
\* or overwritten by hand: whoever runs `portly-client uninstall` on a machine,
\* or enrolls its host as another one, has to delete it before it can be added
\* again.
SeenStaysReachable ==
    row.seen /\ ~raced /\ ~collided /\ ~misled /\ row.token \notin removed =>
        \E h \in Hosts : config[h] = row.token
=============================================================================
