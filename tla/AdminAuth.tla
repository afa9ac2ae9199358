------------------------------ MODULE AdminAuth ------------------------------
(***************************************************************************)
(* The administrator's account: the setup code and the bootstrap claim,    *)
(* login, the in-memory sessions and the factory reset (internal/api/      *)
(* auth.go, server.go, factory_reset.go; internal/db/db.go;                *)
(* cmd/portly-server/main.go).                                             *)
(*                                                                         *)
(* Every HTTP request is a process.  The database has one connection, so a *)
(* single query is a step and two queries of one handler are two steps.    *)
(* A setup code is its number in the order of issue, 0 is no code; an      *)
(* account is named after the claim that created it.                       *)
(***************************************************************************)
EXTENDS Naturals

CONSTANTS
    Claimers,     \* bootstrap claims
    Username,     \* the user name each claim asks for
    Logins,       \* login requests
    Resetters,    \* factory-reset requests
    Keys,         \* API keys that may be created
    MaxRestarts   \* bound: restarts of the server

ASSUME AdminAssumption ==
    /\ Claimers \cap Logins = {}
    /\ MaxRestarts \in Nat

NoCode == 0

VARIABLES
    admins,     \* DB: admin_users
    code,       \* DB: the setup_code setting
    keys,       \* DB: api_keys
    file,       \* the code in setup-code.txt
    issued,     \* setup codes generated so far
    claim,      \* each claim's position and the code it presents
    login,      \* each login's position and the account it read
    reset,      \* each reset's position and the code it has to write
    sessions,   \* Server.sessions: the account and the request that opened each
    restarts,   \* counter of the bound
    raced,      \* history: two claims overlapped
    refused,    \* history: since the start, a claim was refused after it consumed a code
    stale       \* history: requests that held an account when a reset wiped it

database == <<admins, code, keys>>
history == <<raced, refused, stale>>
vars == <<database, file, issued, claim, login, reset, sessions, restarts, history>>

InFlight == {"code", "delete", "create"}      \* past HasAdminUser, no account yet
Account == [admin : Claimers, req : Claimers \cup Logins]

ClaimState == [at : InFlight \cup {"idle", "remove", "session", "done"}, code : Nat]
LoginState == [at : {"idle", "compare", "done"}, admin : SUBSET Claimers]
ResetState == [at : {"idle", "wipe", "clear", "ensure", "get", "set", "write", "done"}, code : Nat]

TypeOK ==
    /\ admins \subseteq Claimers /\ keys \subseteq Keys
    /\ issued \in Nat /\ code \in Nat /\ file \in Nat
    /\ claim \in [Claimers -> ClaimState]
    /\ login \in [Logins -> LoginState]
    /\ \A l \in Logins : login[l].at = "compare" => login[l].admin # {}
    /\ reset \in [Resetters -> ResetState]
    /\ sessions \subseteq Account
    /\ restarts \in Nat
    /\ raced \in BOOLEAN /\ refused \in BOOLEAN
    /\ stale \subseteq Claimers \cup Logins

\* A fresh install that has started once: writeSetupCode issued the first code.
Init ==
    /\ admins = {} /\ keys = {}
    /\ issued = 1 /\ code = 1 /\ file = 1
    /\ claim = [c \in Claimers |-> [at |-> "idle", code |-> NoCode]]
    /\ login = [l \in Logins |-> [at |-> "idle", admin |-> {}]]
    /\ reset = [r \in Resetters |-> [at |-> "idle", code |-> NoCode]]
    /\ sessions = {}
    /\ restarts = 0
    /\ raced = FALSE /\ refused = FALSE
    /\ stale = {}

-----------------------------------------------------------------------------
(* handleBootstrapClaim.                                                    *)

Goto(c, at) == claim' = [claim EXCEPT ![c].at = at]

\* mutant: the claim does not ask whether an account exists
ClaimStartsUnchecked(c) ==
    /\ claim[c].at = "idle"
    /\ \E k \in 1..issued : claim' = [claim EXCEPT ![c] = [at |-> "code", code |-> k]]
    /\ raced' = (raced \/ \E d \in Claimers : claim[d].at \in InFlight)
    /\ UNCHANGED <<database, file, issued, login, reset, sessions, restarts, refused,
                   stale>>

\* HasAdminUser, with a code that was issued at some time.
ClaimStarts(c) ==
    /\ claim[c].at = "idle"
    /\ \E k \in 1..issued :
           claim' = [claim EXCEPT ![c] = [at |-> IF admins = {} THEN "code" ELSE "done",
                                          code |-> k]]
    /\ raced' = (raced \/ (admins = {} /\ \E d \in Claimers : claim[d].at \in InFlight))
    /\ UNCHANGED <<database, file, issued, login, reset, sessions, restarts, refused,
                   stale>>

\* ClaimSetupCode compares the stored code ...
ClaimCompares(c) ==
    /\ claim[c].at = "code"
    /\ Goto(c, IF claim[c].code = code THEN "delete" ELSE "done")
    /\ UNCHANGED <<database, file, issued, login, reset, sessions, restarts, history>>

\* ... and deletes the setting, whatever it holds by now.  A user name or a
\* password that is too short is refused after that.
ClaimConsumes(c) ==
    /\ claim[c].at = "delete"
    /\ code' = NoCode
    /\ \/ Goto(c, "create") /\ UNCHANGED refused
       \/ Goto(c, "done") /\ refused' = TRUE
    /\ UNCHANGED <<admins, keys, file, issued, login, reset, sessions, restarts, raced, stale>>

\* CreateAdminUser: user names are UNIQUE, accounts are not limited to one.
ClaimCreates(c) ==
    LET taken == \E a \in admins : Username[a] = Username[c] IN
    /\ claim[c].at = "create"
    /\ admins' = IF taken THEN admins ELSE admins \cup {c}
    /\ Goto(c, IF taken THEN "done" ELSE "remove")
    /\ UNCHANGED <<code, keys, file, issued, login, reset, sessions, restarts, history>>

\* OnAdminClaimed removes setup-code.txt.
ClaimRemovesFile(c) ==
    /\ claim[c].at = "remove"
    /\ file' = NoCode
    /\ Goto(c, "session")
    /\ UNCHANGED <<database, issued, login, reset, sessions, restarts, history>>

ClaimOpensSession(c) ==
    /\ claim[c].at = "session"
    /\ sessions' = sessions \cup {[admin |-> c, req |-> c]}
    /\ Goto(c, "done")
    /\ UNCHANGED <<database, file, issued, login, reset, restarts, history>>

Claim(c) == \/ ClaimStarts(c) \/ ClaimCompares(c) \/ ClaimConsumes(c) \/ ClaimCreates(c)
            \/ ClaimRemovesFile(c) \/ ClaimOpensSession(c)

-----------------------------------------------------------------------------
(* handleLogin and handleLogout.                                            *)

\* mutant: GetAdminUser's error is ignored
LoginReadsUnchecked(l) ==
    /\ login[l].at = "idle"
    /\ \E A \in SUBSET admins : login' = [login EXCEPT ![l] = [at |-> "compare", admin |-> A]]
    /\ UNCHANGED <<database, file, issued, claim, reset, sessions, restarts, history>>

\* GetAdminUser reads one of the accounts; no account is an error.
LoginReads(l) ==
    /\ login[l].at = "idle"
    /\ \E a \in admins : login' = [login EXCEPT ![l] = [at |-> "compare", admin |-> {a}]]
    /\ UNCHANGED <<database, file, issued, claim, reset, sessions, restarts, history>>

\* The credentials are compared with what was read: a session, or a refusal.
LoginCompares(l) ==
    /\ login[l].at = "compare"
    /\ \/ sessions' = sessions \cup {[admin |-> a, req |-> l] : a \in login[l].admin}
       \/ sessions' = sessions
    /\ login' = [login EXCEPT ![l] = [at |-> "done", admin |-> {}]]
    /\ UNCHANGED <<database, file, issued, claim, reset, restarts, history>>

\* A logout, or the session's expiry found by sessionAdminID.
SessionEnds(s) ==
    /\ sessions' = sessions \ {s}
    /\ UNCHANGED <<database, file, issued, claim, login, reset, restarts, history>>

\* Behind requireAuth: any session will do, whose account it is is not asked.
CreateAPIKey(k) ==
    /\ sessions # {} /\ k \notin keys
    /\ keys' = keys \cup {k}
    /\ UNCHANGED <<admins, code, file, issued, claim, login, reset, sessions, restarts, history>>

DeleteAPIKey(k) ==
    /\ sessions # {} /\ k \in keys
    /\ keys' = keys \ {k}
    /\ UNCHANGED <<admins, code, file, issued, claim, login, reset, sessions, restarts, history>>

-----------------------------------------------------------------------------
(* handleFactoryReset; PushUninstall to the machines is in ControlPlane.    *)

ResetAuthorised(r) ==
    /\ reset[r].at = "idle" /\ sessions # {}
    /\ reset' = [reset EXCEPT ![r].at = "wipe"]
    /\ UNCHANGED <<database, file, issued, claim, login, sessions, restarts, history>>

\* One transaction: accounts and settings go, api_keys stay.
ResetWipes(r) ==
    /\ reset[r].at = "wipe"
    /\ admins' = {}
    /\ code' = NoCode
    /\ reset' = [reset EXCEPT ![r].at = "clear"]
    /\ stale' = stale \cup {c \in Claimers : claim[c].at \in {"remove", "session"}}
                      \cup {l \in Logins : login[l].at = "compare"}
    /\ UNCHANGED <<keys, file, issued, claim, login, sessions, restarts, raced, refused>>

\* mutant: the sessions are left alone
ResetKeepsSessions(r) ==
    /\ reset[r].at = "clear"
    /\ reset' = [reset EXCEPT ![r].at = "ensure"]
    /\ UNCHANGED <<database, file, issued, claim, login, sessions, restarts, history>>

\* clearAllSessions.
ResetClears(r) ==
    /\ reset[r].at = "clear"
    /\ sessions' = {}
    /\ reset' = [reset EXCEPT ![r].at = "ensure"]
    /\ UNCHANGED <<database, file, issued, claim, login, restarts, history>>

\* EnsureSetupCode: HasAdminUser, then GetSetting, then SetSetting.
ResetAsksAdmin(r) ==
    /\ reset[r].at = "ensure"
    /\ reset' = [reset EXCEPT ![r].at = IF admins = {} THEN "get" ELSE "done"]
    /\ UNCHANGED <<database, file, issued, claim, login, sessions, restarts, history>>

ResetGetsCode(r) ==
    /\ reset[r].at = "get"
    /\ reset' = [reset EXCEPT ![r] =
                    [at |-> IF code = NoCode THEN "set" ELSE "write", code |-> code]]
    /\ UNCHANGED <<database, file, issued, claim, login, sessions, restarts, history>>

ResetSetsCode(r) ==
    /\ reset[r].at = "set"
    /\ issued' = issued + 1
    /\ code' = issued + 1
    /\ reset' = [reset EXCEPT ![r] = [at |-> "write", code |-> issued + 1]]
    /\ UNCHANGED <<admins, keys, file, claim, login, sessions, restarts, history>>

\* writeSetupCode's file.
ResetWritesFile(r) ==
    /\ reset[r].at = "write"
    /\ file' = reset[r].code
    /\ reset' = [reset EXCEPT ![r].at = "done"]
    /\ UNCHANGED <<database, issued, claim, login, sessions, restarts, history>>

Reset(r) == \/ ResetAuthorised(r) \/ ResetWipes(r) \/ ResetClears(r) \/ ResetAsksAdmin(r)
            \/ ResetGetsCode(r) \/ ResetSetsCode(r) \/ ResetWritesFile(r)

-----------------------------------------------------------------------------
Stop ==
    /\ claim' = [c \in Claimers |-> IF claim[c].at = "idle" THEN claim[c]
                                    ELSE [claim[c] EXCEPT !.at = "done"]]
    /\ login' = [l \in Logins |-> IF login[l].at = "idle" THEN login[l]
                                  ELSE [at |-> "done", admin |-> {}]]
    /\ reset' = [r \in Resetters |-> IF reset[r].at = "idle" THEN reset[r]
                                     ELSE [reset[r] EXCEPT !.at = "done"]]
    /\ sessions' = {}

\* mutant: no code is issued while setup-code.txt exists
RestartTrustsFile ==
    LET fresh == admins = {} /\ code = NoCode /\ file = NoCode IN
    /\ restarts < MaxRestarts
    /\ restarts' = restarts + 1
    /\ issued' = IF fresh THEN issued + 1 ELSE issued
    /\ code' = IF fresh THEN issued + 1 ELSE code
    /\ file' = IF fresh THEN code' ELSE file
    /\ refused' = FALSE
    /\ Stop
    /\ UNCHANGED <<admins, keys, raced, stale>>

\* The process ends, requests in progress and sessions with it, and starts
\* again: writeSetupCode runs before the API serves, so nothing interleaves.
Restart ==
    LET fresh == admins = {} /\ code = NoCode IN
    /\ restarts < MaxRestarts
    /\ restarts' = restarts + 1
    /\ issued' = IF fresh THEN issued + 1 ELSE issued
    /\ code' = IF fresh THEN issued + 1 ELSE code
    /\ file' = IF admins = {} THEN code' ELSE file
    /\ refused' = FALSE
    /\ Stop
    /\ UNCHANGED <<admins, keys, raced, stale>>

Next ==
    \/ \E c \in Claimers : Claim(c)
    \/ \E l \in Logins : LoginReads(l) \/ LoginCompares(l)
    \/ \E s \in sessions : SessionEnds(s)
    \/ \E k \in Keys : CreateAPIKey(k) \/ DeleteAPIKey(k)
    \/ \E r \in Resetters : Reset(r)
    \/ Restart

Spec == Init /\ [][Next]_vars

-----------------------------------------------------------------------------
(* Properties.                                                              *)

\* Claims that do not overlap never make a second account, whatever codes
\* resets and restarts issue meanwhile (auth.go:155-188).
SerialClaimsOneAdmin == raced \/ \A a, b \in admins : a = b

Clearing == \E r \in Resetters : reset[r].at = "clear"

\* Apart from the instant before clearAllSessions, a session whose account a
\* reset wiped belongs to a request that had read or created that account
\* before the wipe and answered after it (factory_reset.go:35-43).
SessionsHaveAccounts ==
    \A s \in sessions : s.admin \in admins \/ s.req \in stale \/ Clearing

Quiet ==
    /\ \A c \in Claimers : claim[c].at \in {"idle", "done"}
    /\ \A r \in Resetters : reset[r].at \in {"idle", "done"}

\* However claims, resets and restarts interleave, with nothing in progress
\* there is an account or a code to claim one with, unless a claim was refused
\* for its user name or password since the server started (db.go:273-308).
StrandedOnlyByRefusal == Quiet => admins # {} \/ code # NoCode \/ refused
=============================================================================
