--------------------------- MODULE AdminAuthProofs ---------------------------
(***************************************************************************)
(* Proofs about AdminAuth, for any number of claims, logins, resets and    *)
(* restarts.                                                               *)
(***************************************************************************)
EXTENDS AdminAuth, TLAPS

USE DEF NoCode

\* Every variable of the account model keeps its type; in particular a login
\* never compares credentials without an account.
THEOREM TypeCorrect == Spec => []TypeOK
<1> USE AdminAssumption DEF TypeOK
<1>1. Init => TypeOK
  <2>1. /\ [at |-> "idle", code |-> NoCode] \in ClaimState
        /\ [at |-> "idle", admin |-> {}] \in LoginState
        /\ [at |-> "idle", code |-> NoCode] \in ResetState
    BY DEF ClaimState, LoginState, ResetState
  <2> SUFFICES ASSUME Init PROVE TypeOK
    OBVIOUS
  <2>2. \A l \in Logins : login[l].at # "compare"
    BY DEF Init
  <2>3. claim \in [Claimers -> ClaimState]
    BY <2>1 DEF Init
  <2>4. login \in [Logins -> LoginState]
    BY <2>1 DEF Init
  <2>5. reset \in [Resetters -> ResetState]
    BY <2>1 DEF Init
  <2> QED
    BY <2>2, <2>3, <2>4, <2>5 DEF Init
<1>2. TypeOK /\ [Next]_vars => TypeOK'
  <2> SUFFICES ASSUME TypeOK, [Next]_vars PROVE TypeOK'
    OBVIOUS
  <2> USE DEF database, history
  <2>1. ASSUME NEW c \in Claimers, Claim(c) PROVE TypeOK'
    <3>0. ASSUME NEW at \in InFlight \cup {"idle", "remove", "session", "done"}, Goto(c, at)
          PROVE  claim' \in [Claimers -> ClaimState]
      BY <3>0 DEF Goto, ClaimState
    <3> USE <3>0 DEF InFlight
    <3>1. CASE ClaimStarts(c)
      BY <3>1 DEF ClaimStarts, ClaimState
    <3>2. CASE ClaimCompares(c)
      BY <3>2 DEF ClaimCompares
    <3>3. CASE ClaimConsumes(c)
      BY <3>3 DEF ClaimConsumes
    <3>4. CASE ClaimCreates(c)
      BY <3>4 DEF ClaimCreates
    <3>5. CASE ClaimRemovesFile(c)
      BY <3>5 DEF ClaimRemovesFile
    <3>6. CASE ClaimOpensSession(c)
      BY <3>6 DEF ClaimOpensSession, Account
    <3> QED
      BY <2>1, <3>1, <3>2, <3>3, <3>4, <3>5, <3>6 DEF Claim
  <2>2. ASSUME NEW l \in Logins, LoginReads(l) PROVE TypeOK'
    <3>1. PICK a \in admins : login' = [login EXCEPT ![l] = [at |-> "compare", admin |-> {a}]]
      BY <2>2 DEF LoginReads
    <3>2. [at |-> "compare", admin |-> {a}] \in LoginState /\ {a} # {}
      BY DEF LoginState
    <3> QED
      BY <2>2, <3>1, <3>2 DEF LoginReads
  <2>3. ASSUME NEW l \in Logins, LoginCompares(l) PROVE TypeOK'
    BY <2>3 DEF LoginCompares, LoginState, Account
  <2>4. ASSUME NEW s \in sessions, SessionEnds(s) PROVE TypeOK'
    BY <2>4 DEF SessionEnds
  <2>5. ASSUME NEW k \in Keys, CreateAPIKey(k) \/ DeleteAPIKey(k) PROVE TypeOK'
    BY <2>5 DEF CreateAPIKey, DeleteAPIKey
  <2>6. ASSUME NEW r \in Resetters, Reset(r) PROVE TypeOK'
    <3> USE DEF ResetState
    <3>1. CASE ResetAuthorised(r)
      BY <3>1 DEF ResetAuthorised
    <3>2. CASE ResetWipes(r)
      BY <3>2 DEF ResetWipes
    <3>3. CASE ResetClears(r)
      BY <3>3 DEF ResetClears
    <3>4. CASE ResetAsksAdmin(r)
      BY <3>4 DEF ResetAsksAdmin
    <3>5. CASE ResetGetsCode(r)
      BY <3>5 DEF ResetGetsCode
    <3>6. CASE ResetSetsCode(r)
      BY <3>6 DEF ResetSetsCode
    <3>7. CASE ResetWritesFile(r)
      BY <3>7 DEF ResetWritesFile
    <3> QED
      BY <2>6, <3>1, <3>2, <3>3, <3>4, <3>5, <3>6, <3>7 DEF Reset
  <2>7. CASE Restart
    <3>1. issued' \in Nat /\ code' \in Nat
      BY <2>7 DEF Restart
    <3>2. file' \in Nat
      BY <2>7, <3>1 DEF Restart
    <3>3. claim' \in [Claimers -> ClaimState]
      BY <2>7 DEF Restart, Stop, ClaimState
    <3>4. login' \in [Logins -> LoginState]
      BY <2>7 DEF Restart, Stop, LoginState
    <3>6. \A l \in Logins : login'[l].at = "compare" => login'[l].admin # {}
      BY <2>7 DEF Restart, Stop
    <3>5. reset' \in [Resetters -> ResetState]
      BY <2>7 DEF Restart, Stop, ResetState
    <3>7. /\ admins' = admins /\ keys' = keys /\ raced' = raced /\ stale' = stale
          /\ restarts' = restarts + 1 /\ refused' = FALSE /\ sessions' = {}
      BY <2>7 DEF Restart, Stop
    <3>8. restarts' \in Nat /\ sessions' \subseteq Account
      BY <3>7
    <3>9. raced' \in BOOLEAN /\ refused' \in BOOLEAN
      BY <3>7
    <3>10. /\ admins' \subseteq Claimers /\ keys' \subseteq Keys
           /\ stale' \subseteq Claimers \cup Logins
      BY <3>7
    <3> QED
      BY <3>1, <3>2, <3>3, <3>4, <3>5, <3>6, <3>8, <3>9, <3>10
  <2>8. CASE UNCHANGED vars
    BY <2>8 DEF vars
  <2> QED
    BY <2>1, <2>2, <2>3, <2>4, <2>5, <2>6, <2>7, <2>8 DEF Next
<1> QED
  BY <1>1, <1>2, PTL DEF Spec

Working(c) == claim[c].at \in InFlight

\* The inductive invariant behind SerialClaimsOneAdmin: claims that never
\* overlapped are at most one at a time, and one that is past its check for an
\* account still finds none.
ClaimInv ==
    raced \/ /\ \A c, d \in Claimers : Working(c) /\ Working(d) => c = d
             /\ \A c \in Claimers : Working(c) => admins = {}
             /\ \A a, b \in admins : a = b

\* Non-overlapping bootstrap claims never leave two accounts, for any number of
\* claims, resets and restarts.
THEOREM SerialClaims == Spec => []SerialClaimsOneAdmin
<1>1. Init => ClaimInv
  BY DEF Init, ClaimInv, Working, InFlight
<1>2. TypeOK /\ ClaimInv /\ [Next]_vars => ClaimInv'
  <2> SUFFICES ASSUME TypeOK, ClaimInv, [Next]_vars PROVE ClaimInv'
    OBVIOUS
  <2> USE DEF ClaimInv, Working, InFlight, database, history
  <2>0. /\ claim \in [Claimers -> ClaimState] /\ admins \subseteq Claimers
        /\ raced \in BOOLEAN
    BY DEF TypeOK
  <2>1. ASSUME NEW c \in Claimers, ClaimStarts(c) PROVE ClaimInv'
    <3>1. \A d \in Claimers \ {c} : Working(d)' <=> Working(d)
      BY <2>0, <2>1 DEF ClaimStarts
    <3>2. admins' = admins /\ ~Working(c) /\ (raced => raced')
      BY <2>1 DEF ClaimStarts
    <3>3. Working(c)' => admins = {}
      BY <2>0, <2>1 DEF ClaimStarts
    <3>4. admins = {} => raced' \/ \A d \in Claimers : ~Working(d)
      BY <2>1, Zenon DEF ClaimStarts
    <3> HIDE DEF Working
    <3> QED
      BY <3>1, <3>2, <3>3, <3>4
  <2>2. ASSUME NEW c \in Claimers, ClaimCompares(c) \/ ClaimConsumes(c) PROVE ClaimInv'
    <3>1. \A d \in Claimers : Working(d)' => Working(d)
      BY <2>0, <2>2 DEF ClaimCompares, ClaimConsumes, Goto
    <3>2. admins' = admins /\ raced' = raced
      BY <2>2 DEF ClaimCompares, ClaimConsumes
    <3> HIDE DEF Working
    <3> QED
      BY <3>1, <3>2
  <2>3. ASSUME NEW c \in Claimers, ClaimCreates(c) PROVE ClaimInv'
    <3>1. /\ \A d \in Claimers \ {c} : Working(d)' <=> Working(d)
          /\ Working(c) /\ ~Working(c)'
      BY <2>0, <2>3 DEF ClaimCreates, Goto
    <3>2. admins' \in {admins, admins \cup {c}} /\ raced' = raced
      BY <2>3 DEF ClaimCreates
    <3> HIDE DEF Working
    <3> QED
      BY <3>1, <3>2
  <2>4. ASSUME NEW c \in Claimers, ClaimRemovesFile(c) \/ ClaimOpensSession(c) PROVE ClaimInv'
    <3>0. PICK at \in {"session", "done"} : Goto(c, at)
      BY <2>4 DEF ClaimRemovesFile, ClaimOpensSession
    <3>1. \A d \in Claimers : Working(d)' => Working(d)
      BY <2>0, <3>0 DEF Goto
    <3>2. admins' = admins /\ raced' = raced
      BY <2>4 DEF ClaimRemovesFile, ClaimOpensSession
    <3> HIDE DEF Working
    <3> QED
      BY <3>1, <3>2
  <2>5. ASSUME NEW r \in Resetters, Reset(r) PROVE ClaimInv'
    <3>1. claim' = claim /\ raced' = raced /\ admins' \in {admins, {}}
      BY <2>5 DEF Reset, ResetAuthorised, ResetWipes, ResetClears, ResetAsksAdmin,
                  ResetGetsCode, ResetSetsCode, ResetWritesFile
    <3>2. CASE admins' = admins
      BY <3>1, <3>2
    <3>3. CASE admins' = {}
      BY <3>1, <3>3
    <3> QED
      BY <3>1, <3>2, <3>3
  <2>6. CASE Restart
    BY <2>0, <2>6 DEF Restart, Stop
  <2>7. CASE UNCHANGED <<claim, admins, raced>>
    BY <2>7
  <2> QED
    BY <2>1, <2>2, <2>3, <2>4, <2>5, <2>6, <2>7
    DEF Next, vars, Claim, LoginReads, LoginCompares, SessionEnds, CreateAPIKey, DeleteAPIKey
<1>3. ClaimInv => SerialClaimsOneAdmin
  BY DEF ClaimInv, SerialClaimsOneAdmin
<1> QED
  BY <1>1, <1>2, <1>3, TypeCorrect, PTL DEF Spec

\* The inductive invariant behind SessionsHaveAccounts: a request about to open
\* a session holds an account that exists, or one wiped under its hands.
SessionInv ==
    /\ SessionsHaveAccounts
    /\ \A c \in Claimers : claim[c].at \in {"remove", "session"} => c \in admins \/ c \in stale
    /\ \A l \in Logins : login[l].at = "compare" => login[l].admin \subseteq admins \/ l \in stale

\* A session outlives the factory reset of its account only if its own request
\* was caught between reading or creating that account and answering.
THEOREM SessionsCleared == Spec => []SessionsHaveAccounts
<1>1. Init => SessionInv
  BY DEF Init, SessionInv, SessionsHaveAccounts
<1>2. TypeOK /\ SessionInv /\ [Next]_vars => SessionInv'
  <2> SUFFICES ASSUME TypeOK, SessionInv, [Next]_vars PROVE SessionInv'
    OBVIOUS
  <2> USE DEF SessionInv, SessionsHaveAccounts, Clearing, TypeOK, database, history
  <2>1. ASSUME NEW c \in Claimers, ClaimStarts(c) \/ ClaimCompares(c) \/ ClaimConsumes(c)
        PROVE  SessionInv'
    <3>1. claim'[c].at \notin {"remove", "session"}
      BY <2>1 DEF ClaimStarts, ClaimCompares, ClaimConsumes, Goto, ClaimState
    <3>2. \A d \in Claimers \ {c} : claim'[d] = claim[d]
      BY <2>1 DEF ClaimStarts, ClaimCompares, ClaimConsumes, Goto
    <3>3. UNCHANGED <<login, reset, admins, stale, sessions>>
      BY <2>1 DEF ClaimStarts, ClaimCompares, ClaimConsumes
    <3> QED
      BY <3>1, <3>2, <3>3
  <2>2. ASSUME NEW c \in Claimers, ClaimCreates(c) PROVE SessionInv'
    BY <2>2 DEF ClaimCreates, Goto
  <2>3. ASSUME NEW c \in Claimers, ClaimRemovesFile(c) PROVE SessionInv'
    BY <2>3 DEF ClaimRemovesFile, Goto
  <2>4. ASSUME NEW c \in Claimers, ClaimOpensSession(c) PROVE SessionInv'
    BY <2>4 DEF ClaimOpensSession, Goto
  <2>5. ASSUME NEW l \in Logins, LoginReads(l) PROVE SessionInv'
    BY <2>5 DEF LoginReads
  <2>6. ASSUME NEW l \in Logins, LoginCompares(l) PROVE SessionInv'
    BY <2>6 DEF LoginCompares
  <2>7. ASSUME NEW s \in sessions, SessionEnds(s) PROVE SessionInv'
    BY <2>7 DEF SessionEnds
  <2>8. ASSUME NEW r \in Resetters, ResetWipes(r) PROVE SessionInv'
    BY <2>8 DEF ResetWipes
  <2>9. ASSUME NEW r \in Resetters, ResetClears(r) PROVE SessionInv'
    BY <2>9 DEF ResetClears
  <2>10. ASSUME NEW r \in Resetters, Reset(r), ~ResetWipes(r), ~ResetClears(r)
         PROVE  SessionInv'
    BY <2>10 DEF Reset, ResetAuthorised, ResetAsksAdmin, ResetGetsCode, ResetSetsCode,
                 ResetWritesFile
  <2>11. CASE Restart
    BY <2>11 DEF Restart, Stop
  <2>12. CASE UNCHANGED <<claim, login, reset, admins, stale, sessions>>
    BY <2>12
  <2> QED
    BY <2>1, <2>2, <2>3, <2>4, <2>5, <2>6, <2>7, <2>8, <2>9, <2>10, <2>11, <2>12
    DEF Next, vars, Claim, CreateAPIKey, DeleteAPIKey
<1>3. SessionInv => SessionsHaveAccounts
  BY DEF SessionInv
<1> QED
  BY <1>1, <1>2, <1>3, TypeCorrect, PTL DEF Spec

-----------------------------------------------------------------------------
\* The inductive invariant behind StrandedOnlyByRefusal: a server with neither
\* an account nor a code has a claim about to create the one, or a reset about
\* to issue the other.
ClaimableInv ==
    \/ admins # {} \/ code # NoCode \/ refused
    \/ \E c \in Claimers : claim[c].at = "create"
    \/ \E r \in Resetters : reset[r].at \in {"clear", "ensure", "get", "set"}

\* However claims, factory resets and restarts interleave, a server at rest can
\* be claimed or logged into, unless a claim was refused after it had consumed
\* the code (db.go:273-308, auth.go:155-188).
THEOREM StrandedByRefusalOnly == Spec => []StrandedOnlyByRefusal
<1>1. Init => ClaimableInv
  BY DEF Init, ClaimableInv
<1>2. TypeOK /\ ClaimableInv /\ [Next]_vars => ClaimableInv'
  <2> SUFFICES ASSUME TypeOK, ClaimableInv, [Next]_vars PROVE ClaimableInv'
    OBVIOUS
  <2> USE DEF ClaimableInv, database, history
  <2>0. /\ claim \in [Claimers -> ClaimState] /\ reset \in [Resetters -> ResetState]
        /\ issued \in Nat /\ admins \subseteq Claimers
    BY DEF TypeOK
  <2>1. ASSUME NEW c \in Claimers, ClaimConsumes(c) PROVE ClaimableInv'
    <3>1. refused' \/ Goto(c, "create")
      BY <2>1 DEF ClaimConsumes
    <3>2. Goto(c, "create") => claim'[c].at = "create"
      BY <2>0 DEF Goto, ClaimState
    <3> QED
      BY <3>1, <3>2
  <2>2. ASSUME NEW c \in Claimers, ClaimCreates(c) PROVE ClaimableInv'
    \* with no account the user name cannot be taken
    <3>1. admins' # {}
      BY <2>2 DEF ClaimCreates
    <3> QED
      BY <3>1
  <2>3. ASSUME NEW c \in Claimers,
               \/ ClaimStarts(c) \/ ClaimCompares(c) \/ ClaimRemovesFile(c)
               \/ ClaimOpensSession(c)
        PROVE  ClaimableInv'
    <3>1. claim[c].at # "create" /\ \A d \in Claimers \ {c} : claim'[d] = claim[d]
      BY <2>0, <2>3 DEF ClaimStarts, ClaimCompares, ClaimRemovesFile, ClaimOpensSession, Goto
    <3>2. UNCHANGED <<admins, code, refused, reset>>
      BY <2>3 DEF ClaimStarts, ClaimCompares, ClaimRemovesFile, ClaimOpensSession
    <3> QED
      BY <3>1, <3>2
  <2>4. ASSUME NEW r \in Resetters, ResetWipes(r) \/ ResetClears(r) PROVE ClaimableInv'
    <3>1. reset'[r].at \in {"clear", "ensure"}
      BY <2>0, <2>4 DEF ResetWipes, ResetClears, ResetState
    <3> QED
      BY <3>1
  <2>5. ASSUME NEW r \in Resetters, ResetAsksAdmin(r) PROVE ClaimableInv'
    <3>1. admins' = admins /\ (admins = {} => reset'[r].at = "get")
      BY <2>0, <2>5 DEF ResetAsksAdmin, ResetState
    <3> QED
      BY <3>1
  <2>6. ASSUME NEW r \in Resetters, ResetGetsCode(r) PROVE ClaimableInv'
    <3>1. code' = code /\ (code = NoCode => reset'[r].at = "set")
      BY <2>0, <2>6 DEF ResetGetsCode
    <3> QED
      BY <3>1
  <2>7. ASSUME NEW r \in Resetters, ResetSetsCode(r) PROVE ClaimableInv'
    <3>1. code' # NoCode
      BY <2>0, <2>7 DEF ResetSetsCode
    <3> QED
      BY <3>1
  <2>8. ASSUME NEW r \in Resetters, ResetAuthorised(r) \/ ResetWritesFile(r)
        PROVE  ClaimableInv'
    <3>1. /\ reset[r].at \notin {"clear", "ensure", "get", "set"}
          /\ \A q \in Resetters \ {r} : reset'[q] = reset[q]
      BY <2>0, <2>8 DEF ResetAuthorised, ResetWritesFile
    <3>2. UNCHANGED <<admins, code, refused, claim>>
      BY <2>8 DEF ResetAuthorised, ResetWritesFile
    <3> QED
      BY <3>1, <3>2
  <2>9. CASE Restart
    <3>1. admins' # {} \/ code' # NoCode
      BY <2>0, <2>9 DEF Restart
    <3> QED
      BY <3>1
  <2>10. CASE UNCHANGED <<admins, code, refused, claim, reset>>
    BY <2>10
  <2> QED
    BY <2>1, <2>2, <2>3, <2>4, <2>5, <2>6, <2>7, <2>8, <2>9, <2>10
    DEF Next, vars, Claim, Reset, LoginReads, LoginCompares, SessionEnds, CreateAPIKey,
        DeleteAPIKey
<1>3. ClaimableInv => StrandedOnlyByRefusal
  BY DEF ClaimableInv, StrandedOnlyByRefusal, Quiet
<1> QED
  BY <1>1, <1>2, <1>3, TypeCorrect, PTL DEF Spec
=============================================================================
