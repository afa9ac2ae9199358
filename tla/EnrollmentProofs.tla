-------------------------- MODULE EnrollmentProofs --------------------------
(***************************************************************************)
(* Proofs about module Enrollment, for any hosts, any number of concurrent *)
(* requests, tokens and restarts, and about the updates of the machines so *)
(* enrolled (module Updates), for any releases, runs and failures.         *)
(***************************************************************************)
EXTENDS Enrollment, Updates, TLAPS

Pending(h) == installer[h].at \in {"consumed", "answered"}

\* A token, code or id in use was generated.
RowGen ==
    /\ row.id <= issued /\ row.token <= issued
    /\ row.id # None => row.token # None
CodeGen == \A t \in codes \cup shown \cup printed : t <= issued
RequestGen ==
    \A r \in Requests : /\ request[r].id <= issued /\ request[r].token <= issued
                        /\ request[r].at = "issue" => request[r].token # None
HostGen ==
    \A h \in Hosts : /\ config[h] <= issued /\ installer[h].code <= issued
                     /\ proc[h].id <= issued
                     /\ proc[h].at \in {"authed", "up"} => proc[h].id # None
Generated == RowGen /\ CodeGen /\ RequestGen /\ HostGen

\* Between the check of a re-issue and its rotation the machine is not seen and
\* no connection of it is authenticated, or the history says so.
RaceInv ==
    raced \/
    /\ \A r \in Requests : request[r].at = "checked" /\ request[r].id = row.id => ~row.seen
    /\ \A h \in Hosts : proc[h].at \in {"authed", "up"} /\ row # NoRow /\ proc[h].id = row.id =>
          /\ proc[h].token = row.token
          /\ proc[h].at = "up" => row.seen
          /\ \A r \in Requests : ~(request[r].at = "checked" /\ request[r].id = row.id)

\* Where a token is before it is in a config: with the request that makes its
\* code, in the code, with the installation that consumed the code, or printed.
\* It is in one of these places only.
RequestInv ==
    \A r \in Requests : request[r].at = "issue" =>
        /\ request[r].token \notin shown \cup printed
        /\ \A q \in Requests \ {r} : request[q].at = "issue" => request[q].token # request[r].token
ShownInv ==
    /\ codes \subseteq shown /\ shown \cap printed = {}
    /\ \A h \in Hosts : /\ installer[h].at = "asked" \/ Pending(h) => installer[h].code \in shown
                        /\ config[h] \in {None} \cup shown \cup printed
HolderInv ==
    /\ \A h \in Hosts : Pending(h) => installer[h].code \notin codes
    /\ \A h \in Hosts : config[h] \notin codes
    /\ \A g, h \in Hosts : Pending(h) => config[g] # installer[h].code
    /\ \A g, h \in Hosts : Pending(g) /\ Pending(h) /\ g # h
                            => installer[g].code # installer[h].code
Placed == RequestInv /\ ShownInv /\ HolderInv /\ OneHostPerCode

IInv == TypeOK /\ Generated /\ RaceInv /\ Placed

\* What the proofs use of tokens.
LEMMA TokenFacts ==
    /\ \A t \in Tokens : t \in Nat /\ t # None
    /\ None \notin Tokens /\ None \in Nat /\ None = 0
    /\ \A n \in {None} \cup Tokens : n \in Nat /\ (n < MaxTokens => n + 1 \in Tokens /\ n + 1 > n)
BY EnrollmentAssumption DEF Tokens, None

USE TokenFacts DEF NoRow, NoRequest, NoInstall, NoProc, database, screen, host, history

\* What a registration does to the processes.
LEMMA RegisterProc ==
    ASSUME TypeOK, NEW h \in Hosts, Register(h)
    PROVE  \A g \in Hosts : \/ proc'[g] = proc[g]
                            \/ proc'[g].at = "dial" /\ proc'[g].id = None
                            \/ /\ g = h /\ proc[g].at = "authed" /\ proc'[g].at = "up"
                               /\ proc'[g].id = proc[g].id /\ proc'[g].token = proc[g].token
<1> SUFFICES ASSUME NEW g \in Hosts
             PROVE  \/ proc'[g] = proc[g]
                    \/ proc'[g].at = "dial" /\ proc'[g].id = None
                    \/ /\ g = h /\ proc[g].at = "authed" /\ proc'[g].at = "up"
                       /\ proc'[g].id = proc[g].id /\ proc'[g].token = proc[g].token
  OBVIOUS
<1>1. proc[g] \in [at : {"off", "dial", "authed", "up", "told"},
                   token : {None} \cup Tokens, id : {None} \cup Tokens]
  BY DEF TypeOK
<1>2. CASE g = h
  <2>1. proc[g].at = "authed" /\ proc'[g] = [proc[g] EXCEPT !.at = "up"]
    BY <1>2 DEF Register
  <2> QED
    BY <1>1, <1>2, <2>1
<1>3. CASE g # h
  <2>1. proc'[g] = proc[g] \/ proc'[g] = [proc[g] EXCEPT !.at = "dial", !.id = None]
    BY <1>3 DEF Register
  <2> QED
    BY <1>1, <2>1
<1> QED
  BY <1>2, <1>3

\* Every step keeps the types.
LEMMA TypeStep == TypeOK /\ Generated /\ [Next]_vars => TypeOK'
<1> SUFFICES ASSUME TypeOK /\ Generated, [Next]_vars PROVE TypeOK'
  OBVIOUS
<1> USE DEF TypeOK, Generated, RowGen, CodeGen, RequestGen, HostGen
<1>1. ASSUME NEW r \in Requests, CreateClient(r) PROVE TypeOK'
  BY <1>1 DEF CreateClient, InsertClient
<1>2. CASE ClientAdd
  BY <1>2 DEF ClientAdd, InsertClient
<1>3. ASSUME NEW r \in Requests, ReissueReads(r) PROVE TypeOK'
  BY <1>3 DEF ReissueReads
<1>4. ASSUME NEW r \in Requests, RotateToken(r) PROVE TypeOK'
  <2>1. CASE row # NoRow /\ row.id = request[r].id /\ issued < MaxTokens /\ issued' = issued + 1
             /\ row' = [row EXCEPT !.token = issued + 1]
             /\ request' = [request EXCEPT ![r].at = "issue", ![r].token = issued + 1]
    BY <1>4, <2>1 DEF RotateToken
  <2>2. CASE row.id # request[r].id /\ request' = [request EXCEPT ![r] = NoRequest]
             /\ UNCHANGED <<row, issued>>
    BY <1>4, <2>2 DEF RotateToken
  <2> QED
    BY <1>4, <2>1, <2>2 DEF RotateToken
<1>5. ASSUME NEW r \in Requests, IssueCode(r) PROVE TypeOK'
  BY <1>5 DEF IssueCode
<1>6. CASE DeleteClient
  BY <1>6 DEF DeleteClient
<1>7. ASSUME NEW c \in Tokens, Expire(c) PROVE TypeOK'
  BY <1>7 DEF Expire
<1>8. CASE Restart
  <2>1. /\ proc' \in [Hosts -> [at : {"off", "dial", "authed", "up", "told"},
                               token : {None} \cup Tokens, id : {None} \cup Tokens]]
        /\ \A g \in Hosts : proc'[g].at = "off" <=> proc'[g].token = None
    <3> DEFINE P == [at : {"off", "dial", "authed", "up", "told"},
                          token : {None} \cup Tokens, id : {None} \cup Tokens]
    <3>1. \A g \in Hosts : proc[g] \in P /\ (proc[g].at = "off" <=> proc[g].token = None)
      OBVIOUS
    <3> HIDE DEF TypeOK, Generated, RowGen, CodeGen, RequestGen, HostGen
    <3>2. \A g \in Hosts : proc[g].at # "off" => 
              LET d == [proc[g] EXCEPT !.at = "dial", !.id = None]
                  u == [proc[g] EXCEPT !.at = "up"]
              IN  /\ d \in P /\ d.at # "off" /\ d.token # None
                  /\ u \in P /\ u.at # "off" /\ u.token # None
      BY <3>1
    <3>3. \A g \in Hosts : \/ proc'[g] = proc[g]
                           \/ /\ proc[g].at # "off"
                              /\ \/ proc'[g] = [proc[g] EXCEPT !.at = "dial", !.id = None]
                                 \/ proc'[g] = [proc[g] EXCEPT !.at = "up"]
      BY <1>8 DEF Restart
    <3>4. \A g \in Hosts : proc'[g] \in P /\ (proc'[g].at = "off" <=> proc'[g].token = None)
      <4> HIDE DEF P
      <4> QED
        BY <3>1, <3>2, <3>3
    <3>5. \A g \in Hosts : proc'[g] \in P
      BY <3>4
    <3>6. proc' = [g \in Hosts |-> proc'[g]]
      BY <1>8 DEF Restart
    <3>7. proc' \in [Hosts -> P]
      <4> HIDE DEF P
      <4> QED
        BY <3>5, <3>6
    <3> QED
      BY <3>4, <3>7
  <2>2. request' \in [Requests -> [at : {"idle", "checked", "issue"}, id : {None} \cup Tokens,
                                     token : {None} \cup Tokens]]
    BY <1>8 DEF Restart
  <2>3. installer' \in [Hosts -> [at : {"idle", "asked", "consumed", "answered", "written"},
                                 code : {None} \cup Tokens, id : {None} \cup Tokens]]
    BY <1>8 DEF Restart
  <2>4. UNCHANGED <<row, issued, codes, revoked, shown, printed, config, raced, collided,
                  removed, misled>>
    BY <1>8, Zenon DEF Restart
  <2>5. stops \in Nat /\ stops' = stops + 1
    BY <1>8 DEF Restart
  <2> HIDE DEF Generated
  <2> QED
    BY <2>1, <2>2, <2>3, <2>4, <2>5
<1>9. ASSUME NEW h \in Hosts, NEW t \in Tokens, RunInstaller(h, t) PROVE TypeOK'
  BY <1>9 DEF RunInstaller
<1>10. ASSUME NEW h \in Hosts, NEW t \in Tokens, InitConfig(h, t) PROVE TypeOK'
  BY <1>10 DEF InitConfig
<1>11. ASSUME NEW h \in Hosts, Exchange(h) PROVE TypeOK'
  <2>1. CASE installer' = [installer EXCEPT ![h] = NoInstall] /\ codes' = codes
    BY <1>11, <2>1 DEF Exchange
  <2>2. CASE /\ installer' = [installer EXCEPT ![h].at = "consumed", ![h].id = row.id]
             /\ codes' = codes \ {installer[h].code}
    BY <1>11, <2>2 DEF Exchange
  <2> QED
    BY <1>11, <2>1, <2>2 DEF Exchange
<1>12. ASSUME NEW h \in Hosts, ExchangeAnswers(h) PROVE TypeOK'
  <2>1. misled' \in BOOLEAN
    BY <1>12, Zenon DEF ExchangeAnswers
  <2>2. installer' \in [Hosts -> [at : {"idle", "asked", "consumed", "answered", "written"},
                                 code : {None} \cup Tokens, id : {None} \cup Tokens]]
    BY <1>12 DEF ExchangeAnswers
  <2> QED
    BY <1>12, <2>1, <2>2 DEF ExchangeAnswers
<1>13. ASSUME NEW h \in Hosts, WriteConfig(h) PROVE TypeOK'
  BY <1>13 DEF WriteConfig
<1>14. ASSUME NEW h \in Hosts, StartService(h) PROVE TypeOK'
  BY <1>14 DEF StartService
<1>15. ASSUME NEW h \in Hosts, Authenticate(h) PROVE TypeOK'
  <2>1. raced' \in BOOLEAN
    BY <1>15, Zenon DEF Authenticate
  <2>2. CASE row.id # None /\ proc' = [proc EXCEPT ![h].at = "authed", ![h].id = row.id]
    BY <1>15, <2>1, <2>2 DEF Authenticate
  <2>3. CASE proc' = [proc EXCEPT ![h].at = "told"]
    BY <1>15, <2>1, <2>3 DEF Authenticate
  <2> QED
    BY <1>15, <2>2, <2>3 DEF Authenticate
<1>16. ASSUME NEW h \in Hosts, Register(h) PROVE TypeOK'
  <2>1. /\ proc' \in [Hosts -> [at : {"off", "dial", "authed", "up", "told"},
                               token : {None} \cup Tokens, id : {None} \cup Tokens]]
        /\ \A g \in Hosts : proc'[g].at = "off" <=> proc'[g].token = None
    <3> DEFINE P == [at : {"off", "dial", "authed", "up", "told"},
                          token : {None} \cup Tokens, id : {None} \cup Tokens]
    <3>1. \A g \in Hosts : proc[g] \in P /\ (proc[g].at = "off" <=> proc[g].token = None)
      OBVIOUS
    <3> HIDE DEF TypeOK, Generated, RowGen, CodeGen, RequestGen, HostGen
    <3>2. \A g \in Hosts : proc[g].at # "off" => 
              LET d == [proc[g] EXCEPT !.at = "dial", !.id = None]
                  u == [proc[g] EXCEPT !.at = "up"]
              IN  /\ d \in P /\ d.at # "off" /\ d.token # None
                  /\ u \in P /\ u.at # "off" /\ u.token # None
      BY <3>1
    <3>3. \A g \in Hosts : \/ proc'[g] = proc[g]
                           \/ /\ proc[g].at # "off"
                              /\ \/ proc'[g] = [proc[g] EXCEPT !.at = "dial", !.id = None]
                                 \/ proc'[g] = [proc[g] EXCEPT !.at = "up"]
      BY <1>16 DEF Register
    <3>4. \A g \in Hosts : proc'[g] \in P /\ (proc'[g].at = "off" <=> proc'[g].token = None)
      <4> HIDE DEF P
      <4> QED
        BY <3>1, <3>2, <3>3
    <3>5. \A g \in Hosts : proc'[g] \in P
      BY <3>4
    <3>6. proc' = [g \in Hosts |-> proc'[g]]
      BY <1>16 DEF Register
    <3>7. proc' \in [Hosts -> P]
      <4> HIDE DEF P
      <4> QED
        BY <3>5, <3>6
    <3> QED
      BY <3>4, <3>7
  <2>2. /\ row' \in [id : {None} \cup Tokens, token : {None} \cup Tokens, seen : BOOLEAN]
        /\ row'.id = None <=> row' = NoRow
    BY <1>16 DEF Register
  <2> QED
    BY <1>16, <2>1, <2>2 DEF Register
<1>17. ASSUME NEW h \in Hosts, Drop(h) PROVE TypeOK'
  BY <1>17 DEF Drop
<1>18. ASSUME NEW h \in Hosts, SelfUninstall(h) PROVE TypeOK'
  BY <1>18 DEF SelfUninstall
<1>19. ASSUME NEW h \in Hosts, UninstallByHand(h) \/ EnrollElsewhere(h) PROVE TypeOK'
  <2>1. CASE UninstallByHand(h)
    BY <2>1 DEF UninstallByHand, ForgetConfig
  <2>2. CASE EnrollElsewhere(h)
    BY <2>2 DEF EnrollElsewhere, ForgetConfig
  <2> QED
    BY <1>19, <2>1, <2>2
<1>20. CASE UNCHANGED vars
  BY <1>20 DEF vars
<1> QED
  BY <1>1, <1>2, <1>3, <1>4, <1>5, <1>6, <1>7, <1>8, <1>9, <1>10,
     <1>11, <1>12, <1>13, <1>14, <1>15, <1>16, <1>17, <1>18, <1>19, <1>20 DEF Next

\* The row's tokens stay among those generated.
LEMMA RowGenStep == TypeOK /\ Generated /\ [Next]_vars => RowGen'
<1> SUFFICES ASSUME TypeOK /\ Generated, [Next]_vars PROVE RowGen'
  OBVIOUS
<1> USE DEF TypeOK, Generated, RowGen, CodeGen, RequestGen, HostGen
<1>1. ASSUME NEW r \in Requests, CreateClient(r) PROVE RowGen'
  BY <1>1 DEF CreateClient, InsertClient
<1>2. CASE ClientAdd
  BY <1>2 DEF ClientAdd, InsertClient
<1>3. ASSUME NEW r \in Requests, ReissueReads(r) PROVE RowGen'
  BY <1>3 DEF ReissueReads
<1>4. ASSUME NEW r \in Requests, RotateToken(r) PROVE RowGen'
  BY <1>4 DEF RotateToken
<1>5. ASSUME NEW r \in Requests, IssueCode(r) PROVE RowGen'
  BY <1>5 DEF IssueCode
<1>6. CASE DeleteClient
  BY <1>6 DEF DeleteClient
<1>7. ASSUME NEW c \in Tokens, Expire(c) PROVE RowGen'
  BY <1>7 DEF Expire
<1>8. CASE Restart
  BY <1>8 DEF Restart
<1>9. ASSUME NEW h \in Hosts, NEW t \in Tokens, RunInstaller(h, t) PROVE RowGen'
  BY <1>9 DEF RunInstaller
<1>10. ASSUME NEW h \in Hosts, NEW t \in Tokens, InitConfig(h, t) PROVE RowGen'
  BY <1>10 DEF InitConfig
<1>11. ASSUME NEW h \in Hosts, Exchange(h) PROVE RowGen'
  BY <1>11 DEF Exchange
<1>12. ASSUME NEW h \in Hosts, ExchangeAnswers(h) PROVE RowGen'
  BY <1>12 DEF ExchangeAnswers
<1>13. ASSUME NEW h \in Hosts, WriteConfig(h) PROVE RowGen'
  BY <1>13 DEF WriteConfig
<1>14. ASSUME NEW h \in Hosts, StartService(h) PROVE RowGen'
  BY <1>14 DEF StartService
<1>15. ASSUME NEW h \in Hosts, Authenticate(h) PROVE RowGen'
  BY <1>15 DEF Authenticate
<1>16. ASSUME NEW h \in Hosts, Register(h) PROVE RowGen'
  BY <1>16 DEF Register
<1>17. ASSUME NEW h \in Hosts, Drop(h) PROVE RowGen'
  BY <1>17 DEF Drop
<1>18. ASSUME NEW h \in Hosts, SelfUninstall(h) PROVE RowGen'
  BY <1>18 DEF SelfUninstall
<1>19. ASSUME NEW h \in Hosts, UninstallByHand(h) \/ EnrollElsewhere(h) PROVE RowGen'
  BY <1>19 DEF UninstallByHand, EnrollElsewhere, ForgetConfig
<1>20. CASE UNCHANGED vars
  BY <1>20 DEF vars
<1> QED
  BY <1>1, <1>2, <1>3, <1>4, <1>5, <1>6, <1>7, <1>8, <1>9, <1>10,
     <1>11, <1>12, <1>13, <1>14, <1>15, <1>16, <1>17, <1>18, <1>19, <1>20 DEF Next

\* So do the codes and what was shown or printed,
LEMMA CodeGenStep == TypeOK /\ Generated /\ [Next]_vars => CodeGen'
<1> SUFFICES ASSUME TypeOK /\ Generated, [Next]_vars PROVE CodeGen'
  OBVIOUS
<1> USE DEF TypeOK, Generated, RowGen, CodeGen, RequestGen, HostGen
<1>1. ASSUME NEW r \in Requests, CreateClient(r) PROVE CodeGen'
  BY <1>1 DEF CreateClient, InsertClient
<1>2. CASE ClientAdd
  BY <1>2 DEF ClientAdd, InsertClient
<1>3. ASSUME NEW r \in Requests, ReissueReads(r) PROVE CodeGen'
  BY <1>3 DEF ReissueReads
<1>4. ASSUME NEW r \in Requests, RotateToken(r) PROVE CodeGen'
  BY <1>4 DEF RotateToken
<1>5. ASSUME NEW r \in Requests, IssueCode(r) PROVE CodeGen'
  BY <1>5 DEF IssueCode
<1>6. CASE DeleteClient
  BY <1>6 DEF DeleteClient
<1>7. ASSUME NEW c \in Tokens, Expire(c) PROVE CodeGen'
  BY <1>7 DEF Expire
<1>8. CASE Restart
  BY <1>8 DEF Restart
<1>9. ASSUME NEW h \in Hosts, NEW t \in Tokens, RunInstaller(h, t) PROVE CodeGen'
  BY <1>9 DEF RunInstaller
<1>10. ASSUME NEW h \in Hosts, NEW t \in Tokens, InitConfig(h, t) PROVE CodeGen'
  BY <1>10 DEF InitConfig
<1>11. ASSUME NEW h \in Hosts, Exchange(h) PROVE CodeGen'
  BY <1>11 DEF Exchange
<1>12. ASSUME NEW h \in Hosts, ExchangeAnswers(h) PROVE CodeGen'
  BY <1>12 DEF ExchangeAnswers
<1>13. ASSUME NEW h \in Hosts, WriteConfig(h) PROVE CodeGen'
  BY <1>13 DEF WriteConfig
<1>14. ASSUME NEW h \in Hosts, StartService(h) PROVE CodeGen'
  BY <1>14 DEF StartService
<1>15. ASSUME NEW h \in Hosts, Authenticate(h) PROVE CodeGen'
  BY <1>15 DEF Authenticate
<1>16. ASSUME NEW h \in Hosts, Register(h) PROVE CodeGen'
  BY <1>16 DEF Register
<1>17. ASSUME NEW h \in Hosts, Drop(h) PROVE CodeGen'
  BY <1>17 DEF Drop
<1>18. ASSUME NEW h \in Hosts, SelfUninstall(h) PROVE CodeGen'
  BY <1>18 DEF SelfUninstall
<1>19. ASSUME NEW h \in Hosts, UninstallByHand(h) \/ EnrollElsewhere(h) PROVE CodeGen'
  BY <1>19 DEF UninstallByHand, EnrollElsewhere, ForgetConfig
<1>20. CASE UNCHANGED vars
  BY <1>20 DEF vars
<1> QED
  BY <1>1, <1>2, <1>3, <1>4, <1>5, <1>6, <1>7, <1>8, <1>9, <1>10,
     <1>11, <1>12, <1>13, <1>14, <1>15, <1>16, <1>17, <1>18, <1>19, <1>20 DEF Next

\* the requests' tokens,
LEMMA RequestGenStep == TypeOK /\ Generated /\ [Next]_vars => RequestGen'
<1> SUFFICES ASSUME TypeOK /\ Generated, [Next]_vars PROVE RequestGen'
  OBVIOUS
<1> USE DEF TypeOK, Generated, RowGen, CodeGen, RequestGen, HostGen
<1>1. ASSUME NEW r \in Requests, CreateClient(r) PROVE RequestGen'
  BY <1>1 DEF CreateClient, InsertClient
<1>2. CASE ClientAdd
  BY <1>2 DEF ClientAdd, InsertClient
<1>3. ASSUME NEW r \in Requests, ReissueReads(r) PROVE RequestGen'
  BY <1>3 DEF ReissueReads
<1>4. ASSUME NEW r \in Requests, RotateToken(r) PROVE RequestGen'
  BY <1>4 DEF RotateToken
<1>5. ASSUME NEW r \in Requests, IssueCode(r) PROVE RequestGen'
  BY <1>5 DEF IssueCode
<1>6. CASE DeleteClient
  BY <1>6 DEF DeleteClient
<1>7. ASSUME NEW c \in Tokens, Expire(c) PROVE RequestGen'
  BY <1>7 DEF Expire
<1>8. CASE Restart
  <2>1. issued' = issued /\ \A r \in Requests : request'[r] = NoRequest
    BY <1>8 DEF Restart
  <2>2. issued \in Nat
    OBVIOUS
  <2> QED
    BY <2>1, <2>2 DEF RequestGen
<1>9. ASSUME NEW h \in Hosts, NEW t \in Tokens, RunInstaller(h, t) PROVE RequestGen'
  BY <1>9 DEF RunInstaller
<1>10. ASSUME NEW h \in Hosts, NEW t \in Tokens, InitConfig(h, t) PROVE RequestGen'
  BY <1>10 DEF InitConfig
<1>11. ASSUME NEW h \in Hosts, Exchange(h) PROVE RequestGen'
  BY <1>11 DEF Exchange
<1>12. ASSUME NEW h \in Hosts, ExchangeAnswers(h) PROVE RequestGen'
  BY <1>12 DEF ExchangeAnswers
<1>13. ASSUME NEW h \in Hosts, WriteConfig(h) PROVE RequestGen'
  BY <1>13 DEF WriteConfig
<1>14. ASSUME NEW h \in Hosts, StartService(h) PROVE RequestGen'
  BY <1>14 DEF StartService
<1>15. ASSUME NEW h \in Hosts, Authenticate(h) PROVE RequestGen'
  BY <1>15 DEF Authenticate
<1>16. ASSUME NEW h \in Hosts, Register(h) PROVE RequestGen'
  BY <1>16 DEF Register
<1>17. ASSUME NEW h \in Hosts, Drop(h) PROVE RequestGen'
  BY <1>17 DEF Drop
<1>18. ASSUME NEW h \in Hosts, SelfUninstall(h) PROVE RequestGen'
  BY <1>18 DEF SelfUninstall
<1>19. ASSUME NEW h \in Hosts, UninstallByHand(h) \/ EnrollElsewhere(h) PROVE RequestGen'
  BY <1>19 DEF UninstallByHand, EnrollElsewhere, ForgetConfig
<1>20. CASE UNCHANGED vars
  BY <1>20 DEF vars
<1> QED
  BY <1>1, <1>2, <1>3, <1>4, <1>5, <1>6, <1>7, <1>8, <1>9, <1>10,
     <1>11, <1>12, <1>13, <1>14, <1>15, <1>16, <1>17, <1>18, <1>19, <1>20 DEF Next

\* and the hosts'.
LEMMA HostGenStep == TypeOK /\ Generated /\ [Next]_vars => HostGen'
<1> SUFFICES ASSUME TypeOK /\ Generated, [Next]_vars PROVE HostGen'
  OBVIOUS
<1> USE DEF TypeOK, Generated, RowGen, CodeGen, RequestGen, HostGen
<1>1. ASSUME NEW r \in Requests, CreateClient(r) PROVE HostGen'
  BY <1>1 DEF CreateClient, InsertClient
<1>2. CASE ClientAdd
  BY <1>2 DEF ClientAdd, InsertClient
<1>3. ASSUME NEW r \in Requests, ReissueReads(r) PROVE HostGen'
  BY <1>3 DEF ReissueReads
<1>4. ASSUME NEW r \in Requests, RotateToken(r) PROVE HostGen'
  BY <1>4 DEF RotateToken
<1>5. ASSUME NEW r \in Requests, IssueCode(r) PROVE HostGen'
  BY <1>5 DEF IssueCode
<1>6. CASE DeleteClient
  BY <1>6 DEF DeleteClient
<1>7. ASSUME NEW c \in Tokens, Expire(c) PROVE HostGen'
  BY <1>7 DEF Expire
<1>8. CASE Restart
  <2>1. /\ issued' = issued /\ config' = config /\ issued \in Nat
        /\ \A h \in Hosts : installer'[h] = installer[h] \/ installer'[h] = NoInstall
    BY <1>8 DEF Restart
  <2>2. \A h \in Hosts : \/ proc'[h] = proc[h]
                         \/ proc'[h].at = "dial" /\ proc'[h].id = None
    <3>1. \A g \in Hosts : LET d == [proc[g] EXCEPT !.at = "dial", !.id = None]
                             u == [proc[g] EXCEPT !.at = "up"]
                         IN  /\ d.at = "dial" /\ d.id = None
                             /\ u.at = "up" /\ u.id = proc[g].id /\ u.token = proc[g].token
      OBVIOUS
    <3> HIDE DEF TypeOK, Generated, RowGen, CodeGen, RequestGen, HostGen
    <3>2. \A g \in Hosts : \/ proc'[g] = proc[g]
                           \/ proc'[g] = [proc[g] EXCEPT !.at = "dial", !.id = None]
      BY <1>8 DEF Restart
    <3> QED
      BY <3>1, <3>2
  <2>3. HostGen
    OBVIOUS
  <2> HIDE DEF TypeOK, Generated
  <2> QED
    BY <2>1, <2>2, <2>3
<1>9. ASSUME NEW h \in Hosts, NEW t \in Tokens, RunInstaller(h, t) PROVE HostGen'
  BY <1>9 DEF RunInstaller
<1>10. ASSUME NEW h \in Hosts, NEW t \in Tokens, InitConfig(h, t) PROVE HostGen'
  BY <1>10 DEF InitConfig
<1>11. ASSUME NEW h \in Hosts, Exchange(h) PROVE HostGen'
  <2>1. CASE installer' = [installer EXCEPT ![h] = NoInstall] /\ codes' = codes
    BY <1>11, <2>1 DEF Exchange
  <2>2. CASE /\ installer' = [installer EXCEPT ![h].at = "consumed", ![h].id = row.id]
             /\ codes' = codes \ {installer[h].code}
    BY <1>11, <2>2 DEF Exchange
  <2> QED
    BY <1>11, <2>1, <2>2 DEF Exchange
<1>12. ASSUME NEW h \in Hosts, ExchangeAnswers(h) PROVE HostGen'
  BY <1>12 DEF ExchangeAnswers
<1>13. ASSUME NEW h \in Hosts, WriteConfig(h) PROVE HostGen'
  BY <1>13 DEF WriteConfig
<1>14. ASSUME NEW h \in Hosts, StartService(h) PROVE HostGen'
  BY <1>14 DEF StartService
<1>15. ASSUME NEW h \in Hosts, Authenticate(h) PROVE HostGen'
  <2>1. CASE row # NoRow /\ proc' = [proc EXCEPT ![h].at = "authed", ![h].id = row.id]
    BY <1>15, <2>1 DEF Authenticate
  <2>2. CASE proc' = [proc EXCEPT ![h].at = "told"]
    BY <1>15, <2>2 DEF Authenticate
  <2> QED
    BY <1>15, <2>1, <2>2 DEF Authenticate
<1>16. ASSUME NEW h \in Hosts, Register(h) PROVE HostGen'
  <2>1. issued' = issued /\ config' = config /\ installer' = installer /\ issued \in Nat
    BY <1>16 DEF Register
  <2>2. \A g \in Hosts : \/ proc'[g] = proc[g]
                         \/ proc'[g].at = "dial" /\ proc'[g].id = None
                         \/ proc[g].at = "authed" /\ proc'[g].id = proc[g].id
    BY <1>16, RegisterProc DEF Register
  <2>3. HostGen
    OBVIOUS
  <2> HIDE DEF TypeOK, Generated
  <2> QED
    BY <2>1, <2>2, <2>3
<1>17. ASSUME NEW h \in Hosts, Drop(h) PROVE HostGen'
  BY <1>17 DEF Drop
<1>18. ASSUME NEW h \in Hosts, SelfUninstall(h) PROVE HostGen'
  BY <1>18 DEF SelfUninstall
<1>19. ASSUME NEW h \in Hosts, UninstallByHand(h) \/ EnrollElsewhere(h) PROVE HostGen'
  BY <1>19 DEF UninstallByHand, EnrollElsewhere, ForgetConfig
<1>20. CASE UNCHANGED vars
  BY <1>20 DEF vars
<1> QED
  BY <1>1, <1>2, <1>3, <1>4, <1>5, <1>6, <1>7, <1>8, <1>9, <1>10,
     <1>11, <1>12, <1>13, <1>14, <1>15, <1>16, <1>17, <1>18, <1>19, <1>20 DEF Next

\* The check of last_seen protects what it says, outside the race.
LEMMA RaceStep == TypeOK /\ Generated /\ RaceInv /\ [Next]_vars => RaceInv'
<1> SUFFICES ASSUME TypeOK /\ Generated /\ RaceInv, [Next]_vars PROVE RaceInv'
  OBVIOUS
<1> USE DEF TypeOK, Generated, RowGen, CodeGen, RequestGen, HostGen, RaceInv
<1>1. ASSUME NEW r \in Requests, CreateClient(r) PROVE RaceInv'
  BY <1>1 DEF CreateClient, InsertClient
<1>2. CASE ClientAdd
  BY <1>2 DEF ClientAdd, InsertClient
<1>3. ASSUME NEW r \in Requests, ReissueReads(r) PROVE RaceInv'
  BY <1>3 DEF ReissueReads
<1>4. ASSUME NEW r \in Requests, RotateToken(r) PROVE RaceInv'
  <2>1. CASE row # NoRow /\ row.id = request[r].id /\ issued < MaxTokens /\ issued' = issued + 1
             /\ row' = [row EXCEPT !.token = issued + 1]
             /\ request' = [request EXCEPT ![r].at = "issue", ![r].token = issued + 1]
    BY <1>4, <2>1 DEF RotateToken
  <2>2. CASE row.id # request[r].id /\ request' = [request EXCEPT ![r] = NoRequest]
             /\ UNCHANGED <<row, issued>>
    BY <1>4, <2>2 DEF RotateToken
  <2> QED
    BY <1>4, <2>1, <2>2 DEF RotateToken
<1>5. ASSUME NEW r \in Requests, IssueCode(r) PROVE RaceInv'
  BY <1>5 DEF IssueCode
<1>6. CASE DeleteClient
  BY <1>6 DEF DeleteClient
<1>7. ASSUME NEW c \in Tokens, Expire(c) PROVE RaceInv'
  BY <1>7 DEF Expire
<1>8. CASE Restart
  <2>1. row' = row /\ (raced' <=> raced) /\ \A r \in Requests : request'[r].at = "idle"
    BY <1>8 DEF Restart
  <2>2. \A h \in Hosts : proc'[h].at \notin {"authed", "up"}
    <3>1. \A h \in Hosts : [proc[h] EXCEPT !.at = "dial", !.id = None].at = "dial"
      OBVIOUS
    <3> HIDE DEF TypeOK, Generated, RaceInv
    <3>2. \A h \in Hosts : \/ proc'[h] = proc[h] /\ proc[h].at \notin {"authed", "up"}
                           \/ proc'[h] = [proc[h] EXCEPT !.at = "dial", !.id = None]
      BY <1>8 DEF Restart
    <3> QED
      BY <3>1, <3>2
  <2> HIDE DEF TypeOK, Generated
  <2> QED
    BY <2>1, <2>2
<1>9. ASSUME NEW h \in Hosts, NEW t \in Tokens, RunInstaller(h, t) PROVE RaceInv'
  BY <1>9 DEF RunInstaller
<1>10. ASSUME NEW h \in Hosts, NEW t \in Tokens, InitConfig(h, t) PROVE RaceInv'
  BY <1>10 DEF InitConfig
<1>11. ASSUME NEW h \in Hosts, Exchange(h) PROVE RaceInv'
  BY <1>11 DEF Exchange
<1>12. ASSUME NEW h \in Hosts, ExchangeAnswers(h) PROVE RaceInv'
  BY <1>12 DEF ExchangeAnswers
<1>13. ASSUME NEW h \in Hosts, WriteConfig(h) PROVE RaceInv'
  BY <1>13 DEF WriteConfig
<1>14. ASSUME NEW h \in Hosts, StartService(h) PROVE RaceInv'
  BY <1>14 DEF StartService
<1>15. ASSUME NEW h \in Hosts, Authenticate(h) PROVE RaceInv'
  <2>1. CASE raced'
    BY <2>1
  <2>2. CASE ~raced' /\ row # NoRow /\ proc[h].token = row.token
             /\ proc' = [proc EXCEPT ![h].at = "authed", ![h].id = row.id]
    <3>1. ~raced /\ \A r \in Requests : ~(request[r].at = "checked" /\ request[r].id = row.id)
      BY <1>15, <2>2 DEF Authenticate
    <3>2. \A g \in Hosts : g # h => proc'[g] = proc[g]
      BY <2>2
    <3>3. proc'[h].token = row.token /\ proc'[h].at = "authed"
      BY <2>2
    <3>4. row' = row /\ request' = request
      BY <1>15 DEF Authenticate
    <3> QED
      BY <3>1, <3>2, <3>3, <3>4
  <2>3. CASE ~raced' /\ proc' = [proc EXCEPT ![h].at = "told"] /\ UNCHANGED raced
    BY <1>15, <2>3 DEF Authenticate
  <2> QED
    BY <1>15, <2>1, <2>2, <2>3 DEF Authenticate
<1>16. ASSUME NEW h \in Hosts, Register(h) PROVE RaceInv'
  <2>1. CASE raced
    BY <1>16, <2>1 DEF Register
  <2>2. CASE ~raced
    <3>1. request' = request /\ row'.id = row.id /\ row'.token = row.token
          /\ (row'.seen <=> row.seen \/ proc[h].id = row.id)
      BY <1>16 DEF Register
    <3>2. \A g \in Hosts : proc'[g].at \in {"authed", "up"} =>
              proc'[g].id = proc[g].id /\ proc'[g].token = proc[g].token
              /\ proc[g].at \in {"authed", "up"}
              /\ (proc'[g].at = "up" => proc[g].at = "up" \/ g = h)
      BY <1>16, RegisterProc
    <3>3. proc[h].at = "authed"
      BY <1>16 DEF Register
    <3>4. row' # NoRow <=> row # NoRow
      BY <1>16 DEF Register
    <3>5. row.id = proc[h].id => row # NoRow
      BY <3>3
    <3> QED
      BY <2>2, <3>1, <3>2, <3>3, <3>4, <3>5
  <2> QED
    BY <2>1, <2>2
<1>17. ASSUME NEW h \in Hosts, Drop(h) PROVE RaceInv'
  BY <1>17 DEF Drop
<1>18. ASSUME NEW h \in Hosts, SelfUninstall(h) PROVE RaceInv'
  BY <1>18 DEF SelfUninstall
<1>19. ASSUME NEW h \in Hosts, UninstallByHand(h) \/ EnrollElsewhere(h) PROVE RaceInv'
  BY <1>19 DEF UninstallByHand, EnrollElsewhere, ForgetConfig
<1>20. CASE UNCHANGED vars
  BY <1>20 DEF vars
<1> QED
  BY <1>1, <1>2, <1>3, <1>4, <1>5, <1>6, <1>7, <1>8, <1>9, <1>10,
     <1>11, <1>12, <1>13, <1>14, <1>15, <1>16, <1>17, <1>18, <1>19, <1>20 DEF Next

\* A request's token is its own until its code is shown.
LEMMA RequestStep == TypeOK /\ Generated /\ Placed /\ [Next]_vars => RequestInv'
<1> SUFFICES ASSUME TypeOK /\ Generated /\ Placed, [Next]_vars PROVE RequestInv'
  OBVIOUS
<1> USE DEF TypeOK, Generated, RowGen, CodeGen, RequestGen, HostGen, Placed, RequestInv, ShownInv,
       HolderInv, Pending
<1>1. ASSUME NEW r \in Requests, CreateClient(r) PROVE RequestInv'
  BY <1>1 DEF CreateClient, InsertClient
<1>2. CASE ClientAdd
  BY <1>2 DEF ClientAdd, InsertClient
<1>3. ASSUME NEW r \in Requests, ReissueReads(r) PROVE RequestInv'
  BY <1>3 DEF ReissueReads
<1>4. ASSUME NEW r \in Requests, RotateToken(r) PROVE RequestInv'
  <2>1. CASE row # NoRow /\ row.id = request[r].id /\ issued < MaxTokens /\ issued' = issued + 1
             /\ row' = [row EXCEPT !.token = issued + 1]
             /\ request' = [request EXCEPT ![r].at = "issue", ![r].token = issued + 1]
    BY <1>4, <2>1 DEF RotateToken
  <2>2. CASE row.id # request[r].id /\ request' = [request EXCEPT ![r] = NoRequest]
             /\ UNCHANGED <<row, issued>>
    BY <1>4, <2>2 DEF RotateToken
  <2> QED
    BY <1>4, <2>1, <2>2 DEF RotateToken
<1>5. ASSUME NEW r \in Requests, IssueCode(r) PROVE RequestInv'
  BY <1>5 DEF IssueCode
<1>6. CASE DeleteClient
  BY <1>6 DEF DeleteClient
<1>7. ASSUME NEW c \in Tokens, Expire(c) PROVE RequestInv'
  BY <1>7 DEF Expire
<1>8. CASE Restart
  BY <1>8 DEF Restart
<1>9. ASSUME NEW h \in Hosts, NEW t \in Tokens, RunInstaller(h, t) PROVE RequestInv'
  BY <1>9 DEF RunInstaller
<1>10. ASSUME NEW h \in Hosts, NEW t \in Tokens, InitConfig(h, t) PROVE RequestInv'
  BY <1>10 DEF InitConfig
<1>11. ASSUME NEW h \in Hosts, Exchange(h) PROVE RequestInv'
  BY <1>11 DEF Exchange
<1>12. ASSUME NEW h \in Hosts, ExchangeAnswers(h) PROVE RequestInv'
  BY <1>12 DEF ExchangeAnswers
<1>13. ASSUME NEW h \in Hosts, WriteConfig(h) PROVE RequestInv'
  BY <1>13 DEF WriteConfig
<1>14. ASSUME NEW h \in Hosts, StartService(h) PROVE RequestInv'
  BY <1>14 DEF StartService
<1>15. ASSUME NEW h \in Hosts, Authenticate(h) PROVE RequestInv'
  BY <1>15 DEF Authenticate
<1>16. ASSUME NEW h \in Hosts, Register(h) PROVE RequestInv'
  BY <1>16 DEF Register
<1>17. ASSUME NEW h \in Hosts, Drop(h) PROVE RequestInv'
  BY <1>17 DEF Drop
<1>18. ASSUME NEW h \in Hosts, SelfUninstall(h) PROVE RequestInv'
  BY <1>18 DEF SelfUninstall
<1>19. ASSUME NEW h \in Hosts, UninstallByHand(h) \/ EnrollElsewhere(h) PROVE RequestInv'
  BY <1>19 DEF UninstallByHand, EnrollElsewhere, ForgetConfig
<1>20. CASE UNCHANGED vars
  BY <1>20 DEF vars
<1> QED
  BY <1>1, <1>2, <1>3, <1>4, <1>5, <1>6, <1>7, <1>8, <1>9, <1>10,
     <1>11, <1>12, <1>13, <1>14, <1>15, <1>16, <1>17, <1>18, <1>19, <1>20 DEF Next

\* What a host has of a code or a token was shown or printed.
LEMMA ShownStep == TypeOK /\ Generated /\ Placed /\ [Next]_vars => ShownInv'
<1> SUFFICES ASSUME TypeOK /\ Generated /\ Placed, [Next]_vars PROVE ShownInv'
  OBVIOUS
<1> USE DEF TypeOK, Generated, RowGen, CodeGen, RequestGen, HostGen, Placed, RequestInv, ShownInv,
       HolderInv, Pending
<1>1. ASSUME NEW r \in Requests, CreateClient(r) PROVE ShownInv'
  BY <1>1 DEF CreateClient, InsertClient
<1>2. CASE ClientAdd
  BY <1>2 DEF ClientAdd, InsertClient
<1>3. ASSUME NEW r \in Requests, ReissueReads(r) PROVE ShownInv'
  BY <1>3 DEF ReissueReads
<1>4. ASSUME NEW r \in Requests, RotateToken(r) PROVE ShownInv'
  BY <1>4 DEF RotateToken
<1>5. ASSUME NEW r \in Requests, IssueCode(r) PROVE ShownInv'
  BY <1>5 DEF IssueCode
<1>6. CASE DeleteClient
  BY <1>6 DEF DeleteClient
<1>7. ASSUME NEW c \in Tokens, Expire(c) PROVE ShownInv'
  BY <1>7 DEF Expire
<1>8. CASE Restart
  BY <1>8 DEF Restart
<1>9. ASSUME NEW h \in Hosts, NEW t \in Tokens, RunInstaller(h, t) PROVE ShownInv'
  BY <1>9 DEF RunInstaller
<1>10. ASSUME NEW h \in Hosts, NEW t \in Tokens, InitConfig(h, t) PROVE ShownInv'
  BY <1>10 DEF InitConfig
<1>11. ASSUME NEW h \in Hosts, Exchange(h) PROVE ShownInv'
  <2>1. CASE /\ installer[h].code \in codes
             /\ codes' = codes \ {installer[h].code}
             /\ installer' = [installer EXCEPT ![h].at = "consumed", ![h].id = row.id]
    BY <1>11, <2>1 DEF Exchange
  <2>2. CASE installer' = [installer EXCEPT ![h] = NoInstall] /\ UNCHANGED codes
    BY <1>11, <2>2 DEF Exchange
  <2> QED
    BY <1>11, <2>1, <2>2 DEF Exchange
<1>12. ASSUME NEW h \in Hosts, ExchangeAnswers(h) PROVE ShownInv'
  BY <1>12 DEF ExchangeAnswers
<1>13. ASSUME NEW h \in Hosts, WriteConfig(h) PROVE ShownInv'
  BY <1>13 DEF WriteConfig
<1>14. ASSUME NEW h \in Hosts, StartService(h) PROVE ShownInv'
  BY <1>14 DEF StartService
<1>15. ASSUME NEW h \in Hosts, Authenticate(h) PROVE ShownInv'
  BY <1>15 DEF Authenticate
<1>16. ASSUME NEW h \in Hosts, Register(h) PROVE ShownInv'
  BY <1>16 DEF Register
<1>17. ASSUME NEW h \in Hosts, Drop(h) PROVE ShownInv'
  BY <1>17 DEF Drop
<1>18. ASSUME NEW h \in Hosts, SelfUninstall(h) PROVE ShownInv'
  BY <1>18 DEF SelfUninstall
<1>19. ASSUME NEW h \in Hosts, UninstallByHand(h) \/ EnrollElsewhere(h) PROVE ShownInv'
  BY <1>19 DEF UninstallByHand, EnrollElsewhere, ForgetConfig
<1>20. CASE UNCHANGED vars
  BY <1>20 DEF vars
<1> QED
  BY <1>1, <1>2, <1>3, <1>4, <1>5, <1>6, <1>7, <1>8, <1>9, <1>10,
     <1>11, <1>12, <1>13, <1>14, <1>15, <1>16, <1>17, <1>18, <1>19, <1>20 DEF Next

\* A token is in its code, with one installation or in a config.
LEMMA HolderStep == TypeOK /\ Generated /\ Placed /\ [Next]_vars => HolderInv'
<1> SUFFICES ASSUME TypeOK /\ Generated /\ Placed, [Next]_vars PROVE HolderInv'
  OBVIOUS
<1> USE DEF TypeOK, Generated, RowGen, CodeGen, RequestGen, HostGen, Placed, RequestInv, ShownInv,
       HolderInv, Pending
<1>1. ASSUME NEW r \in Requests, CreateClient(r) PROVE HolderInv'
  BY <1>1 DEF CreateClient, InsertClient
<1>2. CASE ClientAdd
  BY <1>2 DEF ClientAdd, InsertClient
<1>3. ASSUME NEW r \in Requests, ReissueReads(r) PROVE HolderInv'
  BY <1>3 DEF ReissueReads
<1>4. ASSUME NEW r \in Requests, RotateToken(r) PROVE HolderInv'
  BY <1>4 DEF RotateToken
<1>5. ASSUME NEW r \in Requests, IssueCode(r) PROVE HolderInv'
  BY <1>5 DEF IssueCode
<1>6. CASE DeleteClient
  BY <1>6 DEF DeleteClient
<1>7. ASSUME NEW c \in Tokens, Expire(c) PROVE HolderInv'
  BY <1>7 DEF Expire
<1>8. CASE Restart
  <2>1. /\ codes' = codes /\ config' = config
        /\ \A h \in Hosts : installer'[h] = installer[h] \/ installer'[h] = NoInstall
    BY <1>8 DEF Restart
  <2>2. \A h \in Hosts : Pending(h)' => Pending(h) /\ installer'[h] = installer[h]
    BY <2>1
  <2> QED
    BY <2>1, <2>2
<1>9. ASSUME NEW h \in Hosts, NEW t \in Tokens, RunInstaller(h, t) PROVE HolderInv'
  BY <1>9 DEF RunInstaller
<1>10. ASSUME NEW h \in Hosts, NEW t \in Tokens, InitConfig(h, t) PROVE HolderInv'
  BY <1>10 DEF InitConfig
<1>11. ASSUME NEW h \in Hosts, Exchange(h) PROVE HolderInv'
  <2>1. CASE /\ installer[h].code \in codes
             /\ codes' = codes \ {installer[h].code}
             /\ installer' = [installer EXCEPT ![h].at = "consumed", ![h].id = row.id]
    BY <1>11, <2>1 DEF Exchange
  <2>2. CASE installer' = [installer EXCEPT ![h] = NoInstall] /\ UNCHANGED codes
    BY <1>11, <2>2 DEF Exchange
  <2> QED
    BY <1>11, <2>1, <2>2 DEF Exchange
<1>12. ASSUME NEW h \in Hosts, ExchangeAnswers(h) PROVE HolderInv'
  <2>1. CASE installer' = [installer EXCEPT ![h].at = "answered"]
    BY <1>12, <2>1 DEF ExchangeAnswers
  <2>2. CASE installer' = [installer EXCEPT ![h] = NoInstall]
    BY <1>12, <2>2 DEF ExchangeAnswers
  <2> QED
    BY <1>12, <2>1, <2>2 DEF ExchangeAnswers
<1>13. ASSUME NEW h \in Hosts, WriteConfig(h) PROVE HolderInv'
  BY <1>13 DEF WriteConfig
<1>14. ASSUME NEW h \in Hosts, StartService(h) PROVE HolderInv'
  BY <1>14 DEF StartService
<1>15. ASSUME NEW h \in Hosts, Authenticate(h) PROVE HolderInv'
  BY <1>15 DEF Authenticate
<1>16. ASSUME NEW h \in Hosts, Register(h) PROVE HolderInv'
  <2>1. codes' = codes /\ config' = config /\ installer' = installer
    BY <1>16 DEF Register
  <2> QED
    BY <2>1
<1>17. ASSUME NEW h \in Hosts, Drop(h) PROVE HolderInv'
  BY <1>17 DEF Drop
<1>18. ASSUME NEW h \in Hosts, SelfUninstall(h) PROVE HolderInv'
  BY <1>18 DEF SelfUninstall
<1>19. ASSUME NEW h \in Hosts, UninstallByHand(h) \/ EnrollElsewhere(h) PROVE HolderInv'
  <2>1. CASE UninstallByHand(h)
    BY <2>1 DEF UninstallByHand, ForgetConfig
  <2>2. CASE EnrollElsewhere(h)
    BY <2>2 DEF EnrollElsewhere, ForgetConfig
  <2> QED
    BY <1>19, <2>1, <2>2
<1>20. CASE UNCHANGED vars
  BY <1>20 DEF vars
<1> QED
  BY <1>1, <1>2, <1>3, <1>4, <1>5, <1>6, <1>7, <1>8, <1>9, <1>10,
     <1>11, <1>12, <1>13, <1>14, <1>15, <1>16, <1>17, <1>18, <1>19, <1>20 DEF Next

\* No step makes a second host of a code.
LEMMA OneHostStep == TypeOK /\ Generated /\ Placed /\ [Next]_vars => OneHostPerCode'
<1> SUFFICES ASSUME TypeOK /\ Generated /\ Placed, [Next]_vars PROVE OneHostPerCode'
  OBVIOUS
<1> USE DEF TypeOK, Generated, RowGen, CodeGen, RequestGen, HostGen, Placed, RequestInv, ShownInv,
       HolderInv, Pending, OneHostPerCode
<1>1. ASSUME NEW r \in Requests, CreateClient(r) PROVE OneHostPerCode'
  BY <1>1 DEF CreateClient, InsertClient
<1>2. CASE ClientAdd
  BY <1>2 DEF ClientAdd, InsertClient
<1>3. ASSUME NEW r \in Requests, ReissueReads(r) PROVE OneHostPerCode'
  BY <1>3 DEF ReissueReads
<1>4. ASSUME NEW r \in Requests, RotateToken(r) PROVE OneHostPerCode'
  BY <1>4 DEF RotateToken
<1>5. ASSUME NEW r \in Requests, IssueCode(r) PROVE OneHostPerCode'
  BY <1>5 DEF IssueCode
<1>6. CASE DeleteClient
  BY <1>6 DEF DeleteClient
<1>7. ASSUME NEW c \in Tokens, Expire(c) PROVE OneHostPerCode'
  BY <1>7 DEF Expire
<1>8. CASE Restart
  BY <1>8 DEF Restart
<1>9. ASSUME NEW h \in Hosts, NEW t \in Tokens, RunInstaller(h, t) PROVE OneHostPerCode'
  BY <1>9 DEF RunInstaller
<1>10. ASSUME NEW h \in Hosts, NEW t \in Tokens, InitConfig(h, t) PROVE OneHostPerCode'
  BY <1>10 DEF InitConfig
<1>11. ASSUME NEW h \in Hosts, Exchange(h) PROVE OneHostPerCode'
  BY <1>11 DEF Exchange
<1>12. ASSUME NEW h \in Hosts, ExchangeAnswers(h) PROVE OneHostPerCode'
  BY <1>12 DEF ExchangeAnswers
<1>13. ASSUME NEW h \in Hosts, WriteConfig(h) PROVE OneHostPerCode'
  BY <1>13 DEF WriteConfig
<1>14. ASSUME NEW h \in Hosts, StartService(h) PROVE OneHostPerCode'
  BY <1>14 DEF StartService
<1>15. ASSUME NEW h \in Hosts, Authenticate(h) PROVE OneHostPerCode'
  BY <1>15 DEF Authenticate
<1>16. ASSUME NEW h \in Hosts, Register(h) PROVE OneHostPerCode'
  BY <1>16 DEF Register
<1>17. ASSUME NEW h \in Hosts, Drop(h) PROVE OneHostPerCode'
  BY <1>17 DEF Drop
<1>18. ASSUME NEW h \in Hosts, SelfUninstall(h) PROVE OneHostPerCode'
  BY <1>18 DEF SelfUninstall
<1>19. ASSUME NEW h \in Hosts, UninstallByHand(h) \/ EnrollElsewhere(h) PROVE OneHostPerCode'
  BY <1>19 DEF UninstallByHand, EnrollElsewhere, ForgetConfig
<1>20. CASE UNCHANGED vars
  BY <1>20 DEF vars
<1> QED
  BY <1>1, <1>2, <1>3, <1>4, <1>5, <1>6, <1>7, <1>8, <1>9, <1>10,
     <1>11, <1>12, <1>13, <1>14, <1>15, <1>16, <1>17, <1>18, <1>19, <1>20 DEF Next

\* The inductive invariant: tokens are fresh and in one place at a time, and the
\* re-issue's check excludes a machine that has an authenticated connection.
LEMMA Invariance == Spec => []IInv
<1>1. Init => IInv
  <2> SUFFICES ASSUME Init PROVE IInv
    OBVIOUS
  <2> USE DEF Init
  <2>1. TypeOK
    BY DEF TypeOK
  <2>2. Generated
    BY DEF Generated, RowGen, CodeGen, RequestGen, HostGen
  <2>3. RaceInv /\ RequestInv /\ ShownInv /\ HolderInv /\ OneHostPerCode
    BY DEF RaceInv, RequestInv, ShownInv, HolderInv, OneHostPerCode, Pending
  <2> QED
    BY <2>1, <2>2, <2>3 DEF IInv, Placed
<1>2. IInv /\ [Next]_vars => IInv'
  BY TypeStep, RowGenStep, CodeGenStep, RequestGenStep, HostGenStep, RaceStep, RequestStep,
     ShownStep, HolderStep, OneHostStep DEF IInv, Generated, Placed
<1> QED
  BY <1>1, <1>2, PTL DEF Spec

\* Every variable of the enrollment keeps its type.
THEOREM TypeCorrect == Spec => []TypeOK
<1>1. IInv => TypeOK
  BY DEF IInv
<1> QED
  BY Invariance, <1>1, PTL

\* A served machine holds the token of its row, unless it authenticated between
\* the check and the rotation of a re-issue (clients.go:103-113).
THEOREM TokenKept == Spec => []RunningTokenKept
<1>1. IInv => RunningTokenKept
  BY DEF IInv, RaceInv, RunningTokenKept
<1> QED
  BY Invariance, <1>1, PTL

\* However many hosts run one install command, one of them is enrolled with it
\* (db.go:813-842).
THEOREM CodesSingleUse == Spec => []OneHostPerCode
<1>1. IInv => OneHostPerCode
  BY DEF IInv, Placed
<1> QED
  BY Invariance, <1>1, PTL

-----------------------------------------------------------------------------
(* A machine once seen stays reachable.                                     *)

\* A process runs with a token that was generated; one told to uninstall runs
\* with a token that is not the row's.
ProcInv ==
    \A h \in Hosts : /\ proc[h].token <= issued
                     /\ proc[h].at = "told" => proc[h].token # row.token

\* A process runs with the token of its host's config, unless an installation
\* has written a new one and not yet restarted the service.
StartedInv ==
    \A h \in Hosts : proc[h].at # "off" /\ installer[h].at # "written"
                         => config[h] = proc[h].token

\* An installation about to write a config does not overwrite the row's token.
OverwriteInv ==
    ~misled /\ row.token # None =>
        \A h \in Hosts : installer[h].at = "answered" => config[h] # row.token

Held == \E h \in Hosts : config[h] = row.token
Used == \E h \in Hosts : proc[h].token = row.token

\* Once the row's token is in use on some host, a config holds it.
HeldInv ==
    ~raced /\ ~collided /\ ~misled /\ row.token \notin {None} \cup removed /\ (row.seen \/ Used)
        => Held

ReachInv == ProcInv /\ StartedInv /\ OverwriteInv /\ HeldInv

\* A step that makes no token, writes no config and starts or ends no process.
LEMMA KeepsStep ==
    ASSUME TypeOK, ReachInv,
           UNCHANGED <<issued, config, collided, misled>>, raced => raced',
           row'.token \in {row.token, None}, row'.token # None => removed' = removed,
           row'.seen => row.seen \/ raced \/ Used,
           \A h \in Hosts :
              /\ proc'[h].token = proc[h].token
              /\ proc'[h].at = "off" <=> proc[h].at = "off"
              /\ proc'[h].at = "told" => proc[h].at = "told" \/ proc[h].token # row'.token
              /\ installer'[h].at = "answered" => installer[h].at = "answered"
              /\ installer'[h].at = "written" <=> installer[h].at = "written"
    PROVE  ReachInv'
<1>1. \A h \in Hosts : proc[h].at = "off" <=> proc[h].token = None
  BY DEF TypeOK
<1>2. ProcInv'
  BY <1>1 DEF ReachInv, ProcInv
<1>3. StartedInv'
  BY DEF ReachInv, StartedInv
<1>4. OverwriteInv'
  BY DEF ReachInv, OverwriteInv
<1>5. HeldInv'
  <2> SUFFICES ASSUME ~raced', ~collided', ~misled', row'.token \notin {None} \cup removed',
                      row'.seen \/ Used'
               PROVE  Held'
    BY DEF HeldInv
  <2>1. row'.token = row.token /\ ~raced
    OBVIOUS
  <2>2. Used' => Used
    BY <2>1 DEF Used
  <2>3. Held
    BY <2>1, <2>2 DEF ReachInv, HeldInv
  <2> QED
    BY <2>1, <2>3 DEF Held
<1> QED
  BY <1>2, <1>3, <1>4, <1>5 DEF ReachInv

\* A new row, or a new token of the row: nobody has it yet.
LEMMA FreshTokenStep ==
    ASSUME TypeOK, Generated, ReachInv,
           UNCHANGED <<installer, config, proc, raced, collided, removed, misled>>,
           issued' = issued + 1, row'.token = issued + 1, row'.seen => raced
    PROVE  ReachInv'
<1>1. /\ issued \in Nat /\ issued' \in Nat /\ issued < issued' /\ row'.token = issued'
      /\ \A h \in Hosts : proc[h].token \in Nat /\ config[h] \in Nat
  BY DEF TypeOK
<1>2. \A h \in Hosts : proc[h].token # row'.token /\ proc[h].token <= issued'
                       /\ config[h] # row'.token
  BY <1>1 DEF ReachInv, ProcInv, Generated, HostGen
<1>3. ProcInv'
  BY <1>2 DEF ProcInv
<1>4. StartedInv'
  BY DEF ReachInv, StartedInv
<1>5. OverwriteInv'
  BY <1>2 DEF OverwriteInv
<1>6. HeldInv'
  BY <1>2 DEF HeldInv, Used
<1> QED
  BY <1>3, <1>4, <1>5, <1>6 DEF ReachInv

\* A config is written on a host that did not hold the row's token, or with the
\* row's token.
LEMMA ConfigStep ==
    ASSUME TypeOK, ReachInv, NEW h \in Hosts, NEW t \in {None} \cup Tokens,
           UNCHANGED <<row, issued, proc, raced, collided, removed>>, misled => misled',
           config' = [config EXCEPT ![h] = t], installer'[h].at = "written",
           ~misled' /\ row.token # None => config[h] # row.token \/ t = row.token,
           \A g \in Hosts \ {h} : installer'[g] = installer[g]
    PROVE  ReachInv'
<1>1. \A g \in Hosts \ {h} : config'[g] = config[g]
  BY DEF TypeOK
<1>2. config'[h] = t
  BY DEF TypeOK
<1>3. ProcInv'
  BY DEF ReachInv, ProcInv
<1>4. StartedInv'
  BY <1>1 DEF ReachInv, StartedInv
<1>5. OverwriteInv'
  BY <1>1 DEF ReachInv, OverwriteInv
<1>6. HeldInv'
  <2> SUFFICES ASSUME ~raced', ~collided', ~misled', row'.token \notin {None} \cup removed',
                      row'.seen \/ Used'
               PROVE  Held'
    BY DEF HeldInv
  <2>1. Used' => Used
    BY DEF Used
  <2>2. PICK g \in Hosts : config[g] = row.token
    BY <2>1 DEF ReachInv, HeldInv, Held
  <2>3. CASE g = h
    BY <1>2, <2>2, <2>3 DEF Held
  <2>4. CASE g # h
    BY <1>1, <2>2, <2>4 DEF Held
  <2> QED
    BY <2>3, <2>4
<1> QED
  BY <1>3, <1>4, <1>5, <1>6 DEF ReachInv

\* Requests, the command line and restarts.
LEMMA ServerReach ==
    ASSUME IInv, ReachInv,
           \/ \E r \in Requests :
                 CreateClient(r) \/ ReissueReads(r) \/ RotateToken(r) \/ IssueCode(r)
           \/ ClientAdd \/ DeleteClient \/ Restart
           \/ \E c \in Tokens : Expire(c)
           \/ UNCHANGED vars
    PROVE  ReachInv'
<1>0. TypeOK /\ Generated /\ RaceInv
  BY DEF IInv
<1>1. ASSUME NEW r \in Requests, CreateClient(r) PROVE ReachInv'
  BY <1>0, <1>1, FreshTokenStep DEF CreateClient, InsertClient
<1>2. CASE ClientAdd
  BY <1>0, <1>2, FreshTokenStep DEF ClientAdd, InsertClient
<1>3. ASSUME UNCHANGED <<row, issued, installer, config, proc, collided, removed, misled>>,
             raced => raced'
      PROVE  ReachInv'
  BY <1>0, <1>3, KeepsStep
<1>4. ASSUME NEW r \in Requests, RotateToken(r) PROVE ReachInv'
  <2>1. CASE row # NoRow /\ row.id = request[r].id /\ issued' = issued + 1
             /\ row' = [row EXCEPT !.token = issued + 1]
    \* the re-issue checked that the machine was never seen
    <3>1. row'.token = issued + 1 /\ row'.seen = row.seen
      BY <1>0, <2>1 DEF TypeOK
    <3>2. row.seen => raced
      BY <1>0, <1>4, <2>1 DEF RaceInv, RotateToken
    <3>3. UNCHANGED <<installer, config, proc, raced, collided, removed, misled>>
      BY <1>4 DEF RotateToken
    <3> QED
      BY <1>0, <2>1, <3>1, <3>2, <3>3, FreshTokenStep
  <2>2. CASE UNCHANGED <<row, issued>>
    BY <1>3, <1>4, <2>2 DEF RotateToken
  <2> QED
    BY <1>4, <2>1, <2>2 DEF RotateToken
<1>5. ASSUME NEW r \in Requests, ReissueReads(r) \/ IssueCode(r) PROVE ReachInv'
  BY <1>3, <1>5 DEF ReissueReads, IssueCode
<1>6. CASE (\E c \in Tokens : Expire(c)) \/ UNCHANGED vars
  BY <1>3, <1>6 DEF Expire, vars
<1>7. CASE DeleteClient
  <2>1. row' = NoRow /\ UNCHANGED <<issued, installer, config, raced, collided, misled>>
    BY <1>7 DEF DeleteClient
  <2>2. ASSUME NEW h \in Hosts
        PROVE  /\ proc'[h].token = proc[h].token
               /\ proc'[h].at = "off" <=> proc[h].at = "off"
               /\ proc'[h].at = "told" => proc[h].at = "told" \/ proc[h].token # None
    <3>1. proc'[h] = proc[h] \/ (proc[h].at = "up" /\ proc'[h] = [proc[h] EXCEPT !.at = "told"])
      BY <1>7 DEF DeleteClient
    <3>2. /\ proc[h] \in [at : {"off", "dial", "authed", "up", "told"},
                          token : {None} \cup Tokens, id : {None} \cup Tokens]
          /\ proc[h].at = "off" <=> proc[h].token = None
      BY <1>0 DEF TypeOK
    <3> QED
      BY <3>1, <3>2
  <2> QED
    BY <1>0, <2>1, <2>2, KeepsStep
<1>8. CASE Restart
  <2>1. UNCHANGED <<row, issued, config, raced, collided, removed, misled>>
    BY <1>8 DEF Restart
  <2>2. ASSUME NEW h \in Hosts
        PROVE  /\ proc'[h].token = proc[h].token
               /\ proc'[h].at = "off" <=> proc[h].at = "off"
               /\ proc'[h].at = "told" => proc[h].at = "told"
    <3>1. \/ proc'[h] = proc[h]
          \/ /\ proc[h].at \in {"authed", "up"}
             /\ proc'[h] = [proc[h] EXCEPT !.at = "dial", !.id = None]
      BY <1>8 DEF Restart
    <3>2. proc[h] \in [at : {"off", "dial", "authed", "up", "told"},
                       token : {None} \cup Tokens, id : {None} \cup Tokens]
      BY <1>0 DEF TypeOK
    <3> QED
      BY <3>1, <3>2
  <2>3. ASSUME NEW h \in Hosts
        PROVE  \/ installer'[h] = installer[h]
               \/ installer'[h].at = "idle" /\ installer[h].at \in {"asked", "consumed"}
    BY <1>8 DEF Restart
  <2> QED
    BY <1>0, <2>1, <2>2, <2>3, KeepsStep
<1> QED
  BY <1>1, <1>2, <1>4, <1>5, <1>6, <1>7, <1>8

\* The installation on a host.
LEMMA InstallReach ==
    ASSUME IInv, ReachInv, NEW h \in Hosts,
           \/ \E t \in Tokens : RunInstaller(h, t) \/ InitConfig(h, t)
           \/ Exchange(h) \/ ExchangeAnswers(h) \/ WriteConfig(h) \/ StartService(h)
    PROVE  ReachInv'
<1>0. TypeOK /\ Generated /\ HolderInv
  BY DEF IInv, Placed
<1>t. /\ installer \in [Hosts -> [at : {"idle", "asked", "consumed", "answered", "written"},
                                  code : {None} \cup Tokens, id : {None} \cup Tokens]]
      /\ config \in [Hosts -> {None} \cup Tokens]
      /\ proc \in [Hosts -> [at : {"off", "dial", "authed", "up", "told"},
                             token : {None} \cup Tokens, id : {None} \cup Tokens]]
  BY <1>0 DEF TypeOK
\* steps that only move the installation, not to or from a written config
<1>1. ASSUME UNCHANGED <<row, issued, config, proc, raced, collided, removed, misled>>,
             \A g \in Hosts \ {h} : installer'[g] = installer[g],
             installer'[h].at \notin {"answered", "written"}, installer[h].at # "written"
      PROVE  ReachInv'
  BY <1>0, <1>1, KeepsStep
<1>2. ASSUME NEW t \in Tokens, RunInstaller(h, t) PROVE ReachInv'
  BY <1>t, <1>1, <1>2 DEF RunInstaller
<1>3. CASE Exchange(h)
  BY <1>t, <1>1, <1>3 DEF Exchange
<1>4. CASE ExchangeAnswers(h)
  <2>1. CASE installer' = [installer EXCEPT ![h] = NoInstall] /\ UNCHANGED misled
    BY <1>t, <1>1, <1>4, <2>1 DEF ExchangeAnswers
  <2>2. CASE /\ row.id = installer[h].id
             /\ installer' = [installer EXCEPT ![h].at = "answered"]
             /\ misled' = (misled \/ row.token # installer[h].code)
    <3>1. UNCHANGED <<row, issued, config, proc, raced, collided, removed>> /\ (misled => misled')
      BY <1>4, <2>2 DEF ExchangeAnswers
    <3>2. installer[h].at = "consumed" /\ \A g \in Hosts \ {h} : installer'[g] = installer[g]
      BY <1>t, <1>4, <2>2 DEF ExchangeAnswers
    <3>3. installer'[h].at = "answered"
      BY <1>t, <2>2
    <3>4. ~misled' => config[h] # row.token
      BY <1>0, <2>2, <3>2 DEF HolderInv, Pending
    <3>5. ProcInv' /\ StartedInv'
      BY <3>1, <3>2, <3>3 DEF ReachInv, ProcInv, StartedInv
    <3>6. OverwriteInv'
      BY <3>1, <3>2, <3>3, <3>4 DEF ReachInv, OverwriteInv
    <3>7. HeldInv'
      BY <3>1 DEF ReachInv, HeldInv, Held, Used
    <3> QED
      BY <3>5, <3>6, <3>7 DEF ReachInv
  <2> QED
    BY <1>4, <2>1, <2>2 DEF ExchangeAnswers
<1>5. CASE WriteConfig(h)
  <2>1. /\ installer[h].at = "answered" /\ config' = [config EXCEPT ![h] = installer[h].code]
        /\ UNCHANGED <<row, issued, proc, raced, collided, removed, misled>>
        /\ installer' = [installer EXCEPT ![h].at = "written"]
    BY <1>5 DEF WriteConfig
  <2>2. /\ installer'[h].at = "written" /\ installer[h].code \in {None} \cup Tokens
        /\ \A g \in Hosts \ {h} : installer'[g] = installer[g]
    BY <1>t, <2>1
  <2>3. ~misled' /\ row.token # None => config[h] # row.token
    BY <2>1 DEF ReachInv, OverwriteInv
  <2> QED
    BY <1>0, <2>1, <2>2, <2>3, ConfigStep
<1>6. ASSUME NEW t \in Tokens, InitConfig(h, t) PROVE ReachInv'
  <2>1. /\ config' = [config EXCEPT ![h] = t] /\ misled' = (misled \/ t # row.token)
        /\ UNCHANGED <<row, issued, proc, raced, collided, removed>>
        /\ installer' = [installer EXCEPT ![h].at = "written"]
    BY <1>6 DEF InitConfig
  <2>2. installer'[h].at = "written" /\ \A g \in Hosts \ {h} : installer'[g] = installer[g]
    BY <1>t, <2>1
  <2>3. (misled => misled') /\ (~misled' => t = row.token)
    BY <2>1
  <2> QED
    BY <1>0, <2>1, <2>2, <2>3, ConfigStep
<1>7. CASE StartService(h)
  <2>1. /\ installer' = [installer EXCEPT ![h] = NoInstall]
        /\ UNCHANGED <<row, issued, config, raced, collided, removed, misled>>
        /\ proc' = [proc EXCEPT ![h] = IF config[h] = None THEN NoProc
                                       ELSE [NoProc EXCEPT !.at = "dial", !.token = config[h]]]
    BY <1>7 DEF StartService
  <2>2. /\ \A g \in Hosts \ {h} : installer'[g] = installer[g] /\ proc'[g] = proc[g]
        /\ installer'[h].at = "idle" /\ proc'[h].token = config[h]
        /\ proc'[h].at \in {"off", "dial"}
    BY <1>t, <2>1
  <2>3. ProcInv'
    BY <1>0, <2>1, <2>2 DEF ReachInv, ProcInv, Generated, HostGen
  <2>4. StartedInv'
    BY <2>1, <2>2 DEF ReachInv, StartedInv
  <2>5. OverwriteInv'
    BY <2>1, <2>2 DEF ReachInv, OverwriteInv
  <2>6. HeldInv'
    BY <2>1, <2>2 DEF ReachInv, HeldInv, Held, Used
  <2> QED
    BY <2>3, <2>4, <2>5, <2>6 DEF ReachInv
<1> QED
  BY <1>2, <1>3, <1>4, <1>5, <1>6, <1>7

\* The client process.
LEMMA ProcessReach ==
    ASSUME IInv, ReachInv, NEW h \in Hosts,
           Authenticate(h) \/ Register(h) \/ Drop(h) \/ SelfUninstall(h)
    PROVE  ReachInv'
<1>0. TypeOK /\ Generated /\ RaceInv
  BY DEF IInv
<1>t. \A g \in Hosts : proc[g] \in [at : {"off", "dial", "authed", "up", "told"},
                                    token : {None} \cup Tokens, id : {None} \cup Tokens]
  BY <1>0 DEF TypeOK
<1>1. CASE Authenticate(h)
  <2>1. UNCHANGED <<row, issued, installer, config, collided, removed, misled>> /\ (raced => raced')
    <3>1. raced => raced'
      BY <1>1, Zenon DEF Authenticate
    <3>2. UNCHANGED <<row, issued, installer, config, collided, removed, misled>>
      BY <1>1 DEF Authenticate
    <3> QED
      BY <3>1, <3>2
  <2>2. proc[h].at = "dial" /\ \A g \in Hosts \ {h} : proc'[g] = proc[g]
    BY <1>0, <1>1 DEF Authenticate, TypeOK
  <2>3. \/ proc'[h] = [proc[h] EXCEPT !.at = "authed", !.id = row.id]
        \/ proc'[h] = [proc[h] EXCEPT !.at = "told"] /\ proc[h].token # row.token
    BY <1>0, <1>1 DEF Authenticate, TypeOK
  <2>4. /\ proc'[h].token = proc[h].token /\ proc'[h].at \in {"authed", "told"}
        /\ proc'[h].at = "told" => proc[h].token # row.token
    BY <1>t, <2>3
  <2> QED
    BY <1>0, <2>1, <2>2, <2>4, KeepsStep
<1>2. CASE Register(h)
  <2>1. UNCHANGED <<issued, installer, config, raced, collided, removed, misled>>
    BY <1>2 DEF Register
  <2>2. proc[h].at = "authed" /\ row'.token = row.token
        /\ (row'.seen => row.seen \/ proc[h].id = row.id)
    BY <1>0, <1>2 DEF Register, TypeOK
  <2>3. ASSUME NEW g \in Hosts
        PROVE  /\ proc'[g].token = proc[g].token
               /\ proc'[g].at = "off" <=> proc[g].at = "off"
               /\ proc'[g].at = "told" => proc[g].at = "told"
    <3>1. \/ proc'[g] = proc[g]
          \/ proc[g].at = "authed" /\ proc'[g] = [proc[g] EXCEPT !.at = "up"]
          \/ proc[g].at = "up" /\ proc'[g] = [proc[g] EXCEPT !.at = "dial", !.id = None]
      BY <1>2 DEF Register
    <3> QED
      BY <1>t, <3>1
  \* the machine it marks as seen authenticated with the row's token
  <2>4. proc[h].id = row.id => raced \/ Used
    <3>1. proc[h].id # None
      BY <1>0, <2>2 DEF Generated, HostGen
    <3>2. proc[h].id = row.id => row # NoRow
      BY <3>1
    <3> QED
      BY <1>0, <2>2, <3>2 DEF RaceInv, Used
  <2> QED
    BY <1>0, <2>1, <2>2, <2>3, <2>4, KeepsStep
<1>3. CASE Drop(h)
  <2>1. /\ UNCHANGED <<row, issued, installer, config, raced, collided, removed, misled>>
        /\ proc[h].at \in {"authed", "up"}
    BY <1>3 DEF Drop
  <2>2. /\ \A g \in Hosts \ {h} : proc'[g] = proc[g]
        /\ proc'[h] = [proc[h] EXCEPT !.at = "dial", !.id = None]
    BY <1>0, <1>3 DEF Drop, TypeOK
  <2>3. proc'[h].token = proc[h].token /\ proc'[h].at = "dial"
    BY <1>t, <2>2
  <2> QED
    BY <1>0, <2>1, <2>2, <2>3, KeepsStep
<1>4. CASE SelfUninstall(h)
  <2>1. /\ proc[h].at = "told" /\ config' = [config EXCEPT ![h] = None]
        /\ UNCHANGED <<row, issued, installer, raced, removed, misled>>
        /\ collided' = (collided \/ (installer[h].at = "written" /\ config[h] # None))
    BY <1>4 DEF SelfUninstall
  <2>2. proc'[h] = NoProc /\ \A g \in Hosts \ {h} : proc'[g] = proc[g]
    BY <1>0, <1>4 DEF SelfUninstall, TypeOK
  <2>3. (collided => collided') /\ (~collided' /\ row.token # None => config[h] # row.token)
    BY <2>1 DEF ReachInv, ProcInv, StartedInv
  <2>4. ProcInv'
    BY <1>0, <2>1, <2>2 DEF ReachInv, ProcInv, TypeOK
  <2>5. \A g \in Hosts \ {h} : config'[g] = config[g]
    BY <1>0, <2>1 DEF TypeOK
  <2>6. config'[h] = None
    BY <1>0, <2>1 DEF TypeOK
  <2>7. StartedInv'
    BY <2>1, <2>2, <2>5 DEF ReachInv, StartedInv
  <2>8. OverwriteInv'
    BY <2>1, <2>5, <2>6 DEF ReachInv, OverwriteInv
  <2>9. HeldInv'
    BY <2>1, <2>2, <2>3, <2>5 DEF ReachInv, HeldInv, Held, Used
  <2> QED
    BY <2>4, <2>7, <2>8, <2>9 DEF ReachInv
<1> QED
  BY <1>1, <1>2, <1>3, <1>4

\* An administrator's uninstall or enrolment for another machine: what they take
\* from the row's token is recorded.
LEMMA HandReach ==
    ASSUME IInv, ReachInv, NEW h \in Hosts, UninstallByHand(h) \/ EnrollElsewhere(h)
    PROVE  ReachInv'
<1>0. TypeOK
  BY DEF IInv
<1>1. /\ UNCHANGED <<row, issued, raced, collided, misled>>
      /\ config' = [config EXCEPT ![h] = None]
      /\ removed' = removed \cup (({config[h]} \cap {row.token}) \ {None})
  BY DEF UninstallByHand, EnrollElsewhere, ForgetConfig
<1>2. /\ config'[h] = None
      /\ \A g \in Hosts \ {h} : config'[g] = config[g]
  BY <1>0, <1>1 DEF TypeOK
<1>3. /\ \A g \in Hosts \ {h} : proc'[g] = proc[g] /\ installer'[g] = installer[g]
      /\ proc'[h] = proc[h] \/ proc'[h] = NoProc
      /\ installer'[h].at = "written" \/ (installer'[h] = installer[h] /\ proc'[h] = NoProc)
  BY <1>0 DEF UninstallByHand, EnrollElsewhere, TypeOK
<1>4. ProcInv'
  BY <1>0, <1>1, <1>3 DEF ReachInv, ProcInv, TypeOK
<1>5. StartedInv'
  BY <1>2, <1>3 DEF ReachInv, StartedInv
<1>6. OverwriteInv'
  BY <1>1, <1>2, <1>3 DEF ReachInv, OverwriteInv
<1>7. HeldInv'
  <2> SUFFICES ASSUME ~raced, ~collided, ~misled, row.token # None, row.token \notin removed',
                      row.seen \/ Used'
               PROVE  Held'
    BY <1>1 DEF HeldInv
  <2>1. row.token \notin removed /\ config[h] # row.token
    BY <1>1
  <2>2. Used' => Used
    BY <1>1, <1>3 DEF Used
  <2>3. PICK g \in Hosts : config[g] = row.token
    BY <2>1, <2>2 DEF ReachInv, HeldInv, Held
  <2> QED
    BY <1>1, <1>2, <2>1, <2>3 DEF Held
<1> QED
  BY <1>4, <1>5, <1>6, <1>7 DEF ReachInv

\* A machine that has connected once, and for which no new command can be had,
\* has its token in the config of some host, unless one of the three named
\* accidents happened or the config was removed or overwritten by hand
\* (clients.go:97-120, cmd/portly-client/enroll.go:52-92, main.go:73-111).
THEOREM SeenIsReachable == Spec => []SeenStaysReachable
<1>1. Init => ReachInv
  BY DEF Init, ReachInv, ProcInv, StartedInv, OverwriteInv, HeldInv
<1>2. IInv /\ ReachInv /\ [Next]_vars => ReachInv'
  BY ServerReach, InstallReach, ProcessReach, HandReach DEF Next
<1>3. IInv /\ ReachInv => SeenStaysReachable
  <2> SUFFICES ASSUME IInv, ReachInv, row.seen, ~raced, ~collided, ~misled,
                      row.token \notin removed
               PROVE  Held
    BY DEF SeenStaysReachable, Held
  <2>1. row.token # None
    BY DEF IInv, TypeOK, Generated, RowGen
  <2> QED
    BY <2>1 DEF ReachInv, HeldInv
<1> QED
  BY <1>1, <1>2, <1>3, Invariance, PTL DEF Spec

-----------------------------------------------------------------------------
(* Afterwards an enrolled machine keeps itself up to date: module Updates.  *)
(* Its constants and variables are its own.                                 *)

\* Whatever order versions are installed in, an older one after a newer one
\* included, everything built or run is a commit of main.
VersionInv ==
    /\ head \in Nat /\ 1 <= head
    /\ checkout \in 1..head /\ disk \in 1..head /\ running \in 0..head

\* An agent that has a checksum has that of a version a server ran; what it is
\* about to install has that checksum, and so has what it is about to execute.
\* r is its position, f its file, n the newest version.
Fits(r, f, n) ==
    /\ f \in 1..n
    /\ r.at # "idle" => r.sum \in 1..n
    /\ r.at = "rename" => r.tmp = r.sum
    /\ r.at = "exec" => f = r.sum

Positions == {"idle", "hash", "download", "body", "verify", "rename", "exec"}
Updating  == [at : Positions, sum : Nat, tmp : Nat]

DownloadInv ==
    /\ update \in [Agents -> Updating] /\ exe \in [Agents -> Nat]
    /\ \A a \in Agents : Fits(update[a], exe[a], head)

\* The version on main never goes back; the others may.
LEMMA VersionStep ==
    ASSUME VersionInv, [UpdatesNext]_updatesVars PROVE VersionInv' /\ head <= head'
<1> USE DEF VersionInv, server, unit, report, agents, Down
<1>1. CASE Release
  BY <1>1 DEF Release
<1>2. ASSUME NEW s \in Scripts, Stage(s) PROVE VersionInv' /\ head <= head'
  <2>1. checkout' \in {head, checkout} /\ disk' \in {disk, checkout} \cup 1..head
        /\ head' = head /\ running' \in {0, running}
    BY <1>2 DEF Stage
  <2> QED
    BY <2>1
<1>3. CASE ServerStarts
  BY <1>3 DEF ServerStarts
<1>4. CASE Reboot
  BY <1>4 DEF Reboot
<1>5. CASE UNCHANGED <<head, checkout, disk, running>>
  BY <1>5
<1>6. ASSUME NEW c \in Checkers, Check(c) \/ CheckFails(c)
      PROVE  UNCHANGED <<head, checkout, disk, running>>
  BY <1>6 DEF Check, CheckAsks, CheckAnswers, CheckFails
<1>7. ASSUME NEW s \in Scripts, Finish(s) \/ StageFails(s) \/ Die(s)
      PROVE  UNCHANGED <<head, checkout, disk, running>>
  BY <1>7 DEF Finish, StageFails, Die
<1>8. ASSUME NEW a \in Agents,
             CheckAndApplyUpdate(a) \/ RequestFails(a) \/ BodyDamaged(a)
               \/ ExecFails(a) \/ AgentRestarts(a)
      PROVE  UNCHANGED <<head, checkout, disk, running>>
  BY <1>8 DEF CheckAndApplyUpdate, FetchChecksum, HashFile, Download, BodyArrives,
              Verify, Rename, Exec, RequestFails, BodyDamaged, ExecFails,
              AgentRestarts
<1>9. CASE ApplyUpdate \/ Poll \/ RunByHand \/ System \/ UNCHANGED updatesVars
  <2>1. UNCHANGED <<head, checkout, disk, running>>
    BY <1>9 DEF ApplyUpdate, Poll, RunByHand, System, PathTriggers,
                RemoveMarker, StartScript, ServiceEnds, updatesVars
  <2> QED
    BY <2>1, <1>5
<1> QED
  BY <1>1, <1>2, <1>3, <1>4, <1>5, <1>6, <1>7, <1>8, <1>9 DEF UpdatesNext, Script

\* Only the steps of the agents touch their files and downloads.
LEMMA AgentsOnly ==
    ASSUME [UpdatesNext]_updatesVars
    PROVE  \/ UNCHANGED <<exe, update>>
           \/ \E a \in Agents :
                  \/ (CheckAndApplyUpdate(a) \/ BodyDamaged(a)) /\ UNCHANGED <<head, running>>
                  \/ exe' = exe /\ update' = [update EXCEPT ![a] = Idle]
<1> USE DEF server, unit, report, agents
<1>1. CASE Release \/ ApplyUpdate \/ Poll \/ RunByHand \/ System
           \/ ServerStarts \/ Reboot \/ UNCHANGED updatesVars
  BY <1>1 DEF Release, ApplyUpdate, Poll, RunByHand, System,
              PathTriggers, RemoveMarker, StartScript, ServiceEnds,
              ServerStarts, Reboot, updatesVars
<1>2. ASSUME NEW c \in Checkers, Check(c) \/ CheckFails(c)
      PROVE  UNCHANGED <<exe, update>>
  BY <1>2 DEF Check, CheckAsks, CheckAnswers, CheckFails
<1>3. ASSUME NEW s \in Scripts, Script(s) \/ StageFails(s) \/ Die(s)
      PROVE  UNCHANGED <<exe, update>>
  BY <1>3 DEF Script, Stage, Finish, StageFails, Die
<1>4. ASSUME NEW a \in Agents, RequestFails(a) \/ ExecFails(a) \/ AgentRestarts(a)
      PROVE  exe' = exe /\ update' = [update EXCEPT ![a] = Idle]
  BY <1>4 DEF RequestFails, ExecFails, AgentRestarts
<1>5. ASSUME NEW a \in Agents, CheckAndApplyUpdate(a) \/ BodyDamaged(a)
      PROVE  UNCHANGED <<head, running>>
  BY <1>5 DEF CheckAndApplyUpdate, FetchChecksum, HashFile, Download, BodyArrives,
              Verify, Rename, Exec, BodyDamaged
<1> QED
  BY <1>1, <1>2, <1>3, <1>4, <1>5 DEF UpdatesNext

\* One step of one agent's checkAndApplyUpdate, against a server that keeps its
\* version during the step.
LEMMA AgentStep ==
    ASSUME VersionInv, DownloadInv, NEW a \in Agents,
           CheckAndApplyUpdate(a) \/ BodyDamaged(a), UNCHANGED <<head, running>>
    PROVE  DownloadInv'
<1> DEFINE u == update[a]
<1>t. /\ update \in [Agents -> Updating] /\ u \in Updating
      /\ exe \in [Agents -> Nat] /\ exe[a] \in Nat
      /\ Fits(u, exe[a], head) /\ head' = head
      /\ running \in Nat /\ head \in Nat /\ (running # Down => running \in 1..head)
  BY DEF DownloadInv, VersionInv, Down
\* what has to be shown of the new record and the new file
<1>f. ASSUME NEW r \in Updating, update' = [update EXCEPT ![a] = r],
             NEW f \in Nat, exe' = [exe EXCEPT ![a] = f], Fits(r, f, head)
      PROVE  DownloadInv'
  <2>1. update' \in [Agents -> Updating] /\ exe' \in [Agents -> Nat]
    BY <1>t, <1>f
  <2>2. ASSUME NEW b \in Agents PROVE Fits(update'[b], exe'[b], head')
    BY <1>t, <1>f DEF DownloadInv
  <2> QED
    BY <2>1, <2>2 DEF DownloadInv
<1>s. ASSUME NEW r \in Updating, update' = [update EXCEPT ![a] = r], exe' = exe,
             Fits(r, exe[a], head)
      PROVE  DownloadInv'
  <2>1. exe' = [exe EXCEPT ![a] = exe[a]]
    BY <1>s, <1>t
  <2> QED
    BY <2>1, <1>s, <1>f, <1>t
<1>i. ASSUME update' = [update EXCEPT ![a] = Idle], exe' = exe PROVE DownloadInv'
  <2>1. Idle \in Updating /\ Fits(Idle, exe[a], head)
    BY <1>t DEF Idle, Updating, Positions, Fits, Down, Torn
  <2> QED
    BY <2>1, <1>i, <1>s
\* a step that only moves on
<1>m. ASSUME NEW p \in Positions, update' = [update EXCEPT ![a].at = p], exe' = exe,
             u.at # "idle", p # "exec", p = "rename" => u.tmp = u.sum
      PROVE  DownloadInv'
  <2> DEFINE r == [u EXCEPT !.at = p]
  <2>1. r \in Updating /\ r.at = p /\ r.sum = u.sum /\ r.tmp = u.tmp
    BY <1>t, <1>m DEF Updating
  <2>2. Fits(r, exe[a], head)
    BY <2>1, <1>t, <1>m DEF Fits
  <2>3. update' = [update EXCEPT ![a] = r]
    BY <1>m
  <2> QED
    BY <2>1, <2>2, <2>3, <1>m, <1>s
\* what is sent, or was damaged on its way, is not yet trusted
<1>b. ASSUME NEW p \in {"body", "verify"}, NEW v \in Nat,
             update' = [update EXCEPT ![a].at = p, ![a].tmp = v], exe' = exe, u.at # "idle"
      PROVE  DownloadInv'
  <2> DEFINE r == [u EXCEPT !.at = p, !.tmp = v]
  <2>1. r \in Updating /\ r.at = p /\ r.sum = u.sum
    BY <1>t, <1>b DEF Updating, Positions
  <2>2. Fits(r, exe[a], head)
    BY <2>1, <1>t, <1>b DEF Fits
  <2>3. update' = [update EXCEPT ![a] = r]
    BY <1>b
  <2> QED
    BY <2>1, <2>2, <2>3, <1>b, <1>s
<1>1. CASE FetchChecksum(a)
  <2> DEFINE r == [at |-> "hash", sum |-> running, tmp |-> Torn]
  <2>1. update' = [update EXCEPT ![a] = r] /\ exe' = exe /\ running # Down
    BY <1>1 DEF FetchChecksum
  <2>2. r \in Updating /\ r.at = "hash" /\ r.sum = running
    BY <1>t DEF Torn, Updating, Positions
  <2>3. Fits(r, exe[a], head)
    BY <2>1, <2>2, <1>t DEF Fits
  <2> QED
    BY <2>1, <2>2, <2>3, <1>s
<1>2. CASE HashFile(a)
  <2>1. \/ update' = [update EXCEPT ![a] = Idle]
        \/ update' = [update EXCEPT ![a].at = "download"]
    BY <1>2 DEF HashFile
  <2>2. exe' = exe /\ u.at # "idle" /\ "download" \in Positions
    BY <1>2 DEF HashFile, Positions
  <2> QED
    BY <2>1, <2>2, <1>i, <1>m
<1>3. CASE Download(a)
  <2>1. /\ update' = [update EXCEPT ![a].at = "body", ![a].tmp = running]
        /\ exe' = exe /\ u.at # "idle"
    BY <1>3 DEF Download
  <2> QED
    BY <2>1, <1>b, <1>t
<1>4. CASE BodyArrives(a)
  <2>1. /\ update' = [update EXCEPT ![a].at = "verify"] /\ exe' = exe
        /\ u.at # "idle" /\ "verify" \in Positions
    BY <1>4 DEF BodyArrives, Positions
  <2> QED
    BY <2>1, <1>m
<1>5. CASE BodyDamaged(a)
  <2>1. /\ update' = [update EXCEPT ![a].at = "verify", ![a].tmp = Torn]
        /\ exe' = exe /\ u.at # "idle" /\ Torn \in Nat
    BY <1>5 DEF BodyDamaged, Torn
  <2> QED
    BY <2>1, <1>b
<1>6. CASE Verify(a)
  <2>1. \/ update' = [update EXCEPT ![a] = Idle]
        \/ update' = [update EXCEPT ![a].at = "rename"] /\ u.tmp = u.sum
    BY <1>6 DEF Verify
  <2>2. exe' = exe /\ u.at # "idle" /\ "rename" \in Positions
    BY <1>6 DEF Verify, Positions
  <2> QED
    BY <2>1, <2>2, <1>i, <1>m
<1>7. CASE Rename(a)
  <2> DEFINE r == [u EXCEPT !.at = "exec"]
  <2>1. /\ update' = [update EXCEPT ![a] = r] /\ exe' = [exe EXCEPT ![a] = u.tmp]
        /\ u.at = "rename"
    BY <1>7 DEF Rename
  <2>2. r \in Updating /\ r.at = "exec" /\ r.sum = u.sum /\ u.tmp \in Nat
    BY <1>t DEF Updating, Positions
  <2>3. Fits(r, u.tmp, head)
    BY <2>1, <2>2, <1>t DEF Fits
  <2> QED
    BY <2>1, <2>2, <2>3, <1>f
<1>8. CASE Exec(a)
  BY <1>8, <1>i DEF Exec
<1> QED
  BY <1>1, <1>2, <1>3, <1>4, <1>5, <1>6, <1>7, <1>8 DEF CheckAndApplyUpdate

\* A machine's executable is at every instant a complete binary, and what an
\* update has put there is the very binary whose checksum was announced: not a
\* damaged body, and not the version of a server that was replaced, by a newer or
\* an older one, between checksum, request and body (selfupdate.go:65-110, 136-182).
THEOREM MachinesStayWhole == UpdatesSpec => []BinaryStaysWhole
<1> DEFINE BinaryInv == VersionInv /\ DownloadInv
<1>1. UpdatesInit => BinaryInv
  <2> SUFFICES ASSUME UpdatesInit PROVE BinaryInv
    OBVIOUS
  <2>1. VersionInv
    BY DEF UpdatesInit, VersionInv
  <2>2. DownloadInv
    BY DEF UpdatesInit, DownloadInv, Updating, Positions, Fits, Idle, Down, Torn
  <2> QED
    BY <2>1, <2>2
<1>2. BinaryInv /\ [UpdatesNext]_updatesVars => BinaryInv'
  <2> SUFFICES ASSUME BinaryInv, [UpdatesNext]_updatesVars PROVE BinaryInv'
    OBVIOUS
  <2>1. VersionInv' /\ head <= head'
    BY VersionStep
  <2>2. head \in Nat /\ head' \in Nat /\ head <= head'
    BY <2>1 DEF VersionInv
  \* a new release takes nothing away
  <2>3. ASSUME NEW r, NEW f, Fits(r, f, head) PROVE Fits(r, f, head')
    BY <2>2, <2>3 DEF Fits
  <2>4. CASE UNCHANGED <<exe, update>>
    <3>1. exe' = exe /\ update' = update
      BY <2>4
    <3>2. ASSUME NEW b \in Agents PROVE Fits(update'[b], exe'[b], head')
      <4>1. Fits(update[b], exe[b], head)
        BY DEF DownloadInv
      <4> QED
        BY <2>3, <3>1, <4>1
    <3>3. update' \in [Agents -> Updating] /\ exe' \in [Agents -> Nat]
      BY <3>1 DEF DownloadInv
    <3> QED
      BY <2>1, <3>2, <3>3 DEF DownloadInv
  <2>5. ASSUME NEW a \in Agents, exe' = exe, update' = [update EXCEPT ![a] = Idle]
        PROVE  DownloadInv'
    <3>1. Idle \in Updating
      BY DEF Idle, Updating, Positions, Down, Torn
    <3>2. update' \in [Agents -> Updating] /\ exe' \in [Agents -> Nat]
      BY <2>5, <3>1 DEF DownloadInv
    <3>3. ASSUME NEW b \in Agents PROVE Fits(update'[b], exe'[b], head')
      <4>1. Fits(update[b], exe[b], head)
        BY DEF DownloadInv
      <4>2. CASE b # a
        BY <2>3, <2>5, <4>1, <4>2 DEF DownloadInv
      <4>3. CASE b = a
        <5>1. Fits(Idle, exe[b], head)
          BY <4>1 DEF Fits, Idle
        <5>2. update'[b] = Idle
          BY <2>5, <4>3 DEF DownloadInv
        <5> QED
          BY <2>3, <2>5, <5>1, <5>2
      <4> QED
        BY <4>2, <4>3
    <3> QED
      BY <3>2, <3>3 DEF DownloadInv
  <2>6. ASSUME NEW a \in Agents, CheckAndApplyUpdate(a) \/ BodyDamaged(a),
               UNCHANGED <<head, running>>
        PROVE  DownloadInv'
    BY <2>6, AgentStep
  <2> QED
    BY <2>1, <2>4, <2>5, <2>6, AgentsOnly
<1>3. BinaryInv => BinaryStaysWhole
  BY DEF DownloadInv, Fits, BinaryStaysWhole
<1> QED
  BY <1>1, <1>2, <1>3, PTL DEF UpdatesSpec
=============================================================================
