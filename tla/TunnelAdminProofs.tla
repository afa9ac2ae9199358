-------------------------- MODULE TunnelAdminProofs --------------------------
(***************************************************************************)
(* Proofs about module TunnelAdmin, for any requested ports, hostnames and *)
(* number of concurrent requests, tunnels and restarts.                    *)
(***************************************************************************)
EXTENDS TunnelAdmin, TLAPS

Working == {"probe", "insert", "rollback"}

\* A tunnel that a request made is on that request's list until the request is
\* answered with success or is cut.
OwnInv ==
    \A c \in Creators, i \in Live : rows[i].by = c =>
        \/ creator[c].at \in {"done", "cut"}
        \/ creator[c].at \in Working /\ i \in creator[c].made

\* What a passed check found stays true until it is used.
HostInv ==
    crossed \/
    /\ \A i, j \in Live : i # j /\ rows[i].host = rows[j].host => rows[i].host = NoHost
    /\ \A e \in Editors : editor[e].at = "checked" =>
          /\ editor[e].host # NoHost
          /\ ~HostnameTaken(editor[e].host, editor[e].id)
          /\ \A d \in Editors : editor[d].at = "checked" /\ editor[d].host = editor[e].host
                                => editor[d].id = editor[e].id

IInv == TypeOK /\ OwnInv /\ HostInv

CreateState ==
    [at : {"idle", "probe", "insert", "rollback", "done", "failed", "panic", "cut"},
     spec : Specs \cup {NoSpec}, next : Nat, made : SUBSET Ids]
CreatorsOK ==
    /\ creator \in [Creators -> CreateState]
    /\ \A c \in Creators : creator[c].at \in {"probe", "insert"} =>
                               creator[c].next \in 1..Len(creator[c].spec.public)

USE TunnelAdminAssumption DEF Row, Live, NoSpec, NoCreate, NoEdit, Ids, Without

\* A request that moves or ends keeps its state well formed.
LEMMA MoveOK ==
    ASSUME CreatorsOK, NEW c \in Creators, NEW x \in CreateState,
           x.at \in {"probe", "insert"} => x.next \in 1..Len(x.spec.public),
           creator' = [creator EXCEPT ![c] = x]
    PROVE  CreatorsOK'
BY DEF CreatorsOK

LEMMA EndOK ==
    ASSUME CreatorsOK, NEW c \in Creators, NEW how \in {"done", "failed", "panic"}, Ended(c, how)
    PROVE  CreatorsOK'
<1> DEFINE x == [NoCreate EXCEPT !.at = how]
<1>1. x \in CreateState /\ x.at \notin {"probe", "insert"}
  BY DEF CreateState
<1>2. creator' = [creator EXCEPT ![c] = x]
  BY DEF Ended
<1> HIDE DEF x
<1> QED
  BY <1>1, <1>2, MoveOK

LEMMA GotoOK ==
    ASSUME CreatorsOK, NEW c \in Creators, NEW at \in {"insert", "rollback"}, Goto(c, at),
           creator[c].at \in {"probe", "insert"}
    PROVE  CreatorsOK'
<1> DEFINE x == [creator[c] EXCEPT !.at = at]
<1>1. creator[c] \in CreateState
  BY DEF CreatorsOK
<1>2. x \in CreateState /\ x.next = creator[c].next /\ x.spec = creator[c].spec
  BY <1>1 DEF CreateState
<1>3. creator' = [creator EXCEPT ![c] = x]
  BY DEF Goto
<1>4. x.next \in 1..Len(x.spec.public)
  BY <1>2 DEF CreatorsOK
<1> HIDE DEF x
<1> QED
  BY <1>2, <1>3, <1>4, MoveOK

\* Every step keeps the types.
LEMMA TypeStep == TypeOK /\ [Next]_vars => TypeOK'
<1> SUFFICES ASSUME TypeOK, [Next]_vars PROVE TypeOK'
  OBVIOUS
<1> USE DEF TypeOK
<1>1. ASSUME NEW c \in Creators, NEW s \in Specs, StartCreate(c, s) PROVE TypeOK'
  <2>0. CreatorsOK
    BY DEF CreatorsOK, CreateState
  <2>1. CreatorsOK'
    <3>1. CASE Ended(c, "failed") \/ Ended(c, "panic")
      BY <2>0, <3>1, EndOK
    <3>2. CASE ~Panics(s) /\ creator' = [creator EXCEPT ![c] =
                                           [NoCreate EXCEPT !.at = "probe", !.spec = s]]
      <4> DEFINE x == [NoCreate EXCEPT !.at = "probe", !.spec = s]
      <4>1. s.public \in Seq(Nat) /\ s.public # <<>>
        BY <3>2 DEF Panics
      <4>2. 1 \in 1..Len(s.public)
        BY <4>1
      <4>3. x \in CreateState /\ x.next = 1 /\ x.spec = s
        BY DEF CreateState
      <4> HIDE DEF x
      <4> QED
        BY <2>0, <3>2, <4>2, <4>3, MoveOK DEF x
    <3> QED
      BY <1>1, <3>1, <3>2 DEF StartCreate
  <2> QED
    BY <1>1, <2>1 DEF StartCreate, CreatorsOK, CreateState
<1>2. ASSUME NEW c \in Creators, Probe(c) PROVE TypeOK'
  <2>0. CreatorsOK
    BY DEF CreatorsOK, CreateState
  <2>1. CreatorsOK'
    BY <1>2, <2>0, GotoOK DEF Probe
  <2> QED
    BY <1>2, <2>1 DEF Probe, CreatorsOK, CreateState
<1>3. ASSUME NEW c \in Creators, Insert(c) PROVE TypeOK'
  <2>0. CreatorsOK
    BY DEF CreatorsOK, CreateState
  <2> DEFINE n == created + 1
             p == creator[c].spec.public[creator[c].next]
  <2>1. CASE Goto(c, "rollback") /\ UNCHANGED <<rows, created>>
    <3>1. CreatorsOK'
      BY <1>3, <2>0, <2>1, GotoOK DEF Insert
    <3> QED
      BY <1>3, <2>1, <3>1 DEF Insert, CreatorsOK, CreateState
  <2>2. CASE /\ n \in Ids /\ created' = n
             /\ rows' = [i \in Live \cup {n} |->
                     IF i = n THEN [port |-> p, host |-> NoHost, enabled |-> TRUE, by |-> c]
                     ELSE rows[i]]
             /\ IF creator[c].next = Len(creator[c].spec.public) THEN Ended(c, "done")
                ELSE creator' = [creator EXCEPT ![c].at = "probe", ![c].next = @ + 1,
                                                ![c].made = @ \cup {n}]
    <3>1. creator[c] \in CreateState /\ creator[c].next \in 1..Len(creator[c].spec.public)
      BY <1>3, <2>0 DEF CreatorsOK, Insert
    <3>2. creator[c].spec.public \in Seq(Nat)
      BY <3>1 DEF CreateState
    <3>3. p \in Nat
      BY <3>1, <3>2
    <3>4. CreatorsOK'
      <4>1. CASE creator[c].next = Len(creator[c].spec.public)
        BY <2>0, <2>2, <4>1, EndOK
      <4>2. CASE creator[c].next # Len(creator[c].spec.public)
        <5> DEFINE k == creator[c].next + 1
                   made == creator[c].made \cup {n}
                   x == [creator[c] EXCEPT !.at = "probe", !.next = k, !.made = made]
        <5>a. k \in Nat /\ made \in SUBSET Ids
          BY <2>2, <3>1 DEF CreateState
        <5>1. x \in CreateState /\ x.next = k /\ x.spec = creator[c].spec
          <6> HIDE DEF k, made
          <6> QED
            BY <3>1, <5>a DEF CreateState
        <5>2. Len(creator[c].spec.public) \in Nat
          BY <3>2
        <5>3. x.next \in 1..Len(x.spec.public)
          BY <3>1, <4>2, <5>1, <5>2
        <5>4. creator' = [creator EXCEPT ![c] = x]
          BY <2>2, <4>2
        <5> HIDE DEF x
        <5> QED
          BY <2>0, <5>1, <5>3, <5>4, MoveOK
      <4> QED
        BY <4>1, <4>2
    <3>5. DOMAIN rows' \subseteq 1..created' /\ created' \in 0..MaxTunnels
      BY <2>2
    <3>6. \A i \in DOMAIN rows' : rows'[i] \in Row
      BY <2>2, <3>3
    <3> QED
      BY <1>3, <3>4, <3>5, <3>6 DEF Insert, CreatorsOK, CreateState
  <2> QED
    BY <1>3, <2>1, <2>2 DEF Insert
<1>4. ASSUME NEW c \in Creators, Rollback(c) PROVE TypeOK'
  <2>0. CreatorsOK
    BY DEF CreatorsOK, CreateState
  <2>1. CASE creator[c].made = {} /\ Ended(c, "failed") /\ UNCHANGED rows
    <3>1. CreatorsOK'
      BY <2>0, <2>1, EndOK
    <3> QED
      BY <1>4, <2>1, <3>1 DEF Rollback, CreatorsOK, CreateState
  <2>2. ASSUME NEW i \in creator[c].made, rows' = Without({i}),
               creator' = [creator EXCEPT ![c].made = creator[c].made \ {i}]
        PROVE  TypeOK'
    <3> DEFINE x == [creator[c] EXCEPT !.made = creator[c].made \ {i}]
    <3>1. creator[c] \in CreateState /\ creator[c].at = "rollback"
      BY <1>4, <2>0 DEF CreatorsOK, Rollback
    <3>2. x \in CreateState /\ x.at = "rollback"
      BY <3>1 DEF CreateState
    <3>3. creator' = [creator EXCEPT ![c] = x]
      BY <2>2
    <3>4. CreatorsOK'
      <4> HIDE DEF x
      <4> QED
        BY <2>0, <3>2, <3>3, MoveOK
    <3> QED
      BY <1>4, <2>2, <3>4 DEF Rollback, CreatorsOK, CreateState
  <2> QED
    BY <1>4, <2>1, <2>2 DEF Rollback
<1>5. ASSUME NEW p \in Nat, TunnelAdd(p) PROVE TypeOK'
  BY <1>5 DEF TunnelAdd
<1>6. ASSUME NEW e \in Editors, NEW id \in Live, NEW h \in Hostnames, CheckHostname(e, id, h)
      PROVE  TypeOK'
  BY <1>6 DEF CheckHostname
<1>7. ASSUME NEW e \in Editors, SaveSettings(e) PROVE TypeOK'
  BY <1>7 DEF SaveSettings
<1>8. ASSUME NEW id \in Live, ClearHostname(id) PROVE TypeOK'
  BY <1>8 DEF ClearHostname
<1>9. ASSUME NEW id \in Live, SetTunnelEnabled(id) PROVE TypeOK'
  BY <1>9 DEF SetTunnelEnabled
<1>10. ASSUME NEW id \in Live, DeleteTunnel(id) PROVE TypeOK'
  BY <1>10 DEF DeleteTunnel
<1>11. CASE DeleteClient
  BY <1>11 DEF DeleteClient
<1>12. CASE Reconcile
  BY <1>12 DEF Reconcile, EnabledPorts
<1>13. CASE Restart
  BY <1>13 DEF Restart
<1>14. CASE UNCHANGED vars
  BY <1>14 DEF vars
<1> QED
  BY <1>1, <1>2, <1>3, <1>4, <1>5, <1>6, <1>7,
     <1>8, <1>9, <1>10, <1>11, <1>12, <1>13, <1>14 DEF Next

\* No step makes a tunnel its request does not know of.
LEMMA OwnStep == TypeOK /\ OwnInv /\ [Next]_vars => OwnInv'
<1> SUFFICES ASSUME TypeOK /\ OwnInv, [Next]_vars PROVE OwnInv'
  OBVIOUS
<1> USE DEF TypeOK, OwnInv, Working
<1>1. ASSUME NEW c \in Creators, NEW s \in Specs, StartCreate(c, s) PROVE OwnInv'
  BY <1>1 DEF StartCreate, Ended
<1>2. ASSUME NEW c \in Creators, Probe(c) PROVE OwnInv'
  BY <1>2 DEF Probe, Goto
<1>3. ASSUME NEW c \in Creators, Insert(c) PROVE OwnInv'
  <2> DEFINE n == created + 1
             p == creator[c].spec.public[creator[c].next]
  <2>1. CASE Goto(c, "rollback") /\ UNCHANGED <<rows, created>>
    BY <1>3, <2>1 DEF Insert, Goto
  <2>2. CASE /\ rows' = [i \in Live \cup {n} |->
                     IF i = n THEN [port |-> p, host |-> NoHost, enabled |-> TRUE, by |-> c]
                     ELSE rows[i]]
             /\ Ended(c, "done")
    BY <1>3, <2>2 DEF Insert, Ended
  <2>3. CASE /\ rows' = [i \in Live \cup {n} |->
                     IF i = n THEN [port |-> p, host |-> NoHost, enabled |-> TRUE, by |-> c]
                     ELSE rows[i]]
             /\ creator' = [creator EXCEPT ![c].at = "probe", ![c].next = @ + 1,
                                           ![c].made = @ \cup {n}]
    BY <1>3, <2>3 DEF Insert
  <2> QED
    BY <1>3, <2>1, <2>2, <2>3 DEF Insert
<1>4. ASSUME NEW c \in Creators, Rollback(c) PROVE OwnInv'
  <2>1. CASE creator[c].made = {} /\ Ended(c, "failed") /\ UNCHANGED rows
    BY <1>4, <2>1 DEF Rollback, Ended
  <2>2. ASSUME NEW i \in creator[c].made, rows' = Without({i}),
               creator' = [creator EXCEPT ![c].made = creator[c].made \ {i}]
        PROVE  OwnInv'
    BY <1>4, <2>2 DEF Rollback
  <2> QED
    BY <1>4, <2>1, <2>2 DEF Rollback
<1>5. ASSUME NEW p \in Nat, TunnelAdd(p) PROVE OwnInv'
  BY <1>5 DEF TunnelAdd
<1>6. ASSUME NEW e \in Editors, NEW id \in Live, NEW h \in Hostnames, CheckHostname(e, id, h)
      PROVE  OwnInv'
  BY <1>6 DEF CheckHostname
<1>7. ASSUME NEW e \in Editors, SaveSettings(e) PROVE OwnInv'
  BY <1>7 DEF SaveSettings
<1>8. ASSUME NEW id \in Live, ClearHostname(id) PROVE OwnInv'
  BY <1>8 DEF ClearHostname
<1>9. ASSUME NEW id \in Live, SetTunnelEnabled(id) PROVE OwnInv'
  BY <1>9 DEF SetTunnelEnabled
<1>10. ASSUME NEW id \in Live, DeleteTunnel(id) PROVE OwnInv'
  BY <1>10 DEF DeleteTunnel
<1>11. CASE DeleteClient
  BY <1>11 DEF DeleteClient
<1>12. CASE Reconcile
  BY <1>12 DEF Reconcile, EnabledPorts
<1>13. CASE Restart
  BY <1>13 DEF Restart
<1>14. CASE UNCHANGED vars
  BY <1>14 DEF vars
<1> QED
  BY <1>1, <1>2, <1>3, <1>4, <1>5, <1>6, <1>7,
     <1>8, <1>9, <1>10, <1>11, <1>12, <1>13, <1>14 DEF Next

\* A hostname stays with one tunnel outside the race.
LEMMA HostStep == TypeOK /\ HostInv /\ [Next]_vars => HostInv'
<1> SUFFICES ASSUME TypeOK /\ HostInv, [Next]_vars PROVE HostInv'
  OBVIOUS
<1> USE DEF TypeOK, HostInv, HostnameTaken
<1>1. ASSUME NEW c \in Creators, NEW s \in Specs, StartCreate(c, s) PROVE HostInv'
  BY <1>1 DEF StartCreate
<1>2. ASSUME NEW c \in Creators, Probe(c) PROVE HostInv'
  BY <1>2 DEF Probe
<1>3. ASSUME NEW c \in Creators, Insert(c) PROVE HostInv'
  <2>1. editor' = editor /\ (crossed' <=> crossed)
    BY <1>3 DEF Insert
  <2>2. \A i \in DOMAIN rows' : rows'[i].host # NoHost => i \in Live /\ rows'[i].host = rows[i].host
    BY <1>3 DEF Insert
  <2>3. \A e \in Editors : editor[e].host # NoHost /\ ~HostnameTaken(editor[e].host, editor[e].id)
            => ~HostnameTaken(editor[e].host, editor[e].id)'
    BY <2>1, <2>2
  <2> QED
    BY <2>1, <2>2, <2>3
<1>4. ASSUME NEW c \in Creators, Rollback(c) PROVE HostInv'
  <2>1. editor' = editor /\ (crossed' <=> crossed)
    BY <1>4 DEF Rollback
  <2>2. \A i \in DOMAIN rows' : rows'[i].host # NoHost => i \in Live /\ rows'[i].host = rows[i].host
    <3>1. CASE rows' = rows
      BY <3>1
    <3>2. ASSUME NEW k, rows' = Without({k})
          PROVE  \A i \in DOMAIN rows' : rows'[i].host # NoHost
                     => i \in Live /\ rows'[i].host = rows[i].host
      BY <3>2
    <3> QED
      BY <1>4, <3>1, <3>2 DEF Rollback
  <2>3. \A e \in Editors : editor[e].host # NoHost /\ ~HostnameTaken(editor[e].host, editor[e].id)
            => ~HostnameTaken(editor[e].host, editor[e].id)'
    BY <2>1, <2>2
  <2> QED
    BY <2>1, <2>2, <2>3
<1>5. ASSUME NEW p \in Nat, TunnelAdd(p) PROVE HostInv'
  <2>1. editor' = editor /\ (crossed' <=> crossed)
    BY <1>5 DEF TunnelAdd
  <2>2. \A i \in DOMAIN rows' : rows'[i].host # NoHost => i \in Live /\ rows'[i].host = rows[i].host
    BY <1>5 DEF TunnelAdd
  <2>3. \A e \in Editors : editor[e].host # NoHost /\ ~HostnameTaken(editor[e].host, editor[e].id)
            => ~HostnameTaken(editor[e].host, editor[e].id)'
    BY <2>1, <2>2
  <2> QED
    BY <2>1, <2>2, <2>3
<1>6. ASSUME NEW e \in Editors, NEW id \in Live, NEW h \in Hostnames, CheckHostname(e, id, h)
      PROVE  HostInv'
  BY <1>6 DEF CheckHostname
<1>7. ASSUME NEW e \in Editors, SaveSettings(e) PROVE HostInv'
  BY <1>7 DEF SaveSettings
<1>8. ASSUME NEW id \in Live, ClearHostname(id) PROVE HostInv'
  <2>1. editor' = editor /\ (crossed' <=> crossed)
    BY <1>8 DEF ClearHostname
  <2>2. \A i \in DOMAIN rows' : rows'[i].host # NoHost => i \in Live /\ rows'[i].host = rows[i].host
    BY <1>8 DEF ClearHostname
  <2>3. \A e \in Editors : editor[e].host # NoHost /\ ~HostnameTaken(editor[e].host, editor[e].id)
            => ~HostnameTaken(editor[e].host, editor[e].id)'
    BY <2>1, <2>2
  <2> QED
    BY <2>1, <2>2, <2>3
<1>9. ASSUME NEW id \in Live, SetTunnelEnabled(id) PROVE HostInv'
  BY <1>9 DEF SetTunnelEnabled
<1>10. ASSUME NEW id \in Live, DeleteTunnel(id) PROVE HostInv'
  BY <1>10 DEF DeleteTunnel
<1>11. CASE DeleteClient
  BY <1>11 DEF DeleteClient
<1>12. CASE Reconcile
  BY <1>12 DEF Reconcile, EnabledPorts
<1>13. CASE Restart
  BY <1>13 DEF Restart
<1>14. CASE UNCHANGED vars
  BY <1>14 DEF vars
<1> QED
  BY <1>1, <1>2, <1>3, <1>4, <1>5, <1>6, <1>7,
     <1>8, <1>9, <1>10, <1>11, <1>12, <1>13, <1>14 DEF Next

\* The inductive invariant.
LEMMA Invariance == Spec => []IInv
<1>1. Init => IInv
  <2> SUFFICES ASSUME Init PROVE IInv
    OBVIOUS
  <2>1. TypeOK
    <3>1. Live = {} /\ 0 \in 0..MaxTunnels
      BY DEF Init
    <3>2. creator \in [Creators -> CreateState] /\ \A c \in Creators : creator[c].at = "idle"
      BY DEF Init, CreateState
    <3> QED
      BY <3>1, <3>2 DEF Init, TypeOK, CreateState
  <2>2. OwnInv /\ HostInv
    BY DEF Init, OwnInv, HostInv
  <2> QED
    BY <2>1, <2>2 DEF IInv
<1>2. IInv /\ [Next]_vars => IInv'
  BY TypeStep, OwnStep, HostStep DEF IInv
<1> QED
  BY <1>1, <1>2, PTL DEF Spec

\* Every variable of the administration keeps its type.
THEOREM TypeCorrect == Spec => []TypeOK
<1>1. IInv => TypeOK
  BY DEF IInv
<1> QED
  BY Invariance, <1>1, PTL

\* A request to create tunnels that was answered with an error has left none
\* behind (tunnels.go:188-219).
THEOREM RollbackIsComplete == Spec => []FailedRangeLeavesNothing
<1>1. IInv => FailedRangeLeavesNothing
  BY DEF IInv, OwnInv, Working, FailedRangeLeavesNothing
<1> QED
  BY Invariance, <1>1, PTL

\* Two tunnels have one hostname only when their settings were checked at the
\* same time (tunnels.go:296-303).
THEOREM HostnamesStayUnique == Spec => []HostnamesUnique
<1>1. IInv => HostnamesUnique
  BY DEF IInv, HostInv, HostnamesUnique
<1> QED
  BY Invariance, <1>1, PTL
=============================================================================
