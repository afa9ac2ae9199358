---------------------------- MODULE StartupProofs ----------------------------
(***************************************************************************)
(* Theorems about Startup and, through it, Migration, for any number of    *)
(* processes, tunnels, domains and requests: what is stored survives       *)
(* colliding and killed migrations, a server that serves is completely     *)
(* migrated, pinned fingerprints stay valid, and a quiet panel tells the   *)
(* truth about its domain.                                                 *)
(***************************************************************************)
EXTENDS Startup, TLAPS

\* What statements make of a database is a database.
LEMMA DatabaseUpdates ==
    /\ Fresh \in Database
    /\ \A d \in Database :
        /\ [d EXCEPT !.tables = 1] \in Database
        /\ [d EXCEPT !.tables = 2, !.columns = {1}] \in Database
        /\ \A c \in Columns : [d EXCEPT !.columns = @ \cup {c}] \in Database
        /\ [d EXCEPT !.notNull = FALSE] \in Database
        /\ \A S \in SUBSET Rows : [d EXCEPT !.samples = @ \ S] \in Database
        /\ \A r \in Rows :
            /\ [d EXCEPT !.tunnels = @ \cup {r}, !.samples = @ \cup {r}] \in Database
            /\ [d EXCEPT !.tunnels = @ \ {r}, !.samples = @ \ {r}] \in Database
            /\ [d EXCEPT !.tunnels = @ \ {r}, !.samples = @] \in Database
        /\ d.tunnels \in SUBSET Rows
<1> USE DEF Database, Columns
<1>1. Fresh \in Database
  BY DEF Fresh
<1> SUFFICES ASSUME NEW d \in Database
             PROVE  /\ [d EXCEPT !.tables = 1] \in Database
                    /\ [d EXCEPT !.tables = 2, !.columns = {1}] \in Database
                    /\ \A c \in Columns : [d EXCEPT !.columns = @ \cup {c}] \in Database
                    /\ [d EXCEPT !.notNull = FALSE] \in Database
                    /\ \A S \in SUBSET Rows : [d EXCEPT !.samples = @ \ S] \in Database
                    /\ \A r \in Rows :
                        /\ [d EXCEPT !.tunnels = @ \cup {r}, !.samples = @ \cup {r}] \in Database
                        /\ [d EXCEPT !.tunnels = @ \ {r}, !.samples = @ \ {r}] \in Database
                        /\ [d EXCEPT !.tunnels = @ \ {r}, !.samples = @] \in Database
                    /\ d.tunnels \in SUBSET Rows
  BY <1>1
<1>0. 1 \in 0..2 /\ 2 \in 0..2 /\ {1} \in SUBSET (1..4)
  OBVIOUS
<1>2. [d EXCEPT !.tables = 1] \in Database /\ [d EXCEPT !.notNull = FALSE] \in Database
  BY <1>0
<1>3. [d EXCEPT !.tables = 2, !.columns = {1}] \in Database
  BY <1>0
<1>4. ASSUME NEW c \in Columns PROVE [d EXCEPT !.columns = @ \cup {c}] \in Database
  BY <1>4
<1>5. ASSUME NEW S \in SUBSET Rows PROVE [d EXCEPT !.samples = @ \ S] \in Database
  BY <1>5
<1>6. ASSUME NEW r \in Rows
      PROVE  /\ [d EXCEPT !.tunnels = @ \cup {r}, !.samples = @ \cup {r}] \in Database
             /\ [d EXCEPT !.tunnels = @ \ {r}, !.samples = @ \ {r}] \in Database
             /\ [d EXCEPT !.tunnels = @ \ {r}, !.samples = @] \in Database
  BY <1>6
<1> QED
  BY <1>2, <1>3, <1>4, <1>5, <1>6

\* Opening the database keeps the types of everything it touches.
LEMMA OpenType ==
    ASSUME MigrationTypeOK, at \in [Procs -> Places], NEW p \in Procs, Open(p)
    PROVE  MigrationTypeOK' /\ at' \in [Procs -> Places]
<1> USE DEF MigrationTypeOK, Goto, Gone, Places, OpenSteps, schemaVars
<1>1. CASE OpenFile(p)
  BY <1>1 DEF OpenFile
<1>2. CASE ApplySchema(p)
  <2>1. db' \in Database
    BY <1>2, DatabaseUpdates DEF ApplySchema
  <2> QED
    BY <1>2, <2>1 DEF ApplySchema
<1>3. CASE HasColumn(p)
  BY <1>3 DEF HasColumn, Columns
<1>4. CASE AddColumn(p)
  <2>0. column[p] \in Columns /\ db \in Database
    BY <1>4 DEF AddColumn
  <2>1. db' \in Database
    <3>1. [db EXCEPT !.columns = @ \cup {column[p]}] \in Database
      BY <2>0, DatabaseUpdates
    <3> QED
      BY <1>4, <2>0, <3>1 DEF AddColumn
  <2> QED
    BY <1>4, <2>1 DEF AddColumn
<1>5. CASE ColumnNotNull(p)
  BY <1>5 DEF ColumnNotNull
<1>6. CASE ForeignKeysOff(p)
  BY <1>6 DEF ForeignKeysOff
<1>7. CASE CopyRows(p)
  BY <1>7 DEF CopyRows
<1>8. CASE DropOld(p)
  <2>1. work' \in Database
    BY <1>8, DatabaseUpdates DEF DropOld
  <2> QED
    BY <1>8, <2>1 DEF DropOld
<1>9. CASE RenameNew(p)
  <2>1. work' \in Database
    BY <1>9, DatabaseUpdates DEF RenameNew
  <2> QED
    BY <1>9, <2>1 DEF RenameNew
<1>10. CASE Commit(p)
  BY <1>10, DatabaseUpdates DEF Commit
<1>11. CASE ForeignKeysOn(p)
  BY <1>11 DEF ForeignKeysOn
<1>12. CASE Busy(p)
  BY <1>12 DEF Busy
<1> QED
  BY <1>1, <1>2, <1>3, <1>4, <1>5, <1>6, <1>7, <1>8, <1>9, <1>10, <1>11, <1>12 DEF Open

\* A step that only moves a process keeps the types of the database.
LEMMA MoveType ==
    ASSUME MigrationTypeOK, at \in [Procs -> Places], NEW p \in Procs,
           NEW w \in Places \ {"alter"}, Goto(p, w), UNCHANGED schemaVars
    PROVE  MigrationTypeOK' /\ at' \in [Procs -> Places]
  BY DEF MigrationTypeOK, Goto, schemaVars

\* A new key pair, and the file its certificate goes to.
LEMMA GenerateType ==
    ASSUME TypeOK, NEW p \in Procs, NEW pair \in {CA, Leaf}, Generate(p, pair),
           UNCHANGED <<schemaVars, file, served, pins, interrupted>>
    PROVE  MigrationTypeOK' /\ at' \in [Procs -> Places] /\ IdentityTypeOK'
<1>1. MigrationTypeOK' /\ at' \in [Procs -> Places]
  BY MoveType DEF Generate, Places, TypeOK
<1>2. pair.cert \in Files
  BY DEF CA, Leaf, Files
<1>3. writing' = [writing EXCEPT ![p] = [name |-> pair.cert, pair |-> pairs + 1]]
  BY DEF Generate
<1>4. writing' \in [Procs -> [name : Files, pair : Nat]]
  BY <1>2, <1>3 DEF TypeOK, IdentityTypeOK
<1>5. pairs' \in Nat /\ collided' \in BOOLEAN
  BY DEF Generate, TypeOK, IdentityTypeOK, Generating
<1> QED
  BY <1>1, <1>4, <1>5 DEF TypeOK, IdentityTypeOK

\* The identity's files keep their types through every step of EnsureServerCert.
LEMMA IdentityType ==
    ASSUME TypeOK, NEW p \in Procs, EnsureServerCert(p)
    PROVE  MigrationTypeOK' /\ at' \in [Procs -> Places] /\ IdentityTypeOK'
<1> DEFINE Goal == MigrationTypeOK' /\ at' \in [Procs -> Places] /\ IdentityTypeOK'
<1> USE DEF TypeOK
<1>1. CASE EnsureCA(p)
  <2>1. CASE Incomplete(CA)
    BY <1>1, <2>1, GenerateType DEF EnsureCA
  <2>2. CASE ~Incomplete(CA)
    BY <1>1, <2>2, MoveType DEF EnsureCA, Places, IdentityTypeOK
  <2> QED
    BY <2>1, <2>2
<1>2. CASE EnsureLeaf(p)
  <2>1. CASE Incomplete(Leaf) /\ Matches(CA)
    BY <1>2, <2>1, GenerateType DEF EnsureLeaf
  <2>2. CASE ~(Incomplete(Leaf) /\ Matches(CA))
    <3>1. \E w \in {"off", "done", "load"} : Goto(p, w)
      BY <1>2, <2>2 DEF EnsureLeaf, Gone
    <3> QED
      BY <1>2, <2>2, <3>1, MoveType DEF EnsureLeaf, Places, IdentityTypeOK
  <2> QED
    BY <2>1, <2>2
<1>3. CASE CreateFile(p)
  <2>1. MigrationTypeOK' /\ at' \in [Procs -> Places]
    BY <1>3, MoveType DEF CreateFile, Places, OpenSteps
  <2> QED
    BY <1>3, <2>1 DEF CreateFile, Torn, IdentityTypeOK
<1>4. CASE FillFile(p)
  <2>1. writing[p].name \in Files /\ writing[p].pair \in Nat
    BY DEF IdentityTypeOK
  <2>2. file' \in [Files -> [state : {"missing", "torn", "whole"}, pair : Nat]]
    BY <1>4, <2>1 DEF FillFile, Whole, IdentityTypeOK
  <2>3. KeyOf(writing[p].name) \in Files
    BY DEF KeyOf, CA, Leaf, Files
  <2>4. writing' \in [Procs -> [name : Files, pair : Nat]]
    <3>1. [writing EXCEPT ![p].name = KeyOf(writing[p].name)]
            \in [Procs -> [name : Files, pair : Nat]]
      BY <2>3 DEF IdentityTypeOK
    <3> QED
      BY <1>4, <3>1 DEF FillFile, IdentityTypeOK
  <2>5. \E w \in {"leaf", "load", "create"} : Goto(p, w)
    BY <1>4 DEF FillFile
  <2>6. MigrationTypeOK' /\ at' \in [Procs -> Places]
    BY <1>4, MoveType, <2>5 DEF FillFile, Places, OpenSteps
  <2> QED
    BY <1>4, <2>2, <2>4, <2>6 DEF FillFile, IdentityTypeOK
<1>5. CASE CommandLoads(p)
  <2>1. MigrationTypeOK' /\ at' \in [Procs -> Places]
    BY <1>5, MoveType DEF CommandLoads, Places, OpenSteps
  <2> QED
    BY <1>5, <2>1 DEF CommandLoads, IdentityTypeOK, Leaf, Files
<1>6. CASE p = Server /\ ServerLoads
  <2>1. \E w \in {"off", "up"} : Goto(p, w)
    BY <1>6 DEF ServerLoads
  <2>2. MigrationTypeOK' /\ at' \in [Procs -> Places]
    BY <1>6, <2>1, MoveType DEF ServerLoads, Places, OpenSteps
  <2>3. served' \in Nat
    BY <1>6 DEF ServerLoads, Leaf, Files, IdentityTypeOK
  <2> QED
    BY <1>6, <2>2, <2>3 DEF ServerLoads, IdentityTypeOK
<1> QED
  BY <1>1, <1>2, <1>3, <1>4, <1>5, <1>6 DEF EnsureServerCert

\* Domains and certificate requests keep their types.
LEMMA PanelType ==
    ASSUME TypeOK, [Next]_vars
    PROVE  PanelTypeOK'
<1> USE DEF TypeOK
<1>1. ASSUME UNCHANGED panel PROVE PanelTypeOK'
  BY <1>1 DEF PanelTypeOK, panel
<1>2. CASE ServerLoads
  <2>1. CASE UNCHANGED panel
    BY <1>1, <2>1
  <2>2. CASE Matches(Leaf) /\ setting = None
    BY <1>2, <2>2 DEF ServerLoads, PanelTypeOK
  <2>3. CASE Matches(Leaf) /\ setting # None
    <3>1. Boot \in Fetchers /\ setting \in Domains
      BY <2>3 DEF Fetchers, PanelTypeOK
    <3>2. fetch' = [fetch EXCEPT ![Boot] = [at |-> "policy", d |-> setting]]
      BY <1>2, <2>3 DEF ServerLoads
    <3>3. fetch' \in [Fetchers -> {NoFetch} \cup [at : {"policy", "issue"}, d : Domains]]
      BY <3>1, <3>2 DEF PanelTypeOK
    <3> QED
      BY <1>2, <2>3, <3>3 DEF ServerLoads, PanelTypeOK
  <2> QED
    BY <1>2, <2>1, <2>2, <2>3 DEF ServerLoads
<1>3. ASSUME NEW q \in Requests, NEW d \in Domains \cup {None}, SetDomainRow(q, d)
      PROVE  PanelTypeOK'
  BY <1>3 DEF SetDomainRow, PanelTypeOK, InProgress
<1>4. ASSUME NEW q \in Requests, SetDomainMemory(q) PROVE PanelTypeOK'
  BY <1>4 DEF SetDomainMemory, PanelTypeOK
<1>5. ASSUME NEW q \in Requests, SetDomainState(q) PROVE PanelTypeOK'
  <2>1. req' \in [Requests -> [at : {"new", "memory", "state", "done"}, d : Domains \cup {None}]]
    BY <1>5 DEF SetDomainState, Finished, PanelTypeOK
  <2>2. req[q].d # None => req[q].d \in Domains
    BY DEF PanelTypeOK
  <2>3. fetch' \in [Fetchers -> {NoFetch} \cup [at : {"policy", "issue"}, d : Domains]]
    BY <1>5, <2>2 DEF SetDomainState, Fetchers, PanelTypeOK
  <2> QED
    BY <1>5, <2>1, <2>3 DEF SetDomainState, PanelTypeOK
<1>6. ASSUME NEW f \in Fetchers, fetch[f].at # "idle"
      PROVE  /\ fetch[f].d \in Domains
             /\ [fetch EXCEPT ![f] = NoFetch]
                  \in [Fetchers -> {NoFetch} \cup [at : {"policy", "issue"}, d : Domains]]
             /\ [fetch EXCEPT ![f].at = "issue"]
                  \in [Fetchers -> {NoFetch} \cup [at : {"policy", "issue"}, d : Domains]]
  <2>1. fetch[f] \in [at : {"policy", "issue"}, d : Domains]
    <3>1. fetch[f] \in {NoFetch} \cup [at : {"policy", "issue"}, d : Domains]
      BY DEF PanelTypeOK
    <3>2. NoFetch.at = "idle"
      BY DEF NoFetch
    <3> QED
      BY <1>6, <3>1, <3>2
  <2> QED
    BY <2>1 DEF PanelTypeOK
<1>7. ASSUME NEW f \in Fetchers, FetchPolicy(f) PROVE PanelTypeOK'
  <2>1. fetch[f].at # "idle"
    BY <1>7 DEF FetchPolicy
  <2>2. fetch' \in [Fetchers -> {NoFetch} \cup [at : {"policy", "issue"}, d : Domains]]
    BY <1>7, <2>1, <1>6 DEF FetchPolicy, Report
  <2>3. certState' \in {"", "pending", "ready", "error"} /\ overtaken' \in BOOLEAN
    BY <1>7 DEF FetchPolicy, Report, PanelTypeOK
  <2> QED
    BY <1>7, <2>2, <2>3 DEF FetchPolicy, PanelTypeOK
<1>8. ASSUME NEW f \in Fetchers, NEW outcome \in {"ready", "error"}, FetchIssued(f, outcome)
      PROVE  PanelTypeOK'
  <2>1. fetch[f].at # "idle"
    BY <1>8 DEF FetchIssued
  <2>2. fetch' \in [Fetchers -> {NoFetch} \cup [at : {"policy", "issue"}, d : Domains]]
    BY <1>8, <2>1, <1>6 DEF FetchIssued, Report
  <2>3. cached' \in SUBSET Domains
    BY <1>8, <2>1, <1>6 DEF FetchIssued, PanelTypeOK
  <2> QED
    BY <1>8, <2>2, <2>3 DEF FetchIssued, Report, PanelTypeOK
<1>9. ASSUME ForgetPanel, UNCHANGED <<setting, cached>> PROVE PanelTypeOK'
  <2>1. req' \in [Requests -> [at : {"new", "memory", "state", "done"}, d : Domains \cup {None}]]
    BY <1>9 DEF ForgetPanel, Finished, PanelTypeOK
  <2> QED
    BY <1>9, <2>1 DEF ForgetPanel, PanelTypeOK
<1>10. ASSUME NEW p \in Procs, Crash(p) PROVE PanelTypeOK'
  BY <1>10, <1>1, <1>9 DEF Crash, panel
<1>11. ASSUME NEW p \in Procs, EnsureServerCert(p) PROVE PanelTypeOK'
  BY <1>11, <1>1, <1>2
  DEF EnsureServerCert, EnsureCA, EnsureLeaf, CreateFile, FillFile, CommandLoads
<1>12. ASSUME NEW p \in Procs, StartIdentity(p) PROVE PanelTypeOK'
  BY <1>12, <1>1 DEF StartIdentity
<1>13. ASSUME NEW p \in Procs, ListCommand(p) PROVE PanelTypeOK'
  BY <1>13, <1>1 DEF ListCommand
<1>14. CASE StopOld \/ EnrollMachine \/ UNCHANGED vars
  BY <1>14, <1>1 DEF StopOld, EnrollMachine, vars
<1> QED
  BY <1>1, <1>3, <1>4, <1>5, <1>7, <1>8, <1>10, <1>11, <1>12, <1>13, <1>14
  DEF Next, Process, SetDomain, FetchCert

\* Every variable keeps its type, for any processes, tunnels, domains and requests.
THEOREM TypeCorrect == Spec => []TypeOK
<1>1. Init => TypeOK
  <2> SUFFICES ASSUME Init PROVE TypeOK
    OBVIOUS
  <2>1. /\ at \in [Procs -> Places] /\ db \in Database
        /\ \A p \in Procs : at[p] # "alter"
    <3>1. CASE db = Fresh /\ at = [p \in Procs |-> "off"]
      BY <3>1, DatabaseUpdates DEF Places
    <3>2. ASSUME NEW n \in 0..4, NEW R \in SUBSET Rows, db = Older(n, R),
                 at = [p \in Procs |-> IF p = Server THEN "old" ELSE "off"]
          PROVE  /\ at \in [Procs -> Places] /\ db \in Database
                 /\ \A p \in Procs : at[p] # "alter"
      <4>1. 2 \in 0..2 /\ 1..n \in SUBSET (1..4)
        BY <3>2
      <4> QED
        BY <3>2, <4>1 DEF Places, Older, Database, Columns
    <3> QED
      BY <3>1, <3>2 DEF Init, MigrationInit
  <2>2. MigrationTypeOK
    <3>1. written \in [tunnels : SUBSET Rows, samples : SUBSET Rows]
      BY <2>1 DEF Init, MigrationInit, Database
    <3>2. Fresh \in Database
      BY DatabaseUpdates
    <3>3. /\ column = [p \in Procs |-> 1] /\ work = Fresh /\ lock = Nobody
          /\ fk = [p \in Procs |-> TRUE] /\ crashes = 0
      BY DEF Init, MigrationInit
    <3>4. column \in [Procs -> 1..5] /\ fk \in [Procs -> BOOLEAN]
      BY <3>3
    <3> QED
      BY <2>1, <3>1, <3>2, <3>3, <3>4 DEF MigrationTypeOK
  <2>3. IdentityTypeOK
    BY DEF Init, IdentityTypeOK, Files, Missing
  <2>4. PanelTypeOK
    BY DEF Init, PanelTypeOK
  <2> QED
    BY <2>1, <2>2, <2>3, <2>4 DEF TypeOK
<1>2. TypeOK /\ [Next]_vars => TypeOK'
  <2> SUFFICES ASSUME TypeOK, [Next]_vars
               PROVE  MigrationTypeOK' /\ at' \in [Procs -> Places] /\ IdentityTypeOK'
    BY PanelType DEF TypeOK
  <2> DEFINE Goal == MigrationTypeOK' /\ at' \in [Procs -> Places] /\ IdentityTypeOK'
  <2> USE DEF TypeOK
  <2>i. ASSUME UNCHANGED identity PROVE IdentityTypeOK'
    BY <2>i DEF identity, IdentityTypeOK
  <2>s. ASSUME UNCHANGED <<at, schemaVars>> PROVE MigrationTypeOK' /\ at' \in [Procs -> Places]
    BY <2>s DEF schemaVars, MigrationTypeOK
  <2>1. ASSUME NEW p \in Procs, Open(p), UNCHANGED identity PROVE Goal
    BY <2>1, <2>i, OpenType
  <2>2. ASSUME NEW p \in Procs, EnsureServerCert(p) PROVE Goal
    BY <2>2, IdentityType
  <2>3. ASSUME NEW p \in Procs, StartIdentity(p) \/ ListCommand(p) PROVE Goal
    <3>1. \E w \in {"ca", "done"} : Goto(p, w)
      BY <2>3 DEF StartIdentity, ListCommand
    <3> QED
      BY <2>3, <2>i, <3>1, MoveType DEF StartIdentity, ListCommand, Places
  <2>4. CASE StopOld
    BY <2>4, <2>i, MoveType DEF StopOld, Procs, Places, OpenSteps
  <2>5. CASE EnrollMachine
    BY <2>5, <2>s DEF EnrollMachine, IdentityTypeOK
  <2>6. ASSUME NEW q \in Requests, NEW d \in Domains \cup {None}, SetDomainRow(q, d) PROVE Goal
    BY <2>6, <2>i, <2>s DEF SetDomainRow
  <2>7. ASSUME NEW q \in Requests, SetDomain(q) PROVE Goal
    BY <2>7, <2>i, <2>s DEF SetDomain, SetDomainMemory, SetDomainState
  <2>8. ASSUME NEW f \in Fetchers, FetchCert(f) PROVE Goal
    BY <2>8, <2>i, <2>s DEF FetchCert, FetchPolicy, FetchIssued
  <2>9. ASSUME NEW p \in Procs, Crash(p) PROVE Goal
    <3>1. at' \in [Procs -> Places] /\ \A o \in Procs : at'[o] = "alter" => at[o] = "alter"
      BY <2>9 DEF Crash, Goto, Gone, Places
    <3>2. work' \in Database /\ lock' \in Procs \cup {Nobody} /\ crashes' \in Nat
      <4>1. /\ crashes' = crashes + 1
            /\ lock' = IF lock = p THEN Nobody ELSE lock
            /\ work' = IF lock = p THEN Fresh ELSE work
        BY <2>9 DEF Crash
      <4>2. Fresh \in Database
        BY DatabaseUpdates
      <4> QED
        BY <4>1, <4>2 DEF MigrationTypeOK
    <3>3. UNCHANGED <<column, db, fk, written>>
      BY <2>9 DEF Crash
    <3>4. MigrationTypeOK'
      BY <3>1, <3>2, <3>3 DEF MigrationTypeOK
    <3>5. served' \in Nat /\ interrupted' \in BOOLEAN
      <4>1. served' = 0 \/ served' = served
        BY <2>9 DEF Crash, ForgetPanel
      <4>2. interrupted' = (interrupted \/ Generating(p))
        BY <2>9 DEF Crash
      <4> QED
        BY <4>1, <4>2 DEF Generating, IdentityTypeOK
    <3> QED
      BY <2>9, <3>1, <3>4, <3>5 DEF Crash, IdentityTypeOK
  <2>10. ASSUME NEW p \in Procs, StoreTunnel(p) \/ DeleteTunnel(p), UNCHANGED identity PROVE Goal
    <3>1. at' \in [Procs -> Places] /\ \A o \in Procs : at'[o] = "alter" => at[o] = "alter"
      BY <2>10 DEF StoreTunnel, DeleteTunnel, Places
    <3>2. UNCHANGED <<column, work, lock, fk, crashes>>
      BY <2>10 DEF StoreTunnel, DeleteTunnel
    <3>3. db \in Database /\ written \in [tunnels : SUBSET Rows, samples : SUBSET Rows]
      BY DEF MigrationTypeOK
    <3>4. CASE StoreTunnel(p)
      <4>1. PICK r \in Rows \ (db.tunnels \cup db.samples) :
                /\ db' = [db EXCEPT !.tunnels = @ \cup {r}, !.samples = @ \cup {r}]
                /\ written' = [tunnels |-> written.tunnels \cup {r},
                               samples |-> written.samples \cup {r}]
        BY <3>4 DEF StoreTunnel
      <4>2. db' \in Database /\ written' \in [tunnels : SUBSET Rows, samples : SUBSET Rows]
        BY <3>3, <4>1, DatabaseUpdates
      <4> QED
        BY <2>10, <2>i, <3>1, <3>2, <4>2 DEF MigrationTypeOK
    <3>5. CASE DeleteTunnel(p)
      <4>1. PICK r \in db.tunnels :
                /\ db' = [db EXCEPT !.tunnels = @ \ {r}, !.samples = IF fk[p] THEN @ \ {r} ELSE @]
                /\ written' = [tunnels |-> written.tunnels \ {r},
                               samples |-> written.samples \ {r}]
        BY <3>5 DEF DeleteTunnel
      <4>2. r \in Rows
        BY <3>3, <4>1, DatabaseUpdates
      <4>3. db' \in Database
        BY <3>3, <4>1, <4>2, DatabaseUpdates
      <4>4. written' \in [tunnels : SUBSET Rows, samples : SUBSET Rows]
        BY <3>3, <4>1
      <4> QED
        BY <2>10, <2>i, <3>1, <3>2, <4>3, <4>4 DEF MigrationTypeOK
    <3> QED
      BY <2>10, <3>4, <3>5
  <2>11. CASE UNCHANGED vars
    BY <2>11, <2>i, <2>s DEF vars
  <2> QED
    BY <2>1, <2>2, <2>3, <2>4, <2>5, <2>6, <2>7, <2>8, <2>9, <2>10, <2>11 DEF Next, Process
<1> QED
  BY <1>1, <1>2, PTL DEF Spec

-----------------------------------------------------------------------------
(* What is stored, and what a server that serves finds.                     *)

InTx     == {"drop", "rename", "commit"}
Unkeyed  == InTx \cup {"copy", "fkon"}
Serving  == {"opened", "ca", "leaf", "create", "fill", "load", "up"}
Past     == {"notnull", "fkoff"} \cup Unkeyed \cup Serving

\* What a process's position says of the lock, of its connection's foreign keys
\* and of the schema.
ProcInv(o) ==
    /\ at[o] \in InTx <=> lock = o
    /\ at[o] = "commit" => ~work.notNull
    /\ at[o] = "schema" => column[o] = 1
    /\ at[o] \in Unkeyed => ~fk[o]
    /\ at[o] \notin Unkeyed \cup {"off", "done"} => fk[o]
    /\ at[o] \in {"has", "alter"} =>
           db.tables = 2 /\ \A c \in Columns : c < column[o] => c \in db.columns
    /\ at[o] \in Past => db.tables = 2 /\ Columns \subseteq db.columns
    /\ at[o] \in Serving \cup {"fkon"} => ~db.notNull

\* The transaction's copy has the rows and the columns that are committed.
Copied ==
    lock # Nobody => /\ work.tunnels = db.tunnels /\ work.samples = db.samples
                     /\ work.tables = db.tables /\ work.columns = db.columns

\* The inductive invariant behind DataKept and ReadyWhenUp.
MigrationInv == (\A o \in Procs : ProcInv(o)) /\ Copied /\ DataKept

\* A process that has the database open, or stops, leaves the invariant alone.
LEMMA MoveInv ==
    ASSUME TypeOK, MigrationInv, NEW p \in Procs, NEW w \in Serving \cup {"off", "done"},
           at[p] \in Serving \/ (at[p] = "old" /\ w = "off"), Goto(p, w), UNCHANGED schemaVars
    PROVE  MigrationInv'
<1>1. at' = [at EXCEPT ![p] = w] /\ at \in [Procs -> Places]
  BY DEF Goto, TypeOK
<1>2. ASSUME NEW o \in Procs PROVE ProcInv(o)'
  <2>1. ProcInv(o) /\ UNCHANGED schemaVars
    BY DEF MigrationInv
  <2>2. CASE o = p
    BY <1>1, <2>1, <2>2 DEF ProcInv, InTx, Unkeyed, Serving, Past, schemaVars
  <2>3. CASE o # p
    BY <1>1, <2>1, <2>3 DEF ProcInv, schemaVars
  <2> QED
    BY <2>2, <2>3
<1> QED
  BY <1>2 DEF MigrationInv, Copied, DataKept, schemaVars

\* So does a step that touches neither the database nor a position.
LEMMA StillInv ==
    ASSUME MigrationInv, UNCHANGED <<at, schemaVars>>
    PROVE  MigrationInv'
  BY DEF MigrationInv, ProcInv, Copied, DataKept, schemaVars

\* No statement of Open breaks it.
LEMMA OpenInv ==
    ASSUME TypeOK, MigrationInv, NEW p \in Procs, Open(p)
    PROVE  MigrationInv'
<1> USE DEF Goto
<1>t. /\ at \in [Procs -> Places] /\ column \in [Procs -> 1..5] /\ fk \in [Procs -> BOOLEAN]
      /\ db \in Database /\ work \in Database /\ Nobody \notin Procs
  BY ProcsAssumption DEF TypeOK, MigrationTypeOK
<1>i. (\A o \in Procs : ProcInv(o)) /\ Copied /\ DataKept
  BY DEF MigrationInv
<1> DEFINE Others == \A o \in Procs \ {p} : ProcInv(o)'
<1>q. ASSUME Others, ProcInv(p)', Copied', DataKept' PROVE MigrationInv'
  BY <1>q DEF MigrationInv
<1>1. CASE OpenFile(p)
  <2>1. Others
    BY <1>1, <1>t, <1>i DEF OpenFile, ProcInv
  <2>2. ProcInv(p)'
    BY <1>1, <1>t, <1>i DEF OpenFile, ProcInv, InTx, Unkeyed, Serving, Past
  <2> QED
    BY <1>1, <1>i, <1>q, <2>1, <2>2 DEF OpenFile, Copied, DataKept
<1>2. CASE ApplySchema(p)
  <2>1. CASE db.tables = 2
    <3>1. Others
      BY <1>2, <2>1, <1>t, <1>i DEF ApplySchema, ProcInv
    <3>2. ProcInv(p)'
      BY <1>2, <2>1, <1>t, <1>i
      DEF ApplySchema, ProcInv, InTx, Unkeyed, Serving, Past, Columns
    <3> QED
      BY <1>2, <2>1, <1>i, <1>q, <3>1, <3>2 DEF ApplySchema, Copied, DataKept
  <2>2. CASE db.tables # 2
    <3>1. /\ lock = Nobody /\ lock' = lock /\ work' = work /\ fk' = fk /\ at' = at
          /\ written' = written /\ column' = column
      BY <1>2, <2>2 DEF ApplySchema
    <3>2. db'.tunnels = db.tunnels /\ db'.samples = db.samples /\ db'.notNull = db.notNull
      BY <1>2, <2>2, <1>t DEF ApplySchema, Database
    <3>3. \A o \in Procs : at[o] \notin {"has", "alter"} \cup Past
      BY <2>2, <1>i DEF ProcInv
    <3>4. \A o \in Procs : ProcInv(o)'
      BY <1>i, <3>1, <3>2, <3>3 DEF ProcInv, Past
    <3> QED
      BY <1>i, <3>1, <3>2, <3>4 DEF MigrationInv, Copied, DataKept
  <2> QED
    BY <2>1, <2>2
<1>3. CASE HasColumn(p)
  <2>1. Others
    BY <1>3, <1>t, <1>i DEF HasColumn, ProcInv
  <2>2. ProcInv(p)'
    <3>1. /\ db' = db /\ lock' = lock /\ work' = work /\ fk' = fk
          /\ at[p] = "has" /\ at'[p] \in {"has", "alter", "notnull"}
      BY <1>3, <1>t DEF HasColumn
    <3>2. at'[p] \in {"has", "alter"} => \A c \in Columns : c < column'[p] => c \in db.columns
      BY <1>3, <1>t, <1>i, <3>1 DEF HasColumn, ProcInv, Columns
    <3>3. at'[p] = "notnull" => Columns \subseteq db.columns
      BY <1>3, <1>t, <1>i, <3>1 DEF HasColumn, ProcInv, Columns
    <3> QED
      BY <1>i, <3>1, <3>2, <3>3 DEF ProcInv, InTx, Unkeyed, Serving, Past
  <2> QED
    BY <1>3, <1>i, <1>q, <2>1, <2>2 DEF HasColumn, Copied, DataKept
<1>4. CASE AddColumn(p)
  <2>1. CASE column[p] \in db.columns
    <3>1. Others
      BY <1>4, <2>1, <1>t, <1>i DEF AddColumn, ProcInv
    <3>2. ProcInv(p)'
      BY <1>4, <2>1, <1>t, <1>i DEF AddColumn, ProcInv, Gone, InTx, Unkeyed, Serving, Past
    <3> QED
      BY <1>4, <2>1, <1>i, <1>q, <3>1, <3>2 DEF AddColumn, Copied, DataKept
  <2>2. CASE column[p] \notin db.columns
    <3>1. /\ lock = Nobody /\ lock' = lock /\ work' = work /\ fk' = fk /\ column' = column
          /\ at' = [at EXCEPT ![p] = "has"] /\ at[p] = "alter" /\ written' = written
          /\ db' = [db EXCEPT !.columns = @ \cup {column[p]}]
      BY <1>4, <2>2 DEF AddColumn
    <3>2. /\ db'.tables = db.tables /\ db'.notNull = db.notNull
          /\ db'.tunnels = db.tunnels /\ db'.samples = db.samples
          /\ db'.columns = db.columns \cup {column[p]}
      BY <1>t, <3>1 DEF Database
    <3>3. Others
      BY <1>t, <1>i, <3>1, <3>2 DEF ProcInv
    <3>4. ProcInv(p)'
      BY <1>t, <1>i, <3>1, <3>2 DEF ProcInv, InTx, Unkeyed, Serving, Past
    <3> QED
      BY <1>i, <1>q, <3>1, <3>2, <3>3, <3>4 DEF Copied, DataKept
  <2> QED
    BY <2>1, <2>2
<1>5. CASE ColumnNotNull(p)
  <2>1. Others
    BY <1>5, <1>t, <1>i DEF ColumnNotNull, ProcInv, schemaVars
  <2>2. ProcInv(p)'
    BY <1>5, <1>t, <1>i
    DEF ColumnNotNull, ProcInv, schemaVars, InTx, Unkeyed, Serving, Past
  <2> QED
    BY <1>5, <1>i, <1>q, <2>1, <2>2 DEF ColumnNotNull, Copied, DataKept, schemaVars
<1>6. CASE ForeignKeysOff(p)
  <2>1. Others
    BY <1>6, <1>t, <1>i DEF ForeignKeysOff, ProcInv
  <2>2. ProcInv(p)'
    BY <1>6, <1>t, <1>i DEF ForeignKeysOff, ProcInv, InTx, Unkeyed, Serving, Past
  <2> QED
    BY <1>6, <1>i, <1>q, <2>1, <2>2 DEF ForeignKeysOff, Copied, DataKept
<1>7. CASE CopyRows(p)
  <2>0. \A o \in Procs : at[o] \notin InTx
    BY <1>7, <1>t, <1>i DEF CopyRows, ProcInv
  <2>1. Others
    BY <1>7, <1>t, <1>i, <2>0 DEF CopyRows, ProcInv, InTx
  <2>2. ProcInv(p)'
    BY <1>7, <1>t, <1>i DEF CopyRows, ProcInv, InTx, Unkeyed, Serving, Past
  <2> QED
    BY <1>7, <1>i, <1>q, <2>1, <2>2 DEF CopyRows, Copied, DataKept
<1>8. CASE DropOld(p)
  <2>0. ~fk[p] /\ work' = work
    BY <1>8, <1>i DEF DropOld, ProcInv, InTx, Unkeyed
  <2>1. Others
    BY <1>8, <1>t, <1>i, <2>0 DEF DropOld, ProcInv
  <2>2. ProcInv(p)'
    BY <1>8, <1>t, <1>i, <2>0 DEF DropOld, ProcInv, InTx, Unkeyed, Serving, Past
  <2> QED
    BY <1>8, <1>i, <1>q, <2>0, <2>1, <2>2 DEF DropOld, Copied, DataKept
<1>9. CASE RenameNew(p)
  <2>0. lock = p /\ \A o \in Procs \ {p} : at[o] \notin InTx
    BY <1>9, <1>i DEF RenameNew, ProcInv, InTx
  <2>1. CASE work.samples \subseteq work.tunnels
    <3>1. /\ work' = [work EXCEPT !.notNull = FALSE] /\ at' = [at EXCEPT ![p] = "commit"]
          /\ UNCHANGED <<lock, column, db, fk, written>> /\ at[p] = "rename"
      BY <1>9, <2>1 DEF RenameNew
    <3>2. /\ work'.tables = work.tables /\ work'.columns = work.columns /\ ~work'.notNull
          /\ work'.tunnels = work.tunnels /\ work'.samples = work.samples
      BY <1>t, <3>1 DEF Database
    <3>3. Others
      BY <1>t, <1>i, <2>0, <3>1, <3>2 DEF ProcInv, InTx
    <3>4. ProcInv(p)'
      BY <1>t, <1>i, <3>1, <3>2 DEF ProcInv, InTx, Unkeyed, Serving, Past
    <3> QED
      BY <1>i, <1>q, <3>1, <3>2, <3>3, <3>4 DEF Copied, DataKept
  <2>2. CASE ~(work.samples \subseteq work.tunnels)
    <3>1. /\ lock' = Nobody /\ at' = [at EXCEPT ![p] = Gone(p)]
          /\ UNCHANGED <<column, db, fk, written>>
      BY <1>9, <2>2 DEF RenameNew
    <3>2. Others
      BY <1>t, <1>i, <2>0, <3>1 DEF ProcInv, InTx
    <3>3. ProcInv(p)'
      BY <1>t, <3>1 DEF ProcInv, Gone, InTx, Unkeyed, Serving, Past
    <3> QED
      BY <1>i, <1>q, <3>1, <3>2, <3>3 DEF Copied, DataKept
  <2> QED
    BY <2>1, <2>2
<1>10. CASE Commit(p)
  <2>0. /\ lock = p /\ \A o \in Procs \ {p} : at[o] \notin InTx
        /\ ~work.notNull /\ lock # Nobody
    BY <1>10, <1>i, <1>t DEF Commit, ProcInv, InTx
  <2>1. /\ db' = work /\ lock' = Nobody /\ at' = [at EXCEPT ![p] = "fkon"]
        /\ UNCHANGED <<column, fk, written>> /\ at[p] = "commit"
    BY <1>10 DEF Commit
  <2>2. /\ db'.tables = db.tables /\ db'.columns = db.columns /\ ~db'.notNull
        /\ db'.tunnels = db.tunnels /\ db'.samples = db.samples
    BY <1>i, <2>0, <2>1 DEF Copied
  <2>3. Others
    BY <1>t, <1>i, <2>0, <2>1, <2>2 DEF ProcInv, InTx
  <2>4. ProcInv(p)'
    BY <1>t, <1>i, <2>0, <2>1, <2>2 DEF ProcInv, InTx, Unkeyed, Serving, Past
  <2> QED
    BY <1>i, <1>q, <2>1, <2>2, <2>3, <2>4 DEF Copied, DataKept
<1>11. CASE ForeignKeysOn(p)
  <2>1. Others
    BY <1>11, <1>t, <1>i DEF ForeignKeysOn, ProcInv
  <2>2. ProcInv(p)'
    BY <1>11, <1>t, <1>i DEF ForeignKeysOn, ProcInv, InTx, Unkeyed, Serving, Past
  <2> QED
    BY <1>11, <1>i, <1>q, <2>1, <2>2 DEF ForeignKeysOn, Copied, DataKept
<1>12. CASE Busy(p)
  <2>1. Others
    BY <1>12, <1>t, <1>i DEF Busy, ProcInv, schemaVars
  <2>2. ProcInv(p)'
    BY <1>12, <1>t, <1>i DEF Busy, Gone, ProcInv, schemaVars, InTx, Unkeyed, Serving, Past
  <2> QED
    BY <1>12, <1>i, <1>q, <2>1, <2>2 DEF Busy, Copied, DataKept, schemaVars
<1> QED
  BY <1>1, <1>2, <1>3, <1>4, <1>5, <1>6, <1>7, <1>8, <1>9, <1>10, <1>11, <1>12 DEF Open

\* The invariant behind DataKept and ReadyWhenUp holds in every state.
LEMMA MigrationInvariant == Spec => []MigrationInv
<1>1. Init => MigrationInv
  <2> SUFFICES ASSUME Init PROVE MigrationInv
    OBVIOUS
  <2>1. /\ \A o \in Procs : at[o] \in {"off", "old"} /\ fk[o] /\ o # Nobody
        /\ lock = Nobody /\ written = [tunnels |-> db.tunnels, samples |-> db.samples]
    BY ProcsAssumption DEF Init, MigrationInit
  <2> QED
    BY <2>1 DEF MigrationInv, ProcInv, Copied, DataKept, InTx, Unkeyed, Serving, Past
<1>2. TypeOK /\ MigrationInv /\ [Next]_vars => MigrationInv'
  <2> SUFFICES ASSUME TypeOK, MigrationInv, [Next]_vars PROVE MigrationInv'
    OBVIOUS
  <2>1. ASSUME NEW p \in Procs, Open(p) PROVE MigrationInv'
    BY <2>1, OpenInv
  <2>2. ASSUME NEW p \in Procs, EnsureServerCert(p) PROVE MigrationInv'
    <3>1. at[p] \in Serving /\ UNCHANGED schemaVars
      BY <2>2 DEF EnsureServerCert, EnsureCA, EnsureLeaf, CreateFile, FillFile, CommandLoads,
                  ServerLoads, Serving
    <3>2. \E w \in Serving \cup {"off", "done"} : Goto(p, w)
      BY <2>2 DEF EnsureServerCert, EnsureCA, EnsureLeaf, CreateFile, FillFile, CommandLoads,
                  ServerLoads, Serving, Generate, Gone
    <3> QED
      BY <3>1, <3>2, MoveInv
  <2>3. ASSUME NEW p \in Procs, StartIdentity(p) \/ ListCommand(p) PROVE MigrationInv'
    <3>1. \E w \in Serving \cup {"off", "done"} : Goto(p, w)
      BY <2>3 DEF StartIdentity, ListCommand, Serving
    <3> QED
      BY <2>3, <3>1, MoveInv DEF StartIdentity, ListCommand, Serving
  <2>4. CASE StopOld
    BY <2>4, MoveInv DEF StopOld, Procs
  <2>5. ASSUME UNCHANGED <<at, schemaVars>> PROVE MigrationInv'
    BY <2>5, StillInv
  <2>6. ASSUME NEW q \in Requests, NEW d \in Domains \cup {None}, SetDomainRow(q, d)
        PROVE  MigrationInv'
    BY <2>6, <2>5 DEF SetDomainRow
  <2>7. ASSUME NEW q \in Requests, SetDomain(q) PROVE MigrationInv'
    BY <2>7, <2>5 DEF SetDomain, SetDomainMemory, SetDomainState
  <2>8. ASSUME NEW f \in Fetchers, FetchCert(f) PROVE MigrationInv'
    BY <2>8, <2>5 DEF FetchCert, FetchPolicy, FetchIssued
  <2>9. ASSUME NEW p \in Procs, Crash(p) PROVE MigrationInv'
    <3>1. /\ at' = [at EXCEPT ![p] = Gone(p)] /\ at \in [Procs -> Places]
          /\ lock' = IF lock = p THEN Nobody ELSE lock
          /\ work' = IF lock = p THEN Fresh ELSE work
          /\ UNCHANGED <<column, db, fk, written>> /\ Nobody \notin Procs
      BY <2>9, ProcsAssumption DEF Crash, Goto, TypeOK
    <3>2. ASSUME NEW o \in Procs, o # p PROVE ProcInv(o)'
      BY <3>1, <3>2 DEF MigrationInv, ProcInv, InTx
    <3>3. ProcInv(p)'
      BY <3>1 DEF MigrationInv, ProcInv, Gone, InTx, Unkeyed, Serving, Past
    <3>4. Copied' /\ DataKept'
      BY <3>1 DEF MigrationInv, Copied, DataKept
    <3> QED
      BY <3>2, <3>3, <3>4 DEF MigrationInv
  <2>10. ASSUME NEW p \in Procs, StoreTunnel(p) \/ DeleteTunnel(p) PROVE MigrationInv'
    <3>1. /\ at' = at \/ (at[p] = "opened" /\ at' = [at EXCEPT ![p] = "done"])
          /\ at \in [Procs -> Places] /\ db \in Database
          /\ UNCHANGED <<column, work, lock, fk>> /\ lock = Nobody
          /\ at[p] \in {"old", "up", "opened"} /\ fk[p]
          /\ written \in [tunnels : SUBSET Rows, samples : SUBSET Rows]
      BY <2>10 DEF StoreTunnel, DeleteTunnel, TypeOK, MigrationTypeOK, MigrationInv, ProcInv,
                   InTx, Unkeyed
    <3>2. /\ db'.tables = db.tables /\ db'.columns = db.columns /\ db'.notNull = db.notNull
          /\ DataKept'
      <4>1. CASE StoreTunnel(p)
        BY <3>1, <4>1 DEF StoreTunnel, MigrationInv, DataKept, Database
      <4>2. CASE DeleteTunnel(p)
        BY <3>1, <4>2 DEF DeleteTunnel, MigrationInv, DataKept, Database
      <4> QED
        BY <2>10, <4>1, <4>2
    <3>3. ASSUME NEW o \in Procs PROVE ProcInv(o)'
      <4>1. CASE at'[o] = at[o]
        BY <3>1, <3>2, <4>1 DEF MigrationInv, ProcInv
      <4>2. CASE at'[o] # at[o]
        BY <3>1, <3>2, <4>2 DEF MigrationInv, ProcInv, InTx, Unkeyed, Serving, Past
      <4> QED
        BY <4>1, <4>2
    <3> QED
      BY <3>1, <3>2, <3>3 DEF MigrationInv, Copied
  <2>11. CASE EnrollMachine \/ UNCHANGED vars
    BY <2>11, <2>5 DEF EnrollMachine, vars
  <2> QED
    BY <2>1, <2>2, <2>3, <2>4, <2>6, <2>7, <2>8, <2>9, <2>10, <2>11 DEF Next, Process
<1> QED
  BY <1>1, <1>2, TypeCorrect, PTL DEF Spec

\* For any number of processes that migrate at once and any kills, no tunnel and
\* no traffic sample is lost or comes back (db.go:94-164).
THEOREM RowsSurvive == Spec => []DataKept
<1>1. MigrationInv => DataKept
  BY DEF MigrationInv
<1> QED
  BY <1>1, MigrationInvariant, PTL

\* For any number of processes, a server that serves has every column, a nullable
\* public_port and foreign keys enforced (db.go:27-43, 94-164).
THEOREM ServesMigrated == Spec => []ReadyWhenUp
<1>1. TypeOK /\ MigrationInv => ReadyWhenUp
  <2> SUFFICES ASSUME TypeOK, MigrationInv, at[Server] = "up" PROVE Complete(db) /\ fk[Server]
    BY DEF ReadyWhenUp
  <2>1. ProcInv(Server) /\ db.columns \subseteq Columns
    BY DEF MigrationInv, Procs, TypeOK, MigrationTypeOK, Database
  <2> QED
    BY <2>1 DEF ProcInv, Complete, InTx, Unkeyed, Serving, Past
<1> QED
  BY <1>1, TypeCorrect, MigrationInvariant, PTL

-----------------------------------------------------------------------------
(* The identity that agents pin.                                            *)

\* A process that is writing the server's pair: what it has written so far is of
\* its own key pair, what it has not is of an older one, so the files do not match.
LeafWriter(o) ==
    Generating(o) /\ writing[o].name \in {Leaf.cert, Leaf.key} =>
        /\ file[Leaf.key].pair < writing[o].pair
        /\ at[o] = "create" /\ writing[o].name = Leaf.cert => Incomplete(Leaf)
        /\ at[o] = "fill" /\ writing[o].name = Leaf.cert => file[Leaf.cert] = Torn
        /\ writing[o].name = Leaf.key => file[Leaf.cert] = Whole(writing[o].pair)

\* Key pairs are numbered in the order they are generated.
Numbered ==
    /\ \A f \in Files : file[f].pair <= pairs
    /\ \A o \in Procs : writing[o].pair <= pairs

OneWriter == \A o1, o2 \in Procs : Generating(o1) /\ Generating(o2) => o1 = o2

\* Once a fingerprint was handed out or is presented, the files hold that pair.
Settled ==
    /\ pins # {} \/ at[Server] = "up" => Matches(Leaf)
    /\ pins \subseteq {file[Leaf.cert].pair}
    /\ at[Server] = "up" => served = file[Leaf.cert].pair

\* The inductive invariant behind PinnedStaysValid.
PinInv ==
    /\ Numbered
    /\ ~collided => OneWriter /\ Settled /\ \A o \in Procs : LeafWriter(o)

\* Half-written files of the server's pair never match.
LEMMA WriterUnmatched ==
    ASSUME TypeOK, NEW o \in Procs, LeafWriter(o), Generating(o),
           writing[o].name \in {Leaf.cert, Leaf.key}
    PROVE  ~Matches(Leaf)
<1>1. /\ file[Leaf.key].pair \in Nat /\ writing[o].pair \in Nat
      /\ file[Leaf.cert].pair \in Nat
  BY DEF TypeOK, IdentityTypeOK, Files, Leaf
<1>2. CASE at[o] = "create" /\ writing[o].name = Leaf.cert
  BY <1>2 DEF LeafWriter, Incomplete, Missing, Matches
<1>3. CASE at[o] = "fill" /\ writing[o].name = Leaf.cert
  BY <1>3 DEF LeafWriter, Torn, Matches
<1>4. CASE writing[o].name = Leaf.key
  BY <1>1, <1>4 DEF LeafWriter, Whole, Matches
<1> QED
  BY <1>2, <1>3, <1>4 DEF Generating

\* A step that leaves the files alone, and lets no process start writing or
\* serving, keeps the invariant.
LEMMA PinFrame ==
    ASSUME TypeOK, PinInv, UNCHANGED <<file, writing, pairs, pins, collided>>,
           \A o \in Procs : Generating(o)' => at'[o] = at[o],
           at'[Server] = "up" => at[Server] = "up" /\ served' = served
    PROVE  PinInv'
<1>1. Numbered'
  BY DEF PinInv, Numbered
<1>2. ASSUME ~collided PROVE OneWriter' /\ Settled' /\ \A o \in Procs : LeafWriter(o)'
  <2>1. OneWriter /\ Settled /\ \A o \in Procs : LeafWriter(o)
    BY <1>2 DEF PinInv
  <2>2. \A o \in Procs : Generating(o)' => Generating(o)
    BY DEF Generating
  <2>3. OneWriter'
    BY <2>1, <2>2 DEF OneWriter
  <2>4. Settled'
    BY <2>1 DEF Settled, Matches
  <2>5. \A o \in Procs : LeafWriter(o)'
    BY <2>1, <2>2 DEF LeafWriter, Incomplete
  <2> QED
    BY <2>3, <2>4, <2>5
<1> QED
  BY <1>1, <1>2 DEF PinInv

\* A new key pair is only begun for files that are incomplete.
LEMMA PinGenerate ==
    ASSUME TypeOK, PinInv, NEW p \in Procs, NEW pair \in {CA, Leaf}, Generate(p, pair),
           Incomplete(pair), at[p] \in {"ca", "leaf"}, UNCHANGED <<file, served, pins>>
    PROVE  PinInv'
<1>t. /\ at \in [Procs -> Places] /\ pairs \in Nat
      /\ writing \in [Procs -> [name : Files, pair : Nat]]
      /\ file \in [Files -> [state : {"missing", "torn", "whole"}, pair : Nat]]
  BY DEF TypeOK, IdentityTypeOK
<1>1. /\ pairs' = pairs + 1 /\ at' = [at EXCEPT ![p] = "create"]
      /\ writing' = [writing EXCEPT ![p] = [name |-> pair.cert, pair |-> pairs + 1]]
      /\ collided' = (collided \/ \E o \in Procs \ {p} : Generating(o))
  BY DEF Generate, Goto
<1>2. Numbered'
  <2>1. \A f \in Files : file'[f].pair <= pairs'
    BY <1>t, <1>1 DEF PinInv, Numbered
  <2>2. \A o \in Procs : writing'[o].pair <= pairs'
    BY <1>t, <1>1 DEF PinInv, Numbered
  <2> QED
    BY <2>1, <2>2 DEF Numbered
<1>3. ASSUME ~collided' PROVE OneWriter' /\ Settled' /\ \A o \in Procs : LeafWriter(o)'
  <2>1. ~collided /\ \A o \in Procs \ {p} : ~Generating(o)
    BY <1>1, <1>3
  <2>2. \A o \in Procs \ {p} : ~Generating(o)'
    BY <1>t, <1>1, <2>1 DEF Generating
  <2>3. OneWriter'
    BY <2>2 DEF OneWriter
  <2>4. Settled'
    BY <1>t, <1>1, <2>1 DEF PinInv, Settled, Matches, Procs
  <2>5. LeafWriter(p)'
    <3>1. writing'[p].name = pair.cert /\ writing'[p].pair = pairs + 1 /\ at'[p] = "create"
      BY <1>t, <1>1
    <3>2. file[Leaf.key].pair \in Nat /\ file[Leaf.key].pair <= pairs
      BY <1>t DEF PinInv, Numbered, Files
    <3>3. pair.cert = Leaf.cert \/ pair.cert \notin {Leaf.cert, Leaf.key}
      BY DEF CA, Leaf
    <3>4. pair.cert = Leaf.cert => Incomplete(Leaf) /\ pair.cert # Leaf.key
      BY DEF CA, Leaf
    <3> QED
      BY <1>t, <3>1, <3>2, <3>3, <3>4 DEF LeafWriter, Incomplete
  <2> QED
    BY <2>2, <2>3, <2>4, <2>5 DEF LeafWriter
<1> QED
  BY <1>2, <1>3 DEF PinInv

\* Writing one of the four files keeps the invariant: the only writer is this one.
LEMMA PinWrite ==
    ASSUME TypeOK, PinInv, NEW p \in Procs, CreateFile(p) \/ FillFile(p)
    PROVE  PinInv'
<1> DEFINE name == writing[p].name
<1> DEFINE n == writing[p].pair
<1>t. /\ at \in [Procs -> Places] /\ pairs \in Nat
      /\ writing \in [Procs -> [name : Files, pair : Nat]]
      /\ file \in [Files -> [state : {"missing", "torn", "whole"}, pair : Nat]]
      /\ name \in Files /\ n \in Nat
  BY DEF TypeOK, IdentityTypeOK
<1>f. /\ Leaf.cert \in Files /\ Leaf.key \in Files /\ CA.cert \in Files /\ CA.key \in Files
      /\ Leaf.cert # Leaf.key /\ CA.cert \notin {CA.key, Leaf.cert, Leaf.key}
      /\ CA.key \notin {Leaf.cert, Leaf.key} /\ Files = {CA.cert, CA.key, Leaf.cert, Leaf.key}
  BY DEF Leaf, CA, Files
<1>1. /\ Generating(p) /\ UNCHANGED <<pairs, served, pins, collided>>
      /\ \A o \in Procs \ {p} : at'[o] = at[o] /\ writing'[o] = writing[o]
      /\ at'[p] # "up" /\ \A f \in Files \ {name} : file'[f] = file[f]
  BY <1>t DEF CreateFile, FillFile, Goto, Generating
<1>c. ASSUME CreateFile(p)
      PROVE  /\ at[p] = "create" /\ at'[p] = "fill" /\ file'[name] = Torn /\ writing' = writing
  BY <1>t, <1>c DEF CreateFile, Goto
<1>w. ASSUME FillFile(p)
      PROVE  /\ at[p] = "fill" /\ file'[name] = Whole(n)
             /\ name \in {CA.key, Leaf.key} => at'[p] \in {"leaf", "load"} /\ writing' = writing
             /\ name = Leaf.cert => /\ at'[p] = "create" /\ writing'[p].name = Leaf.key
                                    /\ writing'[p].pair = n
             /\ name = CA.cert => /\ at'[p] = "create" /\ writing'[p].name = CA.key
                                  /\ writing'[p].pair = n
  BY <1>t, <1>f, <1>w DEF FillFile, Goto, KeyOf
<1>2. Numbered'
  <2>1. file'[name].pair <= pairs
    <3>1. n <= pairs
      BY DEF PinInv, Numbered
    <3> QED
      BY <3>1, <1>t, <1>c, <1>w DEF Torn, Whole
  <2>2. \A f \in Files : file'[f].pair <= pairs'
    BY <1>1, <2>1 DEF PinInv, Numbered
  <2>3. writing'[p].pair = n
    BY <1>t, <1>f, <1>c, <1>w
  <2>4. \A o \in Procs : writing'[o].pair <= pairs'
    BY <1>1, <2>3 DEF PinInv, Numbered
  <2> QED
    BY <2>2, <2>4 DEF Numbered
<1>3. ASSUME ~collided' PROVE OneWriter' /\ Settled' /\ \A o \in Procs : LeafWriter(o)'
  <2>1. OneWriter /\ Settled /\ LeafWriter(p)
    BY <1>1, <1>3 DEF PinInv
  <2>2. \A o \in Procs \ {p} : ~Generating(o) /\ ~Generating(o)'
    BY <1>1, <2>1 DEF OneWriter, Generating
  <2>3. OneWriter'
    BY <2>2 DEF OneWriter
  <2>4. Settled'
    <3>1. CASE name \in {Leaf.cert, Leaf.key}
      <4>1. pins = {} /\ at[Server] # "up"
        BY <1>1, <2>1, <3>1, WriterUnmatched DEF Settled
      <4>2. at'[Server] # "up"
        BY <1>1, <4>1 DEF Procs
      <4> QED
        BY <1>1, <4>1, <4>2 DEF Settled
    <3>2. CASE name \notin {Leaf.cert, Leaf.key}
      <4>1. file'[Leaf.cert] = file[Leaf.cert] /\ file'[Leaf.key] = file[Leaf.key]
        BY <1>1, <1>f, <3>2
      <4>2. at'[Server] = "up" => at[Server] = "up"
        BY <1>1 DEF Procs
      <4> QED
        BY <1>1, <2>1, <4>1, <4>2 DEF Settled, Matches
    <3> QED
      BY <3>1, <3>2
  <2>5. LeafWriter(p)'
    <3>1. CASE CreateFile(p) /\ name \in {Leaf.cert, Leaf.key}
      <4>1. file[Leaf.key].pair \in Nat /\ file[Leaf.key].pair < n
        BY <1>1, <1>t, <1>f, <2>1, <3>1 DEF LeafWriter
      <4>2. file'[Leaf.key].pair < n
        BY <1>1, <1>t, <1>f, <1>c, <3>1, <4>1 DEF Torn
      <4> QED
        BY <1>1, <1>t, <1>f, <1>c, <2>1, <3>1, <4>2 DEF LeafWriter
    <3>2. CASE CreateFile(p) /\ name \notin {Leaf.cert, Leaf.key}
      BY <1>c, <3>2 DEF LeafWriter
    <3>3. CASE FillFile(p) /\ name = Leaf.cert
      <4>1. /\ file'[Leaf.key].pair < n /\ file'[Leaf.cert] = Whole(n)
            /\ writing'[p].name = Leaf.key /\ writing'[p].pair = n
        BY <1>1, <1>f, <1>w, <2>1, <3>3 DEF LeafWriter
      <4> QED
        BY <4>1, <1>f DEF LeafWriter
    <3>4. CASE FillFile(p) /\ name # Leaf.cert
      <4>1. ~Generating(p)' \/ writing'[p].name = CA.key
        BY <1>t, <1>f, <1>w, <3>4 DEF Generating
      <4> QED
        BY <4>1, <1>f DEF LeafWriter
    <3> QED
      BY <3>1, <3>2, <3>3, <3>4
  <2> QED
    BY <2>2, <2>3, <2>4, <2>5 DEF LeafWriter
<1> QED
  BY <1>2, <1>3 DEF PinInv

\* Presenting a fingerprint, or handing it out, is done with files that match.
LEMMA PinUse ==
    ASSUME TypeOK, PinInv, NEW p \in Procs,
           CommandLoads(p) \/ (p = Server /\ ServerLoads) \/ EnrollMachine
    PROVE  PinInv'
<1>t. at \in [Procs -> Places]
  BY DEF TypeOK
<1>1. /\ UNCHANGED <<file, writing, pairs, collided>>
      /\ \A o \in Procs : Generating(o)' => Generating(o) /\ at'[o] = at[o]
  BY <1>t DEF CommandLoads, ServerLoads, EnrollMachine, Goto, Generating
<1>2. Numbered'
  BY <1>1 DEF PinInv, Numbered
<1>3. ASSUME ~collided' PROVE OneWriter' /\ Settled' /\ \A o \in Procs : LeafWriter(o)'
  <2>1. OneWriter /\ Settled /\ \A o \in Procs : LeafWriter(o)
    BY <1>1, <1>3 DEF PinInv
  <2>2. OneWriter' /\ \A o \in Procs : LeafWriter(o)'
    BY <1>1, <2>1 DEF OneWriter, LeafWriter, Incomplete
  <2>3. CASE CommandLoads(p)
    <3>1. at'[Server] = at[Server] /\ served' = served
      BY <1>t, <2>3 DEF CommandLoads, Goto, Procs
    <3> QED
      BY <1>1, <2>1, <2>2, <2>3, <3>1 DEF CommandLoads, Settled, Matches
  <2>4. CASE ServerLoads
    <3>1. CASE Matches(Leaf)
      BY <1>1, <1>t, <2>1, <2>2, <2>4, <3>1 DEF ServerLoads, Goto, Settled, Matches, Procs
    <3>2. CASE ~Matches(Leaf)
      BY <1>1, <1>t, <2>1, <2>2, <2>4, <3>2 DEF ServerLoads, Goto, Settled, Matches, Procs
    <3> QED
      BY <3>1, <3>2
  <2>5. CASE EnrollMachine
    BY <1>1, <2>1, <2>2, <2>5 DEF EnrollMachine, Settled, Matches
  <2> QED
    BY <2>3, <2>4, <2>5
<1> QED
  BY <1>2, <1>3 DEF PinInv

\* For any number of processes and kills: unless two generated the identity at
\* once, every fingerprint handed out is the one a running server presents
\* (ca.go:35-68, dial.go:12-32).
THEOREM PinsStayValid == Spec => []PinnedStaysValid
<1>1. Init => PinInv
  <2> SUFFICES ASSUME Init PROVE PinInv
    OBVIOUS
  <2>1. /\ \A o \in Procs : at[o] \in {"off", "old"} /\ writing[o].pair = 0
        /\ file = [f \in Files |-> Missing] /\ pairs = 0 /\ pins = {} /\ Server \in Procs
    BY DEF Init, MigrationInit, Procs
  <2> QED
    BY <2>1 DEF PinInv, Numbered, OneWriter, Settled, LeafWriter, Generating, Missing
<1>2. TypeOK /\ PinInv /\ [Next]_vars => PinInv'
  <2> SUFFICES ASSUME TypeOK, PinInv, [Next]_vars PROVE PinInv'
    OBVIOUS
  <2>t. at \in [Procs -> Places] /\ Server \in Procs
    BY DEF TypeOK, Procs
  <2>1. ASSUME NEW p \in Procs, Open(p), UNCHANGED identity PROVE PinInv'
    <3>1. \E w \in OpenSteps \cup {"off", "done", "opened"} : at' = [at EXCEPT ![p] = w] \/ at' = at
      BY <2>1 DEF Open, OpenFile, ApplySchema, HasColumn, AddColumn, ColumnNotNull, ForeignKeysOff,
                  CopyRows, DropOld, RenameNew, Commit, ForeignKeysOn, Busy, Goto, Gone, OpenSteps
    <3> QED
      BY <2>1, <2>t, <3>1, PinFrame DEF identity, Generating, OpenSteps
  <2>2. ASSUME NEW p \in Procs, EnsureCA(p) PROVE PinInv'
    <3>1. CASE Incomplete(CA)
      BY <2>2, <3>1, PinGenerate DEF EnsureCA
    <3>2. CASE ~Incomplete(CA)
      BY <2>2, <3>2, <2>t, PinFrame DEF EnsureCA, Goto, Generating
    <3> QED
      BY <3>1, <3>2
  <2>3. ASSUME NEW p \in Procs, EnsureLeaf(p) PROVE PinInv'
    <3>1. CASE Incomplete(Leaf) /\ Matches(CA)
      BY <2>3, <3>1, PinGenerate DEF EnsureLeaf
    <3>2. CASE ~(Incomplete(Leaf) /\ Matches(CA))
      BY <2>3, <3>2, <2>t, PinFrame DEF EnsureLeaf, Goto, Gone, Generating
    <3> QED
      BY <3>1, <3>2
  <2>4. ASSUME NEW p \in Procs, CreateFile(p) \/ FillFile(p) PROVE PinInv'
    BY <2>4, PinWrite
  <2>5. ASSUME NEW p \in Procs, CommandLoads(p) \/ (p = Server /\ ServerLoads) PROVE PinInv'
    BY <2>5, PinUse
  <2>6. CASE EnrollMachine
    BY <2>6, <2>t, PinUse
  <2>7. ASSUME NEW p \in Procs, StartIdentity(p) \/ ListCommand(p) PROVE PinInv'
    BY <2>7, <2>t, PinFrame DEF StartIdentity, ListCommand, Goto, identity, Generating
  <2>8. CASE StopOld
    BY <2>8, <2>t, PinFrame DEF StopOld, Goto, identity, Generating
  <2>9. ASSUME UNCHANGED <<at, identity>> PROVE PinInv'
    BY <2>9, PinFrame DEF identity
  <2>10. ASSUME NEW q \in Requests, NEW d \in Domains \cup {None}, SetDomainRow(q, d)
         PROVE  PinInv'
    BY <2>10, <2>9 DEF SetDomainRow
  <2>11. ASSUME NEW q \in Requests, SetDomain(q) PROVE PinInv'
    BY <2>11, <2>9 DEF SetDomain, SetDomainMemory, SetDomainState
  <2>12. ASSUME NEW f \in Fetchers, FetchCert(f) PROVE PinInv'
    BY <2>12, <2>9 DEF FetchCert, FetchPolicy, FetchIssued
  <2>13. ASSUME NEW p \in Procs, Crash(p) PROVE PinInv'
    <3>1. /\ at' = [at EXCEPT ![p] = Gone(p)]
          /\ UNCHANGED <<file, writing, pairs, pins, collided>>
          /\ p # Server => served' = served
      BY <2>13 DEF Crash, Goto
    <3>2. /\ \A o \in Procs : Generating(o)' => at'[o] = at[o]
          /\ at'[Server] = "up" => at[Server] = "up" /\ p # Server
      BY <2>t, <3>1 DEF Gone, Generating
    <3> QED
      BY <3>1, <3>2, PinFrame
  <2>14. ASSUME NEW p \in Procs, StoreTunnel(p) \/ DeleteTunnel(p), UNCHANGED identity
         PROVE  PinInv'
    BY <2>14, <2>t, PinFrame DEF StoreTunnel, DeleteTunnel, identity, Generating
  <2>15. CASE UNCHANGED vars
    BY <2>15, <2>9 DEF vars
  <2> QED
    BY <2>1, <2>2, <2>3, <2>4, <2>5, <2>6, <2>7, <2>8, <2>10, <2>11, <2>12, <2>13, <2>14, <2>15
    DEF Next, Process, EnsureServerCert
<1>3. PinInv => PinnedStaysValid
  BY DEF PinInv, Settled, PinnedStaysValid
<1> QED
  BY <1>1, <1>2, <1>3, TypeCorrect, PTL DEF Spec

-----------------------------------------------------------------------------
(* The domain.  Without overlapping requests, a request at work has the     *)
(* stored domain; without a late report, certState is about the domain.     *)

Quiet == \A q \in Requests : ~InProgress(q)

\* What a server that does not run left behind is gone.
DownInv ==
    at[Server] # "up" => Quiet /\ \A f \in Fetchers : fetch[f].at = "idle"

\* "pending" has a goroutine that will report.
PendingInv == certState = "pending" => \E f \in Fetchers : fetch[f].at # "idle"

\* One request at a time carries the stored domain into memory.
CarriedInv ==
    /\ \A q, o \in Requests : InProgress(q) /\ InProgress(o) => q = o
    /\ \A q \in Requests : InProgress(q) => req[q].d = setting
    /\ \A q \in Requests : req[q].at = "state" => domain = setting
    /\ at[Server] = "up" /\ Quiet => domain = setting

\* The certificate's state is that of the domain in use.
StateInv ==
    at[Server] = "up" /\ Quiet =>
        /\ certState = "" <=> domain = None
        /\ certState = "ready" => domain \in cached

PanelInv ==
    /\ DownInv
    /\ PendingInv
    /\ ~crossed => CarriedInv
    /\ ~crossed /\ ~overtaken => StateInv

\* Steps of the panel's neighbours: the server stays up, or stays down.
LEMMA PanelFrame ==
    ASSUME PanelInv, UNCHANGED panel, at'[Server] = "up" <=> at[Server] = "up"
    PROVE  PanelInv'
<1>1. /\ UNCHANGED <<setting, domain, certState, req, fetch, cached, crossed, overtaken>>
      /\ Quiet' <=> Quiet
      /\ \A q \in Requests : InProgress(q)' <=> InProgress(q)
  BY DEF panel, Quiet, InProgress
<1>2. (DownInv /\ PendingInv)'
  BY <1>1 DEF PanelInv, DownInv, PendingInv
<1>3. ~crossed => CarriedInv'
  BY <1>1 DEF PanelInv, CarriedInv
<1>4. ~crossed /\ ~overtaken => StateInv'
  BY <1>1 DEF PanelInv, StateInv
<1> QED
  BY <1>1, <1>2, <1>3, <1>4 DEF PanelInv

\* NewServer starts from the stored domain and requests its certificate.
LEMMA PanelLoads ==
    ASSUME TypeOK, PanelInv, ServerLoads
    PROVE  PanelInv'
<1>t. at \in [Procs -> Places] /\ Server \in Procs /\ Boot \in Fetchers
  BY DEF TypeOK, Procs, Fetchers
<1>1. CASE ~Matches(Leaf)
  BY <1>1, <1>t, PanelFrame DEF ServerLoads, Goto
<1>2. CASE Matches(Leaf)
  <2>1. /\ at' = [at EXCEPT ![Server] = "up"] /\ domain' = setting
        /\ certState' = IF setting = None THEN "" ELSE "pending"
        /\ fetch' = IF setting = None THEN fetch
                    ELSE [fetch EXCEPT ![Boot] = [at |-> "policy", d |-> setting]]
        /\ UNCHANGED <<setting, req, cached, crossed, overtaken>>
    BY <1>2 DEF ServerLoads, Goto
  <2>2. Quiet /\ Quiet'
    BY <1>t, <2>1 DEF PanelInv, DownInv, ServerLoads, Quiet, InProgress
  <2>3. at'[Server] = "up"
    BY <1>t, <2>1
  <2>4. PendingInv'
    <3>1. CASE setting = None
      BY <2>1, <3>1 DEF PendingInv
    <3>2. CASE setting # None
      <4>1. fetch'[Boot].at = "policy"
        BY <1>t, <2>1, <3>2 DEF TypeOK, PanelTypeOK
      <4> QED
        BY <1>t, <4>1 DEF PendingInv
    <3> QED
      BY <3>1, <3>2
  <2>5. CarriedInv'
    BY <2>1, <2>2 DEF CarriedInv, Quiet, InProgress
  <2>6. StateInv'
    BY <2>1 DEF StateInv
  <2> QED
    BY <2>3, <2>4, <2>5, <2>6 DEF PanelInv, DownInv
<1> QED
  BY <1>1, <1>2

\* A request of handleSetDomain, step by step.
LEMMA PanelRequest ==
    ASSUME TypeOK, PanelInv, NEW q \in Requests,
           SetDomain(q) \/ \E d \in Domains \cup {None} : SetDomainRow(q, d)
    PROVE  PanelInv'
<1>t. /\ req \in [Requests -> [at : {"new", "memory", "state", "done"}, d : Domains \cup {None}]]
      /\ fetch \in [Fetchers -> {NoFetch} \cup [at : {"policy", "issue"}, d : Domains]]
      /\ crossed \in BOOLEAN /\ q \in Fetchers
  BY DEF TypeOK, PanelTypeOK, Fetchers
<1>1. ASSUME NEW d \in Domains \cup {None}, SetDomainRow(q, d) PROVE PanelInv'
  <2>1. /\ at' = at /\ at[Server] = "up"
        /\ req' = [req EXCEPT ![q] = [at |-> "memory", d |-> d]] /\ setting' = d
        /\ crossed' = (crossed \/ \E o \in Requests : InProgress(o))
        /\ UNCHANGED <<domain, certState, fetch, cached, overtaken>>
    BY <1>1 DEF SetDomainRow
  <2>2. /\ req'[q] = [at |-> "memory", d |-> d]
        /\ \A o \in Requests : o # q => req'[o] = req[o]
    BY <1>t, <2>1
  <2>3. ~Quiet'
    BY <2>2 DEF Quiet, InProgress
  <2>4. PendingInv'
    BY <2>1 DEF PanelInv, PendingInv
  <2>5. ASSUME ~crossed' PROVE CarriedInv'
    <3>1. \A o \in Requests : o # q => ~InProgress(o)'
      BY <2>1, <2>2, <2>5 DEF InProgress
    <3> QED
      BY <2>1, <2>2, <2>3, <3>1 DEF CarriedInv, InProgress
  <2> QED
    BY <2>1, <2>3, <2>4, <2>5 DEF PanelInv, DownInv, StateInv
<1>2. CASE SetDomainMemory(q)
  <2>1. /\ at' = at /\ at[Server] = "up" /\ req[q].at = "memory" /\ domain' = req[q].d
        /\ req' = [req EXCEPT ![q].at = "state"]
        /\ UNCHANGED <<setting, certState, fetch, cached, crossed, overtaken>>
    BY <1>2 DEF SetDomainMemory
  <2>2. /\ req'[q].at = "state" /\ req'[q].d = req[q].d
        /\ \A o \in Requests : o # q => req'[o] = req[o]
    BY <1>t, <2>1
  <2>3. ~Quiet' /\ \A o \in Requests : InProgress(o)' <=> InProgress(o)
    BY <2>1, <2>2 DEF Quiet, InProgress
  <2>4. PendingInv'
    BY <2>1 DEF PanelInv, PendingInv
  <2>5. ASSUME ~crossed PROVE CarriedInv'
    <3>1. CarriedInv /\ InProgress(q)
      BY <2>1, <2>5 DEF PanelInv, InProgress
    <3>2. req[q].d = setting /\ \A o \in Requests : InProgress(o) => o = q
      BY <3>1 DEF CarriedInv
    <3> QED
      BY <2>1, <2>2, <2>3, <3>2 DEF CarriedInv
  <2> QED
    BY <2>1, <2>3, <2>4, <2>5 DEF PanelInv, DownInv, StateInv
<1>3. CASE SetDomainState(q)
  <2>1. /\ at' = at /\ at[Server] = "up" /\ req[q].at = "state"
        /\ req' = [req EXCEPT ![q] = Finished]
        /\ certState' = IF req[q].d = None THEN "" ELSE "pending"
        /\ fetch' = IF req[q].d = None THEN fetch
                    ELSE [fetch EXCEPT ![q] = [at |-> "policy", d |-> req[q].d]]
        /\ UNCHANGED <<setting, domain, cached, crossed>>
    BY <1>3 DEF SetDomainState
  <2>2. /\ req'[q].at = "done"
        /\ \A o \in Requests : o # q => req'[o] = req[o]
    BY <1>t, <2>1 DEF Finished
  <2>3. PendingInv'
    <3>1. CASE req[q].d = None
      BY <2>1, <3>1 DEF PendingInv
    <3>2. CASE req[q].d # None
      <4>1. fetch'[q].at = "policy"
        BY <1>t, <2>1, <3>2
      <4> QED
        BY <1>t, <4>1 DEF PendingInv
    <3> QED
      BY <3>1, <3>2
  <2>4. ASSUME ~crossed PROVE CarriedInv' /\ StateInv'
    <3>1. CarriedInv /\ InProgress(q)
      BY <2>1, <2>4 DEF PanelInv, InProgress
    <3>2. req[q].d = setting /\ domain = setting
      BY <2>1, <3>1 DEF CarriedInv
    <3>3. \A o \in Requests : ~InProgress(o)'
      BY <2>2, <3>1 DEF CarriedInv, InProgress
    <3>4. CarriedInv'
      BY <2>1, <3>2, <3>3 DEF CarriedInv, InProgress
    <3>5. StateInv'
      BY <2>1, <3>2 DEF StateInv
    <3> QED
      BY <3>4, <3>5
  <2> QED
    BY <2>1, <2>3, <2>4 DEF PanelInv, DownInv
<1> QED
  BY <1>1, <1>2, <1>3 DEF SetDomain

\* A certificate request, step by step.
LEMMA PanelFetch ==
    ASSUME TypeOK, PanelInv, NEW f \in Fetchers, FetchCert(f)
    PROVE  PanelInv'
<1>t. fetch \in [Fetchers -> {NoFetch} \cup [at : {"policy", "issue"}, d : Domains]]
  BY DEF TypeOK, PanelTypeOK
<1>1. /\ at' = at /\ at[Server] = "up" /\ UNCHANGED <<setting, domain, req, crossed>>
      /\ fetch[f].at # "idle"
  BY DEF FetchCert, FetchPolicy, FetchIssued
<1>2. DownInv' /\ (CarriedInv => CarriedInv') /\ (Quiet' <=> Quiet)
  BY <1>1 DEF DownInv, CarriedInv, Quiet, InProgress
<1>3. fetch[f].d \in Domains /\ fetch[f].d # None
  <2>1. fetch[f] \in [at : {"policy", "issue"}, d : Domains]
    <3>1. NoFetch.at = "idle"
      BY DEF NoFetch
    <3>2. fetch[f] \in {NoFetch} \cup [at : {"policy", "issue"}, d : Domains]
      BY <1>t
    <3> QED
      BY <1>1, <3>1, <3>2
  <2> QED
    BY <2>1, DomainAssumption
<1>4. ASSUME NEW outcome \in {"ready", "error"}, Report(f, outcome),
             cached \subseteq cached', outcome = "ready" => fetch[f].d \in cached'
      PROVE  PanelInv'
  <2>1. certState' = outcome /\ overtaken' = (fetch[f].d # domain)
    BY <1>4 DEF Report
  <2>2. PendingInv'
    BY <2>1 DEF PendingInv
  <2>3. ~overtaken' => StateInv'
    BY <1>1, <1>3, <1>4, <2>1 DEF StateInv
  <2> QED
    BY <1>1, <1>2, <2>2, <2>3 DEF PanelInv
<1>5. ASSUME fetch' = [fetch EXCEPT ![f].at = "issue"], UNCHANGED <<certState, overtaken, cached>>
      PROVE  PanelInv'
  <2>1. fetch'[f].at = "issue"
    BY <1>t, <1>5
  <2>2. PendingInv'
    BY <2>1 DEF PendingInv
  <2>3. StateInv => StateInv'
    BY <1>1, <1>2, <1>5 DEF StateInv
  <2> QED
    BY <1>1, <1>2, <1>5, <2>2, <2>3 DEF PanelInv
<1>6. CASE FetchPolicy(f)
  <2>1. UNCHANGED cached
    BY <1>6 DEF FetchPolicy
  <2>2. CASE fetch[f].d \in cached
    BY <1>4, <1>6, <2>1, <2>2 DEF FetchPolicy
  <2>3. CASE fetch[f].d \notin cached /\ fetch[f].d # domain
    BY <1>4, <1>6, <2>1, <2>3 DEF FetchPolicy
  <2>4. CASE fetch[f].d \notin cached /\ fetch[f].d = domain
    BY <1>5, <1>6, <2>1, <2>4 DEF FetchPolicy
  <2> QED
    BY <2>2, <2>3, <2>4
<1>7. ASSUME NEW outcome \in {"ready", "error"}, FetchIssued(f, outcome) PROVE PanelInv'
  BY <1>4, <1>7 DEF FetchIssued
<1> QED
  BY <1>6, <1>7 DEF FetchCert

\* For any number of domains and concurrent requests, a panel with nothing in
\* progress shows the truth about its domain, unless requests overlapped or a
\* request for a replaced domain reported last (setup.go:55-67, main.go:256-271).
THEOREM QuietPanelAgrees == Spec => []QuietDomainAgrees
<1>1. Init => PanelInv
  <2> SUFFICES ASSUME Init PROVE PanelInv
    OBVIOUS
  <2>1. /\ at[Server] # "up" /\ certState = "" /\ setting = None /\ domain = None
        /\ \A q \in Requests : req[q].at = "new"
        /\ \A f \in Fetchers : fetch[f].at = "idle"
    BY DEF Init, MigrationInit, Procs, NoFetch
  <2> QED
    BY <2>1 DEF PanelInv, DownInv, PendingInv, CarriedInv, StateInv, Quiet, InProgress
<1>2. TypeOK /\ PanelInv /\ [Next]_vars => PanelInv'
  <2> SUFFICES ASSUME TypeOK, PanelInv, [Next]_vars PROVE PanelInv'
    OBVIOUS
  <2>t. at \in [Procs -> Places] /\ Server \in Procs
    BY DEF TypeOK, Procs
  <2>1. ASSUME NEW p \in Procs, Open(p), UNCHANGED panel PROVE PanelInv'
    <3>1. /\ at[p] # "up"
          /\ \E w \in OpenSteps \cup {"off", "done", "opened"} :
                 at' = [at EXCEPT ![p] = w] \/ at' = at
      BY <2>1 DEF Open, OpenFile, ApplySchema, HasColumn, AddColumn, ColumnNotNull, ForeignKeysOff,
                  CopyRows, DropOld, RenameNew, Commit, ForeignKeysOn, Busy, Goto, Gone, OpenSteps
    <3> QED
      BY <2>1, <2>t, <3>1, PanelFrame DEF OpenSteps
  <2>2. ASSUME NEW p \in Procs,
               \/ EnsureCA(p) \/ EnsureLeaf(p) \/ CreateFile(p) \/ FillFile(p)
               \/ CommandLoads(p) \/ StartIdentity(p) \/ ListCommand(p)
        PROVE  PanelInv'
    <3>1. /\ UNCHANGED panel /\ at[p] # "up"
          /\ \E w \in Places \ {"up"} : at' = [at EXCEPT ![p] = w]
      BY <2>2 DEF EnsureCA, EnsureLeaf, Generate, CreateFile, FillFile, CommandLoads, StartIdentity,
                  ListCommand, Goto, Gone, Places
    <3> QED
      BY <2>t, <3>1, PanelFrame
  <2>3. CASE ServerLoads
    BY <2>3, PanelLoads
  <2>4. CASE StopOld
    BY <2>4, <2>t, PanelFrame DEF StopOld, Goto
  <2>5. CASE EnrollMachine
    BY <2>5, PanelFrame DEF EnrollMachine
  <2>6. ASSUME NEW p \in Procs, StoreTunnel(p) \/ DeleteTunnel(p), UNCHANGED panel
        PROVE  PanelInv'
    BY <2>6, <2>t, PanelFrame DEF StoreTunnel, DeleteTunnel
  <2>7. ASSUME NEW q \in Requests,
               SetDomain(q) \/ \E d \in Domains \cup {None} : SetDomainRow(q, d)
        PROVE  PanelInv'
    BY <2>7, PanelRequest
  <2>8. ASSUME NEW f \in Fetchers, FetchCert(f) PROVE PanelInv'
    BY <2>8, PanelFetch
  <2>9. ASSUME NEW p \in Procs, Crash(p) PROVE PanelInv'
    <3>1. CASE p # Server
      BY <2>9, <2>t, <3>1, PanelFrame DEF Crash, Goto, Gone, panel
    <3>2. CASE p = Server
      <4>0. ForgetPanel /\ at' = [at EXCEPT ![Server] = "off"]
        BY <2>9, <3>2 DEF Crash, Goto, Gone
      <4>1. /\ at'[Server] = "off" /\ certState' = ""
            /\ \A f \in Fetchers : fetch'[f].at = "idle"
        BY <4>0, <2>t DEF ForgetPanel, NoFetch
      <4>2. \A q \in Requests : req'[q].at \in {"new", "done"}
        BY <4>0 DEF ForgetPanel, Finished
      <4> QED
        BY <4>1, <4>2 DEF PanelInv, DownInv, PendingInv, CarriedInv, StateInv, Quiet, InProgress
    <3> QED
      BY <3>1, <3>2
  <2>10. CASE UNCHANGED vars
    BY <2>10, PanelFrame DEF vars
  <2> QED
    BY <2>1, <2>2, <2>3, <2>4, <2>5, <2>6, <2>7, <2>8, <2>9, <2>10
    DEF Next, Process, EnsureServerCert
<1>3. PanelInv => QuietDomainAgrees
  <2> SUFFICES ASSUME PanelInv, at[Server] = "up", Quiet, \A f \in Fetchers : fetch[f].at = "idle"
               PROVE  QuietDomainAgrees
    BY DEF QuietDomainAgrees, Quiet
  <2>1. certState # "pending"
    BY DEF PanelInv, PendingInv
  <2>2. ~crossed => domain = setting
    BY DEF PanelInv, CarriedInv
  <2>3. ASSUME ~crossed, ~overtaken
        PROVE  (certState = "" <=> domain = None) /\ (certState = "ready" => domain \in cached)
    <3>1. StateInv
      BY <2>3 DEF PanelInv
    <3> QED
      BY <3>1 DEF StateInv
  <2> QED
    BY <2>1, <2>2, <2>3, Zenon DEF QuietDomainAgrees
<1> QED
  BY <1>1, <1>2, <1>3, TypeCorrect, PTL DEF Spec
=============================================================================
