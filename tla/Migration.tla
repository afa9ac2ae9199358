------------------------------ MODULE Migration ------------------------------
(***************************************************************************)
(* Opening the database (internal/db/db.go, Open): the tables of           *)
(* schema.sql, the columns added one by one, and the rebuild of the        *)
(* tunnels table that makes public_port nullable.  The server and every    *)
(* portly-server command open the same file, each over one connection of   *)
(* its own, and a server of an older version may still be writing to it.   *)
(*                                                                         *)
(* SQLite is external: a statement outside a transaction commits by        *)
(* itself, a transaction holds the only write lock from its first write,   *)
(* readers see what is committed, and a process that dies takes its        *)
(* transaction with it.  A statement that finds the lock taken may wait    *)
(* or fail with SQLITE_BUSY.                                               *)
(***************************************************************************)
EXTENDS Naturals

CONSTANTS
    Server,       \* the portly-server run process, and its successors
    Commands,     \* portly-server client ..., portly-server tunnel ... processes
    Rows,         \* the tunnels that may be stored
    MaxCrashes    \* bound: processes killed

Procs == {Server} \cup Commands
Nobody == "nobody"

ASSUME ProcsAssumption ==
    /\ Server \notin Commands
    /\ Nobody \notin Procs
    /\ MaxCrashes \in Nat

VARIABLES
    at,         \* each process's position; an old server is "old", a new one "up"
    column,     \* the migration each process is at, an index of migrateSchema's list
    db,         \* what is committed: the schema, the tunnels, those with samples
    work,       \* the transaction's own view of it
    lock,       \* who holds the write lock
    fk,         \* PRAGMA foreign_keys of each process's connection
    written,    \* history: the tunnels, and the samples, stored and not deleted
    crashes

schemaVars == <<column, db, work, lock, fk, written, crashes>>

\* Column 1..3 are tunnels.traffic_limit_bytes, public_hostname and
\* proxy_protocol, 4 is clients.traffic_limit_bytes: migrateSchema's order.
Columns == 1..4
Database == [tables : 0..2, columns : SUBSET Columns, notNull : BOOLEAN,
             tunnels : SUBSET Rows, samples : SUBSET Rows]
Fresh == [tables |-> 0, columns |-> {}, notNull |-> FALSE, tunnels |-> {}, samples |-> {}]
Complete(d) == d.tables = 2 /\ d.columns = Columns /\ ~d.notNull
Older(n, R) == [tables |-> 2, columns |-> 1..n, notNull |-> TRUE, tunnels |-> R, samples |-> R]

OpenSteps == {"schema", "has", "alter", "notnull", "fkoff", "copy", "drop", "rename", "commit",
              "fkon"}

\* A new installation, or one of an older version whose columns end at some
\* point of the list, its server still running.
MigrationInit ==
    /\ \/ db = Fresh /\ at = [p \in Procs |-> "off"]
       \/ \E n \in 0..4, R \in SUBSET Rows :
              db = Older(n, R) /\ at = [p \in Procs |-> IF p = Server THEN "old" ELSE "off"]
    /\ column = [p \in Procs |-> 1]
    /\ work = Fresh
    /\ lock = Nobody
    /\ fk = [p \in Procs |-> TRUE]
    /\ written = [tunnels |-> db.tunnels, samples |-> db.samples]
    /\ crashes = 0

Goto(p, where) == at' = [at EXCEPT ![p] = where]

\* The process ends, by a returned error or a panic; a command is not run again.
Gone(p) == IF p = Server THEN "off" ELSE "done"

-----------------------------------------------------------------------------
(* Open, one statement at a time.                                           *)

OpenFile(p) ==
    /\ at[p] = "off"
    /\ Goto(p, "schema")
    /\ column' = [column EXCEPT ![p] = 1]
    /\ fk' = [fk EXCEPT ![p] = TRUE]
    /\ UNCHANGED <<db, work, lock, written, crashes>>

\* mutant: a new database is taken to have every column from schema.sql
ApplySchemaTrusts(p) ==
    /\ at[p] = "schema"
    /\ IF db.tables = 2
       THEN /\ Goto(p, "has")
            /\ UNCHANGED db
       ELSE /\ lock = Nobody
            /\ db' = IF db.tables = 0 THEN [db EXCEPT !.tables = 1]
                     ELSE [db EXCEPT !.tables = 2, !.columns = {1}]
            /\ at' = IF db.tables = 0 THEN at ELSE [at EXCEPT ![p] = "notnull"]
    /\ UNCHANGED <<column, work, lock, fk, written, crashes>>

\* CREATE TABLE IF NOT EXISTS, each its own transaction: first clients, then
\* tunnels, which schema.sql gives its first later column and a nullable port.
ApplySchema(p) ==
    /\ at[p] = "schema"
    /\ IF db.tables = 2
       THEN /\ Goto(p, "has")
            /\ UNCHANGED db
       ELSE /\ lock = Nobody
            /\ db' = IF db.tables = 0 THEN [db EXCEPT !.tables = 1]
                     ELSE [db EXCEPT !.tables = 2, !.columns = {1}]
            /\ UNCHANGED at
    /\ UNCHANGED <<column, work, lock, fk, written, crashes>>

HasColumn(p) ==
    /\ at[p] = "has"
    /\ IF column[p] \notin Columns
       THEN Goto(p, "notnull") /\ column' = [column EXCEPT ![p] = 1]
       ELSE IF column[p] \in db.columns
            THEN column' = [column EXCEPT ![p] = @ + 1] /\ UNCHANGED at
            ELSE Goto(p, "alter") /\ UNCHANGED column
    /\ UNCHANGED <<db, work, lock, fk, written, crashes>>

\* "duplicate column name": another process added it since the check.
AddColumn(p) ==
    /\ at[p] = "alter"
    /\ lock = Nobody
    /\ IF column[p] \in db.columns
       THEN Goto(p, Gone(p)) /\ UNCHANGED db
       ELSE Goto(p, "has") /\ db' = [db EXCEPT !.columns = @ \cup {column[p]}]
    /\ UNCHANGED <<column, work, lock, fk, written, crashes>>

ColumnNotNull(p) ==
    /\ at[p] = "notnull"
    /\ Goto(p, IF db.notNull THEN "fkoff" ELSE "opened")
    /\ UNCHANGED schemaVars

\* mutant: foreign keys are only switched off inside the transaction, a no-op
ForeignKeysStayOn(p) ==
    /\ at[p] = "fkoff"
    /\ Goto(p, "copy")
    /\ UNCHANGED schemaVars

ForeignKeysOff(p) ==
    /\ at[p] = "fkoff"
    /\ fk' = [fk EXCEPT ![p] = FALSE]
    /\ Goto(p, "copy")
    /\ UNCHANGED <<column, db, work, lock, written, crashes>>

\* BEGIN, CREATE TABLE tunnels_new and the copy of every row.
CopyRows(p) ==
    /\ at[p] = "copy"
    /\ lock = Nobody
    /\ lock' = p
    /\ work' = db
    /\ Goto(p, "drop")
    /\ UNCHANGED <<column, db, fk, written, crashes>>

\* With foreign keys enforced, DROP TABLE deletes the rows first, and the
\* deletes cascade to traffic_samples.
DropOld(p) ==
    /\ at[p] = "drop"
    /\ work' = IF fk[p] THEN [work EXCEPT !.samples = @ \ work.tunnels] ELSE work
    /\ Goto(p, "rename")
    /\ UNCHANGED <<column, db, lock, fk, written, crashes>>

\* The rename, the index and foreign_key_check, which aborts on an orphan.
RenameNew(p) ==
    /\ at[p] = "rename"
    /\ IF work.samples \subseteq work.tunnels
       THEN work' = [work EXCEPT !.notNull = FALSE] /\ Goto(p, "commit") /\ UNCHANGED lock
       ELSE work' = Fresh /\ Goto(p, Gone(p)) /\ lock' = Nobody
    /\ UNCHANGED <<column, db, fk, written, crashes>>

Commit(p) ==
    /\ at[p] = "commit"
    /\ db' = work
    /\ work' = Fresh
    /\ lock' = Nobody
    /\ Goto(p, "fkon")
    /\ UNCHANGED <<column, fk, written, crashes>>

\* The deferred PRAGMA foreign_keys=ON, run after the transaction has ended.
ForeignKeysOn(p) ==
    /\ at[p] = "fkon"
    /\ fk' = [fk EXCEPT ![p] = TRUE]
    /\ Goto(p, "opened")
    /\ UNCHANGED <<column, db, work, lock, written, crashes>>

\* A write that meets another process's transaction: Open returns the error.
Busy(p) ==
    /\ at[p] \in {"schema", "alter", "copy"}
    /\ lock # Nobody
    /\ Goto(p, Gone(p))
    /\ UNCHANGED schemaVars

Open(p) ==
    \/ OpenFile(p) \/ ApplySchema(p) \/ HasColumn(p) \/ AddColumn(p) \/ ColumnNotNull(p)
    \/ ForeignKeysOff(p) \/ CopyRows(p) \/ DropOld(p) \/ RenameNew(p) \/ Commit(p)
    \/ ForeignKeysOn(p) \/ Busy(p)

-----------------------------------------------------------------------------
(* Using the open database.                                                 *)

\* A tunnel is created and its first traffic sample stored, by a server of
\* either version or by a command.
StoreTunnel(p) ==
    /\ at[p] \in {"old", "up", "opened"} /\ (at[p] = "opened" => p # Server)
    /\ lock = Nobody
    /\ \E r \in Rows \ (db.tunnels \cup db.samples) :
        /\ db' = [db EXCEPT !.tunnels = @ \cup {r}, !.samples = @ \cup {r}]
        /\ written' = [tunnels |-> written.tunnels \cup {r}, samples |-> written.samples \cup {r}]
    /\ at' = IF at[p] = "opened" THEN [at EXCEPT ![p] = "done"] ELSE at
    /\ UNCHANGED <<column, work, lock, fk, crashes>>

\* DELETE FROM tunnels: its samples go with it if this connection enforces
\* foreign keys.
DeleteTunnel(p) ==
    /\ at[p] \in {"old", "up", "opened"} /\ (at[p] = "opened" => p # Server)
    /\ lock = Nobody
    /\ \E r \in db.tunnels :
        /\ db' = [db EXCEPT !.tunnels = @ \ {r}, !.samples = IF fk[p] THEN @ \ {r} ELSE @]
        /\ written' = [tunnels |-> written.tunnels \ {r}, samples |-> written.samples \ {r}]
    /\ at' = IF at[p] = "opened" THEN [at EXCEPT ![p] = "done"] ELSE at
    /\ UNCHANGED <<column, work, lock, fk, crashes>>

-----------------------------------------------------------------------------
(* Properties of the stored data.                                           *)

MigrationTypeOK ==
    /\ column \in [Procs -> 1..5]
    /\ \A p \in Procs : at[p] = "alter" => column[p] \in Columns
    /\ db \in Database /\ work \in Database
    /\ lock \in Procs \cup {Nobody}
    /\ fk \in [Procs -> BOOLEAN]
    /\ written \in [tunnels : SUBSET Rows, samples : SUBSET Rows]
    /\ crashes \in Nat

\* However many processes migrate at once, and whatever is killed, no tunnel and
\* no traffic sample is lost, none comes back, and a deleted tunnel leaves no
\* sample behind (db.go:94-164).
DataKept == db.tunnels = written.tunnels /\ db.samples = written.samples
=============================================================================
