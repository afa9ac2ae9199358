---------------------------- MODULE TunnelAdmin ----------------------------
(***************************************************************************)
(* Administration of the tunnels of one machine (internal/api/tunnels.go   *)
(* and the statements of internal/db/db.go it runs): creation of single    *)
(* tunnels and of ranges with rollback, the settings form with its unique  *)
(* public hostname, enabling and deletion.  The panel's requests run       *)
(* concurrently; each database statement is atomic.  Tunnels are numbered  *)
(* in the order of creation.  The listeners appear as the set of ports     *)
(* they bind; module Listeners has their detail.                           *)
(***************************************************************************)
EXTENDS Naturals, Sequences

CONSTANTS
    Specs,       \* requested ports: local, the number of local ports, and the public ones
    Hostnames,   \* public hostnames, normalised
    Creators,    \* concurrent requests to create tunnels
    Editors,     \* concurrent requests to change a tunnel's settings
    MaxTunnels,  \* bound: tunnels created
    MaxStops     \* bound: restarts of the server

Ids == 1..MaxTunnels
NoHost == "none"
Nobody == "nobody"

ASSUME TunnelAdminAssumption ==
    /\ MaxTunnels \in Nat /\ MaxStops \in Nat
    /\ \A s \in Specs : s.local \in Nat /\ s.public \in Seq(Nat)
    /\ NoHost \notin Hostnames /\ Nobody \notin Creators

VARIABLES
    client,    \* the machine's row exists
    rows,      \* tunnels: port (0 is NULL), hostname, enabled, the request that made it
    created,   \* the number of tunnels ever created
    bound,     \* ports bound by the server's listeners
    creator,   \* handleCreateTunnel: position, ports asked for, next one, tunnels made
    editor,    \* handleUpdateTunnelSettings: position, tunnel and hostname
    crossed,   \* history: two editors passed the check of one hostname for two tunnels
    stops      \* counter of the bound

vars == <<client, rows, created, bound, creator, editor, crossed, stops>>

Row == [port : Nat, host : Hostnames \cup {NoHost}, enabled : BOOLEAN,
        by : Creators \cup {Nobody}]
Live == DOMAIN rows
NoSpec == [local |-> 0, public |-> <<>>]
NoCreate == [at |-> "idle", spec |-> NoSpec, next |-> 1, made |-> {}]
NoEdit == [at |-> "idle", id |-> 0, host |-> NoHost]

TypeOK ==
    /\ client \in BOOLEAN /\ crossed \in BOOLEAN
    /\ Live \subseteq 1..created /\ \A i \in Live : rows[i] \in Row
    /\ created \in 0..MaxTunnels
    /\ bound \subseteq Nat \ {0}
    /\ creator \in [Creators -> [at : {"idle", "probe", "insert", "rollback", "done",
                                       "failed", "panic", "cut"},
                                 spec : Specs \cup {NoSpec}, next : Nat, made : SUBSET Ids]]
    /\ \A c \in Creators : creator[c].at \in {"probe", "insert"} =>
                               creator[c].next \in 1..Len(creator[c].spec.public)
    /\ editor \in [Editors -> [at : {"idle", "checked"}, id : Nat,
                               host : Hostnames \cup {NoHost}]]
    /\ stops \in Nat

Init ==
    /\ client = TRUE /\ crossed = FALSE
    /\ rows = [i \in {} |-> NoHost] /\ created = 0
    /\ bound = {}
    /\ creator = [c \in Creators |-> NoCreate]
    /\ editor = [e \in Editors |-> NoEdit]
    /\ stops = 0

Without(I) == [i \in Live \ I |-> rows[i]]
Goto(c, at) == creator' = [creator EXCEPT ![c].at = at]
Ended(c, how) == creator' = [creator EXCEPT ![c] = [NoCreate EXCEPT !.at = how]]

-----------------------------------------------------------------------------
(* handleCreateTunnel.                                                      *)

IsRange(s) == s.local > 1 \/ Len(s.public) > 1

\* The request is refused before anything is done.
Refused(s) ==
    \/ ~client
    \/ IsRange(s) /\ s.local # Len(s.public)
    \/ IsRange(s) /\ \E n \in 1..Len(s.public) : s.public[n] = 0

\* A field left out leaves its list of ports empty; indexing it panics, which
\* net/http recovers.
Panics(s) == s.local = 0 \/ s.public = <<>>

StartCreate(c, s) ==
    /\ creator[c].at = "idle"
    /\ \/ Refused(s) /\ Ended(c, "failed")
       \/ ~Refused(s) /\ Panics(s) /\ Ended(c, "panic")
       \/ /\ ~Refused(s) /\ ~Panics(s)
          /\ creator' = [creator EXCEPT ![c] = [NoCreate EXCEPT !.at = "probe", !.spec = s]]
    /\ UNCHANGED <<client, rows, created, bound, editor, crossed, stops>>

\* ProbePublicPort; a tunnel without a port of its own is not probed.
Probe(c) ==
    LET p == creator[c].spec.public[creator[c].next] IN
    /\ creator[c].at = "probe"
    /\ Goto(c, IF p \in bound THEN "rollback" ELSE "insert")
    /\ UNCHANGED <<client, rows, created, bound, editor, crossed, stops>>

\* mutant: a failed INSERT ends the request without rollback
InsertNoRollback(c) ==
    LET s == creator[c].spec
        p == s.public[creator[c].next]
        n == created + 1
    IN
    /\ creator[c].at = "insert"
    /\ IF client /\ (p = 0 \/ \A i \in Live : rows[i].port # p)
       THEN /\ n \in Ids
            /\ created' = n
            /\ rows' = [i \in Live \cup {n} |->
                           IF i = n THEN [port |-> p, host |-> NoHost, enabled |-> TRUE, by |-> c]
                           ELSE rows[i]]
            /\ IF creator[c].next = Len(s.public) THEN Ended(c, "done")
               ELSE creator' = [creator EXCEPT ![c].at = "probe", ![c].next = @ + 1,
                                               ![c].made = @ \cup {n}]
       ELSE Ended(c, "failed") /\ UNCHANGED <<rows, created>>
    /\ UNCHANGED <<client, bound, editor, crossed, stops>>

\* mutant: the last INSERT does not end the loop
InsertRunsOn(c) ==
    LET s == creator[c].spec
        p == s.public[creator[c].next]
        n == created + 1
    IN
    /\ creator[c].at = "insert"
    /\ IF client /\ (p = 0 \/ \A i \in Live : rows[i].port # p)
       THEN /\ n \in Ids
            /\ created' = n
            /\ rows' = [i \in Live \cup {n} |->
                           IF i = n THEN [port |-> p, host |-> NoHost, enabled |-> TRUE, by |-> c]
                           ELSE rows[i]]
            /\ creator' = [creator EXCEPT ![c].at = "probe", ![c].next = @ + 1,
                                            ![c].made = @ \cup {n}]
       ELSE Goto(c, "rollback") /\ UNCHANGED <<rows, created>>
    /\ UNCHANGED <<client, bound, editor, crossed, stops>>

\* CreateTunnel: public_port is UNIQUE unless NULL, the client a foreign key.
Insert(c) ==
    LET s == creator[c].spec
        p == s.public[creator[c].next]
        n == created + 1
    IN
    /\ creator[c].at = "insert"
    /\ IF client /\ (p = 0 \/ \A i \in Live : rows[i].port # p)
       THEN /\ n \in Ids
            /\ created' = n
            /\ rows' = [i \in Live \cup {n} |->
                           IF i = n THEN [port |-> p, host |-> NoHost, enabled |-> TRUE, by |-> c]
                           ELSE rows[i]]
            /\ IF creator[c].next = Len(s.public) THEN Ended(c, "done")
               ELSE creator' = [creator EXCEPT ![c].at = "probe", ![c].next = @ + 1,
                                               ![c].made = @ \cup {n}]
       ELSE Goto(c, "rollback") /\ UNCHANGED <<rows, created>>
    /\ UNCHANGED <<client, bound, editor, crossed, stops>>

\* rollback deletes what was made, one statement each, the oldest first.
Rollback(c) ==
    LET made == creator[c].made IN
    /\ creator[c].at = "rollback"
    /\ \/ \E i \in made :
             /\ \A j \in made : i <= j
             /\ rows' = Without({i})
             /\ creator' = [creator EXCEPT ![c].made = made \ {i}]
       \/ made = {} /\ Ended(c, "failed") /\ UNCHANGED rows
    /\ UNCHANGED <<client, created, bound, editor, crossed, stops>>

\* `portly-server tunnel add`: no probe.
TunnelAdd(p) ==
    LET n == created + 1 IN
    /\ client /\ n \in Ids
    /\ p = 0 \/ \A i \in Live : rows[i].port # p
    /\ created' = n
    /\ rows' = [i \in Live \cup {n} |->
                   IF i = n THEN [port |-> p, host |-> NoHost, enabled |-> TRUE, by |-> Nobody]
                   ELSE rows[i]]
    /\ UNCHANGED <<client, bound, creator, editor, crossed, stops>>

-----------------------------------------------------------------------------
(* Settings, enabling, deletion.                                            *)

HostnameTaken(h, id) == \E i \in Live \ {id} : rows[i].host = h

\* mutant: a disabled tunnel does not hold its hostname
CheckHostnameEnabled(e, id, h) ==
    /\ editor[e].at = "idle"
    /\ ~ \E i \in Live \ {id} : rows[i].host = h /\ rows[i].enabled
    /\ editor' = [editor EXCEPT ![e] = [at |-> "checked", id |-> id, host |-> h]]
    /\ crossed' = (crossed \/ \E d \in Editors :
                      editor[d].at = "checked" /\ editor[d].host = h /\ editor[d].id # id)
    /\ UNCHANGED <<client, rows, created, bound, creator, stops>>

\* The check of handleUpdateTunnelSettings: a hostname of another tunnel,
\* enabled or not, is refused.
CheckHostname(e, id, h) ==
    /\ editor[e].at = "idle"
    /\ ~HostnameTaken(h, id)
    /\ editor' = [editor EXCEPT ![e] = [at |-> "checked", id |-> id, host |-> h]]
    /\ crossed' = (crossed \/ \E d \in Editors :
                      editor[d].at = "checked" /\ editor[d].host = h /\ editor[d].id # id)
    /\ UNCHANGED <<client, rows, created, bound, creator, stops>>

\* A form without a hostname is saved without a check.
ClearHostname(id) ==
    /\ rows' = [rows EXCEPT ![id].host = NoHost]
    /\ UNCHANGED <<client, created, bound, creator, editor, crossed, stops>>

\* UpdateTunnelSettings; a tunnel deleted meanwhile is not found.
SaveSettings(e) ==
    /\ editor[e].at = "checked"
    /\ editor' = [editor EXCEPT ![e] = NoEdit]
    /\ rows' = IF editor[e].id \in Live THEN [rows EXCEPT ![editor[e].id].host = editor[e].host]
               ELSE rows
    /\ UNCHANGED <<client, created, bound, creator, crossed, stops>>

\* handleUpdateTunnel, with its probe when it enables.
SetTunnelEnabled(id) ==
    /\ ~rows[id].enabled => rows[id].port \notin bound
    /\ rows' = [rows EXCEPT ![id].enabled = ~@]
    /\ UNCHANGED <<client, created, bound, creator, editor, crossed, stops>>

DeleteTunnel(id) ==
    /\ rows' = Without({id})
    /\ UNCHANGED <<client, created, bound, creator, editor, crossed, stops>>

\* The client's tunnels go with it.
DeleteClient ==
    /\ client /\ client' = FALSE
    /\ rows' = Without(Live)
    /\ UNCHANGED <<created, bound, creator, editor, crossed, stops>>

EnabledPorts == {rows[i].port : i \in {j \in Live : rows[j].enabled}} \ {0}

\* A pass of reconcileListeners.
Reconcile ==
    /\ bound # EnabledPorts
    /\ bound' = EnabledPorts
    /\ UNCHANGED <<client, rows, created, creator, editor, crossed, stops>>

\* The server stops and starts again: requests are cut where they are.
Restart ==
    /\ stops < MaxStops
    /\ stops' = stops + 1
    /\ bound' = {}
    /\ creator' = [c \in Creators |->
                      IF creator[c].at \in {"probe", "insert", "rollback"}
                      THEN [NoCreate EXCEPT !.at = "cut"] ELSE creator[c]]
    /\ editor' = [e \in Editors |-> NoEdit]
    /\ UNCHANGED <<client, rows, created, crossed>>

-----------------------------------------------------------------------------
Next ==
    \/ \E c \in Creators : \/ \E s \in Specs : StartCreate(c, s)
                           \/ Probe(c) \/ Insert(c) \/ Rollback(c)
    \/ \E s \in Specs : \E n \in 1..Len(s.public) : TunnelAdd(s.public[n])
    \/ \E e \in Editors : \/ \E id \in Live, h \in Hostnames : CheckHostname(e, id, h)
                          \/ SaveSettings(e)
    \/ \E id \in Live : ClearHostname(id) \/ SetTunnelEnabled(id) \/ DeleteTunnel(id)
    \/ DeleteClient \/ Reconcile \/ Restart

Spec == Init /\ [][Next]_vars

-----------------------------------------------------------------------------
(* Properties.                                                              *)

\* tunnels.go:188-219: a request answered with an error has left no tunnel of
\* its range behind, whatever other requests did to its tunnels, to their ports
\* or to the machine meanwhile.  A request cut by a restart may leave some.
FailedRangeLeavesNothing ==
    \A c \in Creators : creator[c].at \in {"failed", "panic"} =>
        \A i \in Live : rows[i].by # c

\* tunnels.go:293-295: no two tunnels have one hostname and "silently shadow
\* each other", unless two settings requests for them passed the check together.
HostnamesUnique ==
    crossed \/ \A i, j \in Live : i # j /\ rows[i].host = rows[j].host => rows[i].host = NoHost
=============================================================================
