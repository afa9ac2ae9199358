------------------------------- MODULE Updates -------------------------------
(***************************************************************************)
(* Updating an installation.  "Update now" leaves a marker file            *)
(* (triggerUpdate) that portly-update.path turns into a run of             *)
(* scripts/quickstart-vps.sh; the script builds the newest release,        *)
(* installs it, restarts portly-server and reports through a progress file *)
(* that an open panel page polls.  Machines compare the checksum the       *)
(* server serves with their own file and replace themselves                *)
(* (cmd/portly-client/selfupdate.go).  An administrator may also run the   *)
(* script by hand at any time.                                             *)
(***************************************************************************)
EXTENDS Naturals

CONSTANTS
    Clicks,         \* "Check now" requests that may be in progress at once
    Agents,         \* enrolled machines with an api_base
    MaxReleases,    \* bound: commits on main, the first one is installed
    MaxRequests,    \* bound: clicks on "Update now"
    MaxHandRuns,    \* bound: runs of the script by hand
    MaxFaults       \* bound: failed stages, checks, downloads and execs, reboots

Timer == "timer"         \* the periodic update check
Checkers == {Timer} \cup Clicks
Down == 0                \* no server runs; also: no file, nothing read
Torn == 0                \* a file not completely written
Unit == "unit"           \* the script run by portly-update.service
Hand == "hand"           \* the script run over SSH
Scripts == {Unit, Hand}
LastStage == 5           \* stages 5 to 8 of the script touch nothing modelled here

ASSUME UpdatesAssumption ==
    /\ MaxReleases \in Nat \ {0} /\ MaxRequests \in Nat
    /\ MaxHandRuns \in Nat /\ MaxFaults \in Nat

VARIABLES
    head,         \* the newest commit on main
    checkout,     \* the commit the script's source directory is at
    disk,         \* the version of /usr/local/bin/portly-server
    running,      \* the version of the server process, which embeds the agents' binary
    status,       \* updateStatus: whether the panel offers an update
    check,        \* the newest commit each updatecheck.Check in progress was told
    installed,    \* is portly-update.path there?
    marker,       \* does the marker file exist?
    service,      \* portly-update.service: idle, removing the marker, or running
    script,       \* the stage of each run, or Off
    reuse,        \* was the run by hand started inside a checkout, which it does not fetch?
    progress,     \* update-progress.json: its status
    abandoned,    \* history: the last run to end wrote no ending
    page,         \* the status an open panel page holds
    owed,         \* history: a request was accepted and no run has started since
    lost,         \* history: a reboot came between the marker's removal and the script
    exe,          \* each machine's binary: the version on disk
    agentProc,    \* the version each agent process runs
    update,       \* each agent's position in checkAndApplyUpdate, the checksum, the download
    execFailed,   \* history: syscall.Exec returned since this process started
    requests, handRuns, faults

server == <<head, checkout, disk, running, status, check>>
unit   == <<installed, marker, service, owed, lost, requests>>
report == <<script, reuse, progress, abandoned, page, handRuns>>
agents == <<exe, agentProc, update, execFailed>>
updatesVars == <<server, unit, report, agents, faults>>

Off  == 0                \* a script that does not run
Idle == [at |-> "idle", sum |-> Down, tmp |-> Torn]

UpdatesInit ==
    /\ head = 1 /\ checkout = 1 /\ disk = 1 /\ running = 1 /\ status = FALSE
    /\ check = [c \in Checkers |-> Down]
    /\ installed \in BOOLEAN /\ marker = FALSE /\ service = "idle"
    /\ owed = FALSE /\ lost = FALSE /\ requests = 0
    /\ script = [s \in Scripts |-> Off] /\ reuse = FALSE
    /\ progress = "none" /\ abandoned = FALSE
    /\ page = "none" /\ handRuns = 0
    /\ exe = [a \in Agents |-> 1] /\ agentProc = [a \in Agents |-> 1]
    /\ update = [a \in Agents |-> Idle] /\ execFailed = [a \in Agents |-> FALSE]
    /\ faults = 0

Fault == faults < MaxFaults /\ faults' = faults + 1

Release ==
    /\ head < MaxReleases
    /\ head' = head + 1
    /\ UNCHANGED <<checkout, disk, running, status, check, unit, report, agents, faults>>

-----------------------------------------------------------------------------
(* The panel.                                                               *)

\* updatecheck.Check asks GitHub, every updateCheckInterval and on "Check now".
CheckAsks(c) ==
    /\ running # Down /\ check[c] = Down
    /\ check' = [check EXCEPT ![c] = head]
    /\ UNCHANGED <<head, checkout, disk, running, status, unit, report, agents, faults>>

\* Its answer is compared with the commit this server was built from.
CheckAnswers(c) ==
    /\ running # Down /\ check[c] # Down
    /\ check' = [check EXCEPT ![c] = Down]
    /\ status' = (check[c] # running)
    /\ UNCHANGED <<head, checkout, disk, running, unit, report, agents, faults>>

\* A check that cannot reach GitHub reports no update.
CheckFails(c) ==
    /\ running # Down /\ check[c] # Down /\ Fault
    /\ check' = [check EXCEPT ![c] = Down]
    /\ status' = FALSE
    /\ UNCHANGED <<head, checkout, disk, running, unit, report, agents>>

\* triggerUpdate: refused without the path unit, otherwise the marker is written.
ApplyUpdate ==
    /\ running # Down /\ installed
    /\ requests < MaxRequests
    /\ requests' = requests + 1
    /\ marker' = TRUE /\ owed' = TRUE
    /\ UNCHANGED <<server, installed, service, lost, report, agents, faults>>

\* readUpdateProgress as the page polls it.
Poll ==
    /\ running # Down
    /\ page # progress
    /\ page' = progress
    /\ UNCHANGED <<server, unit, script, reuse, progress, abandoned, handRuns, agents, faults>>

-----------------------------------------------------------------------------
(* systemd's part: external.                                                *)

\* PathExists is checked whenever the service is not active.
PathTriggers ==
    /\ installed /\ marker /\ service = "idle"
    /\ service' = "pre"
    /\ UNCHANGED <<server, installed, marker, owed, lost, requests, report, agents, faults>>

\* ExecStartPre removes the marker before the script starts.
RemoveMarker ==
    /\ service = "pre"
    /\ marker' = FALSE
    /\ service' = "started"
    /\ UNCHANGED <<server, installed, owed, lost, requests, report, agents, faults>>

Begin(s) == script' = [script EXCEPT ![s] = 1] /\ progress' = "running"

StartScript ==
    /\ service = "started"
    /\ service' = "run" /\ owed' = FALSE
    /\ Begin(Unit)
    /\ UNCHANGED <<server, installed, marker, lost, requests, reuse, abandoned, page, handRuns,
                   agents, faults>>

\* mutant: the marker is removed again when the update is over
ServiceEndsRemoving ==
    /\ service = "run" /\ script[Unit] = Off
    /\ service' = "idle" /\ marker' = FALSE
    /\ UNCHANGED <<server, installed, owed, lost, requests, report, agents, faults>>

ServiceEnds ==
    /\ service = "run" /\ script[Unit] = Off
    /\ service' = "idle"
    /\ UNCHANGED <<server, installed, marker, owed, lost, requests, report, agents, faults>>

RunByHand ==
    /\ script[Hand] = Off /\ handRuns < MaxHandRuns
    /\ handRuns' = handRuns + 1
    /\ reuse' \in BOOLEAN
    /\ Begin(Hand)
    /\ UNCHANGED <<server, unit, abandoned, page, agents, faults>>

-----------------------------------------------------------------------------
(* quickstart-vps.sh.                                                       *)

Fetches(s) == s = Unit \/ ~reuse
Leaves(s)  == reuse' = (reuse /\ s # Hand)     \* a script is over

\* What a stage leaves behind: 2 fetches, 3 builds and installs, 4 installs the
\* units and restarts the server.  The next stage begins by reporting itself.
\* A checkout that is used as it was found may be at any commit.
Stage(s) ==
    LET n == script[s] IN
    /\ n # Off /\ n < LastStage
    /\ script' = [script EXCEPT ![s] = n + 1]
    /\ progress'  = "running"
    /\ checkout'  = IF n = 2 /\ Fetches(s) THEN head ELSE checkout
    /\ disk' \in IF n # 3 THEN {disk} ELSE IF Fetches(s) THEN {checkout} ELSE 1..head
    /\ installed' = (installed \/ n = 4)
    /\ running'   = IF n = 4 THEN Down ELSE running
    /\ check'     = IF n = 4 THEN [c \in Checkers |-> Down] ELSE check
    /\ UNCHANGED <<head, status, marker, service, owed, lost, requests, reuse, abandoned, page,
                   handRuns, agents, faults>>

Finish(s) ==
    /\ script[s] = LastStage
    /\ script' = [script EXCEPT ![s] = Off]
    /\ progress' = "done" /\ abandoned' = FALSE /\ Leaves(s)
    /\ UNCHANGED <<server, unit, page, handRuns, agents, faults>>

\* mutant: the ERR trap is not set
StageFailsSilently(s) ==
    /\ script[s] # Off /\ Fault
    /\ script' = [script EXCEPT ![s] = Off] /\ Leaves(s)
    /\ UNCHANGED <<server, unit, progress, abandoned, page, handRuns, agents>>

\* The ERR trap writes "failed" and set -e ends the script.
StageFails(s) ==
    /\ script[s] # Off /\ Fault
    /\ script' = [script EXCEPT ![s] = Off]
    /\ progress' = "failed" /\ abandoned' = FALSE /\ Leaves(s)
    /\ UNCHANGED <<server, unit, page, handRuns, agents>>

\* die: exit does not run the ERR trap.
Die(s) ==
    /\ script[s] = 1 /\ Fault
    /\ script' = [script EXCEPT ![s] = Off]
    /\ abandoned' = TRUE /\ Leaves(s)
    /\ UNCHANGED <<server, unit, progress, page, handRuns, agents>>

Script(s) == Stage(s) \/ Finish(s)

\* The new process runs what is on disk now, and checks for updates before it
\* listens to anybody, so that no other check is in progress.  The check may fail.
ServerStarts ==
    /\ running = Down
    /\ running' = disk
    /\ \/ status' = (disk # head) /\ UNCHANGED faults
       \/ status' = FALSE /\ Fault
    /\ UNCHANGED <<head, checkout, disk, check, unit, report, agents>>

\* The VPS restarts: scripts and server are gone, the files stay.
Reboot ==
    /\ Fault
    /\ running' = Down
    /\ check' = [c \in Checkers |-> Down]
    /\ service' = "idle"
    /\ lost' = (lost \/ service = "started")
    /\ script' = [s \in Scripts |-> Off]
    /\ reuse' = FALSE
    /\ abandoned' = (abandoned \/ \E s \in Scripts : script[s] # Off)
    /\ UNCHANGED <<head, checkout, disk, status, installed, marker, owed, requests, progress,
                   page, handRuns, agents>>

-----------------------------------------------------------------------------
(* checkAndApplyUpdate on each machine.                                     *)

FetchChecksum(a) ==
    /\ update[a].at = "idle" /\ running # Down
    /\ update' = [update EXCEPT ![a] = [at |-> "hash", sum |-> running, tmp |-> Torn]]
    /\ UNCHANGED <<server, unit, report, exe, agentProc, execFailed, faults>>

\* The file is hashed, not the process that runs.
HashFile(a) ==
    /\ update[a].at = "hash"
    /\ update' = IF exe[a] = update[a].sum THEN [update EXCEPT ![a] = Idle]
                 ELSE [update EXCEPT ![a].at = "download"]
    /\ UNCHANGED <<server, unit, report, exe, agentProc, execFailed, faults>>

\* The request for the binary is answered by the version that runs now, which
\* may have been started since the checksum was asked for; the temporary file is
\* created.
Download(a) ==
    /\ update[a].at = "download" /\ running # Down
    /\ update' = [update EXCEPT ![a].at = "body", ![a].tmp = running]
    /\ UNCHANGED <<server, unit, report, exe, agentProc, execFailed, faults>>

\* The body ends in the temporary file as it was sent, even if the server is gone ...
BodyArrives(a) ==
    /\ update[a].at = "body"
    /\ update' = [update EXCEPT ![a].at = "verify"]
    /\ UNCHANGED <<server, unit, report, exe, agentProc, execFailed, faults>>

\* ... or what a proxy or a bad link made of it: external.
BodyDamaged(a) ==
    /\ update[a].at = "body" /\ Fault
    /\ update' = [update EXCEPT ![a].at = "verify", ![a].tmp = Torn]
    /\ UNCHANGED <<server, unit, report, exe, agentProc, execFailed>>

\* A refused or broken request, or a restart of the server while it answers,
\* removes the temporary file; the loop tries again later.
RequestFails(a) ==
    /\ update[a].at \in {"download", "body"}
    /\ \/ running = Down /\ UNCHANGED faults
       \/ Fault
    /\ update' = [update EXCEPT ![a] = Idle]
    /\ UNCHANGED <<server, unit, report, exe, agentProc, execFailed>>

\* mutant: what has arrived is not verified
VerifySkips(a) ==
    /\ update[a].at = "verify"
    /\ update' = [update EXCEPT ![a].at = "rename"]
    /\ UNCHANGED <<server, unit, report, exe, agentProc, execFailed, faults>>

\* mutant: a failed check ends the loop
VerifyOnce(a) ==
    /\ update[a].at = "verify"
    /\ update' = IF update[a].tmp = update[a].sum THEN [update EXCEPT ![a].at = "rename"]
                 ELSE [update EXCEPT ![a].at = "ended"]
    /\ UNCHANGED <<server, unit, report, exe, agentProc, execFailed, faults>>

\* The checksum of what has arrived must be the one asked for at the start.
Verify(a) ==
    /\ update[a].at = "verify"
    /\ update' = IF update[a].tmp = update[a].sum THEN [update EXCEPT ![a].at = "rename"]
                 ELSE [update EXCEPT ![a] = Idle]
    /\ UNCHANGED <<server, unit, report, exe, agentProc, execFailed, faults>>

Rename(a) ==
    /\ update[a].at = "rename"
    /\ exe' = [exe EXCEPT ![a] = update[a].tmp]
    /\ update' = [update EXCEPT ![a].at = "exec"]
    /\ UNCHANGED <<server, unit, report, agentProc, execFailed, faults>>

Exec(a) ==
    /\ update[a].at = "exec"
    /\ agentProc' = [agentProc EXCEPT ![a] = exe[a]]
    /\ update' = [update EXCEPT ![a] = Idle]
    /\ execFailed' = [execFailed EXCEPT ![a] = FALSE]
    /\ UNCHANGED <<server, unit, report, exe, faults>>

ExecFails(a) ==
    /\ update[a].at = "exec" /\ Fault
    /\ update' = [update EXCEPT ![a] = Idle]
    /\ execFailed' = [execFailed EXCEPT ![a] = TRUE]
    /\ UNCHANGED <<server, unit, report, exe, agentProc>>

\* The machine restarts at any point and runs the file it has.
AgentRestarts(a) ==
    /\ Fault
    /\ agentProc' = [agentProc EXCEPT ![a] = exe[a]]
    /\ update' = [update EXCEPT ![a] = Idle]
    /\ execFailed' = [execFailed EXCEPT ![a] = FALSE]
    /\ UNCHANGED <<server, unit, report, exe>>

CheckAndApplyUpdate(a) ==
    \/ FetchChecksum(a) \/ HashFile(a) \/ Download(a) \/ BodyArrives(a)
    \/ Verify(a) \/ Rename(a) \/ Exec(a)

-----------------------------------------------------------------------------
Check(c) == CheckAsks(c) \/ CheckAnswers(c)
System == PathTriggers \/ RemoveMarker \/ StartScript \/ ServiceEnds

UpdatesNext ==
    \/ Release \/ ApplyUpdate \/ Poll \/ RunByHand
    \/ System \/ ServerStarts \/ Reboot
    \/ \E c \in Checkers : Check(c) \/ CheckFails(c)
    \/ \E s \in Scripts : Script(s) \/ StageFails(s) \/ Die(s)
    \/ \E a \in Agents : CheckAndApplyUpdate(a) \/ RequestFails(a) \/ BodyDamaged(a)
                         \/ ExecFails(a) \/ AgentRestarts(a)

UpdatesSpec == UpdatesInit /\ [][UpdatesNext]_updatesVars

\* systemd, the script, the server, the poll timer, the checks and the agents'
\* loop all run on; nobody has to release, click, or run the script, and nothing
\* has to fail.  Each step of Vps happens only so often per request, run or
\* restart, so fairness of their union leaves none of them out; a check that was
\* asked for is answered, but only the timer has to ask.  An agent's request to a
\* server that is down fails (RequestFails).
Vps == System \/ ServerStarts \/ Poll \/ \E s \in Scripts : Script(s)
PeriodicCheck == CheckAsks(Timer) \/ \E c \in Checkers : CheckAnswers(c)

UpdatesFairness ==
    /\ WF_updatesVars(Vps)
    /\ WF_updatesVars(PeriodicCheck)
    /\ \A a \in Agents : WF_updatesVars(CheckAndApplyUpdate(a))

FairUpdatesSpec == UpdatesSpec /\ UpdatesFairness

-----------------------------------------------------------------------------
(* Properties.                                                              *)

\* An accepted request is followed by a run of the script that starts after it,
\* even when it is made while another run removes the marker, works, or restarts
\* the server; only a reboot right between the removal and the start loses one
\* (main.go:71-93).
RequestRuns == [](owed => <>(~owed \/ lost))

\* Once all runs are over, no open page keeps showing "Portly is updating": it
\* has seen the ending, unless the last run ended without writing one.  And
\* whatever order the timer's and the clicks' checks are answered in, a late
\* answer over a newer one included, the panel in the end offers an update
\* exactly when there is one (updates.go:30-39, 83-97, main.go:286-295).
PanelSettles ==
    /\ <>[]((\A s \in Scripts : script[s] = Off) => page # "running" \/ abandoned)
    /\ <>[](running # Down => status = (running # head))

\* A machine's executable is at every instant a complete binary, so any restart
\* of the machine comes back with an agent; and what an update has put there is
\* the very binary whose checksum the server announced, however the server is
\* replaced, by a newer or an older version, between checksum, request and body
\* (selfupdate.go:65-110, 136-182).
BinaryStaysWhole ==
    \A a \in Agents : /\ exe[a] \in 1..head
                      /\ update[a].at = "exec" => exe[a] = update[a].sum

\* Every machine ends up running the version its server runs, whatever restarts
\* come between checksum, download, rename and exec; the exception is a process
\* whose exec failed, since it finds its file up to date from then on
\* (selfupdate.go:65-110).
AgentsFollow ==
    \A a \in Agents : <>[](running # Down => agentProc[a] = running \/ execFailed[a])
=============================================================================
