--------------------------- MODULE ConfigUpdate ---------------------------
(* The port-forward CLI changing the configuration of a running system        *)
(* (configure, init, add, remove, migrate, apply, start, restart and stop of   *)
(* src/src/bin/port-forward.rs),                                              *)
(* with the daemon as the CLI sees it and the service manager between them.    *)
(* The CLIs share nothing but the file and the daemon, and take no lock.       *)
(*                                                                            *)
(* Simplifications                                                            *)
(*  - A deployable configuration is its set of rule names; Template is what    *)
(*    init writes without questions and Legacy a file that migrate repairs,    *)
(*    both unfit to be deployed (module Listeners says why).                   *)
(*  - A command that its checks refuse at once has no action.                  *)
(*  - The daemon's reload is two steps, reading the file and committing it;   *)
(*    module Daemon has the rest, the save failing after the commit included. *)
(*  - The ten seconds of wait_for_daemon_ready are not counted: Expire is the  *)
(*    passing of the deadline.                                                *)
EXTENDS Sequences

CONSTANTS Cli, Name, Missing, Template, Legacy, Faults

\* What may go wrong: reloads of a valid file refused (a foreign hook, a moved
\* address), the daemon killed (a crash, or SIGTERM, which it does not handle), a
\* start-up longer than the wait, a full disk, an automatic restart among the steps
\* of a CLI that began after the daemon's end.
FaultKind == {"reject", "crash", "slow", "write", "overlap"}

Content == (SUBSET Name) \ {{}}
Files == Content \cup {Missing, Template, Legacy}

ASSUME ConfigUpdateAssumption ==
    /\ Faults \subseteq FaultKind
    /\ \A f \in Content : f \notin {Missing, Template, Legacy}

VARIABLES
    file,       \* config.toml
    rules,      \* the rules in the kernel, {} for none
    unit,       \* the service manager wants the daemon to run
    daemon,     \* control point of the daemon process
    loaded,     \* what its running reload read
    socket,     \* the control socket's path exists
    requests,   \* apply requests connected to the daemon, in order
    reply,      \* answer waiting for each CLI
    pc, job,    \* control point and command of each CLI
    previous,   \* the configuration a CLI read before it wrote its own
    candidate,  \* the configuration it wants
    outcome,    \* what it reported last
    backups     \* contents of the backup files

service == <<rules, unit, daemon, loaded, socket, requests, reply>>
client == <<pc, job, previous, candidate, outcome, backups>>
vars == <<file, service, client>>

Fault(kind) == kind \in Faults
Active == daemon # "down"
Listening == daemon \in {"serving", "applying", "replying"}

--------------------------------------------------------------------------
(* The CLI                                                                  *)
Updates == {"configure", "add", "remove"}
Rewrites == Updates \cup {"migrate"}
Deployable(f) == f \notin {Missing, Template, Legacy}

Goto(c, point) == pc' = [pc EXCEPT ![c] = point]
Finish(c, result) == Goto(c, "idle") /\ outcome' = [outcome EXCEPT ![c] = result]

Begin(c, kind, wanted) ==
    /\ pc[c] = "idle"
    /\ Goto(c, IF kind \in Rewrites THEN "read" ELSE kind)
    /\ job' = [job EXCEPT ![c] = kind]
    /\ candidate' = [candidate EXCEPT ![c] = wanted]
    /\ outcome' = [outcome EXCEPT ![c] = "none"]
    /\ UNCHANGED <<file, service, previous, backups>>

\* The wizard reads the file first and asks its questions after that; an existing
\* file turns configure into add.  init asks the same questions.
Configure(c) == file = Missing /\ \E n \in Name : Begin(c, "configure", {n})
Add(c) == Deployable(file) /\ \E n \in Name \ file : Begin(c, "add", file \cup {n})

\* Mutant: the last rule may go.
AnyRemovable == file
Removable == IF \E n \in file : file = {n} THEN {} ELSE file
Remove(c) == Deployable(file) /\ \E n \in Removable : Begin(c, "remove", file \ {n})

\* apply validates the file and asks the daemon.
Apply(c) == Deployable(file) /\ Begin(c, "call", file)

\* service_with_valid_config; stop needs no file.
StartService(c) == Deployable(file) /\ Begin(c, "start", file)
RestartService(c) == Deployable(file) /\ Begin(c, "restart", file)
StopService(c) == Begin(c, "stop", file)

\* migrate_config_file, and init without a terminal.
Migrate(c) == file = Legacy /\ \E repaired \in Content : Begin(c, "migrate", repaired)
InitTemplate(c) == file = Missing /\ Begin(c, "template", Template)

\* write_new_config: the path is looked at once more.
Create(c) ==
    /\ pc[c] = "template"
    /\ IF file = Missing THEN Goto(c, "write") /\ UNCHANGED outcome ELSE Finish(c, "failed")
    /\ UNCHANGED <<file, service, job, previous, candidate, backups>>

\* Mutant: the old content is not kept.
NoBackup(contents) == backups
BackupConfiguration(contents) ==
    IF contents = Missing THEN backups ELSE backups \cup {contents}

\* commit_config_update: read and back up, then replace.
ReadPrevious(c) ==
    /\ pc[c] = "read"
    /\ previous' = [previous EXCEPT ![c] = file]
    /\ \/ backups' = BackupConfiguration(file) /\ Goto(c, "write") /\ UNCHANGED outcome
       \/ Fault("write") /\ Finish(c, "failed") /\ UNCHANGED backups
    /\ UNCHANGED <<file, service, job, candidate>>

\* Only an update has its candidate deployed.
Write(c) ==
    /\ pc[c] = "write"
    /\ \/ /\ file' = candidate[c]
          /\ IF job[c] \in Updates
               THEN Goto(c, IF socket THEN "call" ELSE "start") /\ UNCHANGED outcome
               ELSE Finish(c, "written")
       \/ Fault("write") /\ Finish(c, "failed") /\ UNCHANGED file
    /\ UNCHANGED <<service, job, previous, candidate, backups>>

\* Where an error leads: an update puts the old file back.
Recover(c) ==
    IF job[c] \in Updates THEN Goto(c, "restore") /\ UNCHANGED outcome
    ELSE Finish(c, "failed")

\* systemctl start: nothing to do for an active unit; otherwise the unit's
\* ExecStartPre refuses a missing or unfit file, and the process is forked.
Start(c) ==
    /\ pc[c] = "start"
    /\ \/ /\ Active \/ Deployable(file)
          /\ unit' = TRUE
          /\ daemon' = IF Active THEN daemon ELSE "starting"
          /\ Goto(c, "wait") /\ UNCHANGED outcome
       \/ /\ ~Active /\ ~Deployable(file)
          /\ Recover(c)
          /\ UNCHANGED <<unit, daemon>>
    /\ UNCHANGED <<file, rules, loaded, socket, requests, reply, job, previous, candidate, backups>>

\* Mutant: the wait has no deadline.
NeverExpired == FALSE

\* The deadline passes while there is no daemon; with "slow", also during its
\* start-up.
Expired == Fault("slow") \/ daemon = "down"

\* wait_for_daemon_ready: the unit is active and the socket's path exists.
Ready(c) ==
    /\ pc[c] = "wait" /\ Active /\ socket
    /\ IF job[c] \in Updates THEN Goto(c, "recheck") /\ UNCHANGED outcome
       ELSE Finish(c, "ready")
    /\ UNCHANGED <<file, service, job, previous, candidate, backups>>

Expire(c) ==
    /\ pc[c] = "wait" /\ Expired
    /\ Recover(c)
    /\ UNCHANGED <<file, service, job, previous, candidate, backups>>

\* The socket is looked at once more; without it the new file stays.
Recheck(c) ==
    /\ pc[c] = "recheck"
    /\ IF socket THEN Goto(c, "call") /\ UNCHANGED outcome ELSE Finish(c, "failed")
    /\ UNCHANGED <<file, service, job, previous, candidate, backups>>

\* control::call: a path nobody listens on refuses the connection.
Call(c) ==
    /\ pc[c] = "call"
    /\ IF Listening
         THEN requests' = Append(requests, c) /\ Goto(c, "await") /\ UNCHANGED outcome
         ELSE Recover(c) /\ UNCHANGED requests
    /\ UNCHANGED <<file, rules, unit, daemon, loaded, socket, reply, job, previous, candidate, backups>>

\* Mutant: a connection that ends without an answer counts as success.
SucceededUnlessRejected(answer) == answer # "rejected"
Succeeded(answer) == answer = "ok"

Answered(c) ==
    /\ pc[c] = "await" /\ reply[c] # "none"
    /\ reply' = [reply EXCEPT ![c] = "none"]
    /\ IF Succeeded(reply[c]) THEN Finish(c, "applied") ELSE Recover(c)
    /\ UNCHANGED <<file, rules, unit, daemon, loaded, socket, requests, job, previous, candidate, backups>>

Restored(c) == previous[c]

\* The file is written back, or removed if there was none.
Restore(c) ==
    /\ pc[c] = "restore"
    /\ \/ file' = Restored(c) /\ Finish(c, "restored")
       \/ Fault("write") /\ Finish(c, "failed") /\ UNCHANGED file
    /\ UNCHANGED <<service, job, previous, candidate, backups>>

--------------------------------------------------------------------------
(* The daemon and its service manager                                       *)

\* A reload reads the file: at start-up, and for the oldest request.
StartupLoad ==
    /\ daemon = "starting"
    /\ loaded' = file
    /\ daemon' = IF Deployable(file) THEN "loading" ELSE "down"
    /\ UNCHANGED <<file, rules, unit, socket, requests, reply, client>>

StartupCommit ==
    /\ daemon = "loading"
    /\ \/ rules' = loaded /\ daemon' = "binding"
       \/ Fault("reject") /\ daemon' = "down" /\ UNCHANGED rules
    /\ UNCHANGED <<file, unit, loaded, socket, requests, reply, client>>

\* bind_socket takes a socket that is there for a stale one and removes it.
RemoveStale ==
    /\ daemon = "binding" /\ socket
    /\ socket' = FALSE
    /\ UNCHANGED <<file, rules, unit, daemon, loaded, requests, reply, client>>

Bind ==
    /\ daemon = "binding" /\ ~socket
    /\ socket' = TRUE /\ daemon' = "serving"
    /\ UNCHANGED <<file, rules, unit, loaded, requests, reply, client>>

HandleRequest ==
    /\ daemon = "serving" /\ requests # <<>>
    /\ loaded' = file
    /\ daemon' = "applying"
    /\ UNCHANGED <<file, rules, unit, socket, requests, reply, client>>

Answer(text) ==
    /\ daemon' = "serving"
    /\ requests' = Tail(requests)
    /\ reply' = [reply EXCEPT ![Head(requests)] = text]

CommitRequest ==
    /\ daemon = "applying"
    /\ \/ /\ Deployable(loaded)
          /\ rules' = loaded /\ daemon' = "replying"
          /\ UNCHANGED <<requests, reply>>
       \/ /\ ~Deployable(loaded) \/ Fault("reject")
          /\ Answer("rejected")
          /\ UNCHANGED rules
    /\ UNCHANGED <<file, unit, loaded, socket, client>>

SendReply ==
    /\ daemon = "replying"
    /\ Answer("ok")
    /\ UNCHANGED <<file, rules, unit, loaded, socket, client>>

\* The process ends: rules and socket stay, connections break.
Die ==
    /\ daemon' = "down"
    /\ requests' = <<>>
    /\ reply' = [c \in Cli |->
                   IF \E i \in DOMAIN requests : requests[i] = c THEN "lost" ELSE reply[c]]
    /\ UNCHANGED <<file, rules, loaded, socket>>

Crash == Fault("crash") /\ Active /\ Die /\ UNCHANGED <<unit, client>>

\* systemctl stop and restart: SIGTERM, which the daemon does not handle.  Without
\* the fault, nobody stops the daemon under a running command.
Halt(c) ==
    /\ pc[c] \in {"stop", "restart"}
    /\ Die
    /\ IF job[c] = "stop" THEN unit' = FALSE /\ Finish(c, "stopped")
       ELSE Goto(c, "start") /\ UNCHANGED <<unit, outcome>>
    /\ UNCHANGED <<job, previous, candidate, backups>>

\* systemctl stop, by another operator.
Stop == Fault("crash") /\ Active /\ Die /\ unit' = FALSE /\ UNCHANGED client

\* Restart=on-failure, unless ExecStartPre ends with 78.  It comes five seconds
\* after the end (RestartSec, respawn_delay): a CLI that was running then, and is
\* not waiting for the daemon, has long finished.  One that began meanwhile has
\* not; with "overlap" the restart may fall between any two steps.
AutoRestart ==
    /\ unit /\ daemon = "down"
    /\ Fault("overlap") \/ \A c \in Cli : pc[c] \in {"idle", "wait"}
    /\ IF Deployable(file) THEN daemon' = "starting" /\ UNCHANGED unit
       ELSE unit' = FALSE /\ UNCHANGED daemon
    /\ UNCHANGED <<file, rules, loaded, socket, requests, reply, client>>

--------------------------------------------------------------------------
Init ==
    /\ file \in Files
    /\ rules = {} /\ unit = FALSE /\ daemon = "down" /\ loaded = Missing
    /\ socket = FALSE /\ requests = <<>> /\ reply = [c \in Cli |-> "none"]
    /\ pc = [c \in Cli |-> "idle"] /\ job = [c \in Cli |-> "none"]
    /\ previous = [c \in Cli |-> Missing] /\ candidate = [c \in Cli |-> Missing]
    /\ outcome = [c \in Cli |-> "none"] /\ backups = {}

Command(c) == \/ Configure(c) \/ Add(c) \/ Remove(c) \/ Migrate(c) \/ InitTemplate(c)
              \/ Apply(c) \/ StartService(c) \/ RestartService(c) \/ StopService(c)
Step(c) == \/ Create(c) \/ ReadPrevious(c) \/ Write(c) \/ Halt(c) \/ Start(c) \/ Ready(c) \/ Recheck(c)
           \/ Call(c) \/ Answered(c) \/ Restore(c)
Serve == \/ StartupLoad \/ StartupCommit \/ RemoveStale \/ Bind
         \/ HandleRequest \/ CommitRequest \/ SendReply

Next == \/ \E c \in Cli : Command(c) \/ Step(c) \/ Expire(c)
        \/ Serve \/ Crash \/ Stop \/ AutoRestart

\* A CLI that runs takes its next step, and its deadline passes however the daemon
\* comes and goes; the daemon is one task that returns to its loop.
Fairness == /\ \A c \in Cli : WF_vars(Step(c)) /\ SF_vars(Expire(c))
            /\ WF_vars(Serve)

Spec == Init /\ [][Next]_vars /\ Fairness

--------------------------------------------------------------------------
(* Properties                                                               *)

\* Every variable keeps its type; rules are never made of an unfit file.
TypeOK ==
    /\ file \in Files /\ rules \in SUBSET Name
    /\ unit \in BOOLEAN /\ socket \in BOOLEAN
    /\ daemon \in {"down", "starting", "loading", "binding", "serving", "applying",
                   "replying"}
    /\ loaded \in Files /\ requests \in Seq(Cli)
    /\ reply \in [Cli -> {"none", "ok", "rejected", "lost"}]
    /\ pc \in [Cli -> {"idle", "template", "read", "write", "stop", "restart", "start",
                       "wait", "recheck", "call", "await", "restore"}]
    /\ previous \in [Cli -> Files] /\ candidate \in [Cli -> Files]
    /\ outcome \in [Cli -> {"none", "applied", "restored", "written", "failed", "ready",
                            "stopped"}]
    /\ job \in [Cli -> Rewrites \cup {"none", "template", "call", "start", "restart", "stop"}]
    /\ backups \subseteq Files

Quiet == daemon = "serving" /\ requests = <<>> /\ \A c \in Cli : pc[c] = "idle"

\* Once nothing is under way the rules are the file's, whatever was refused, lost or
\* killed before: a rejected update puts the file back to what the rules are, and an
\* update that was applied but lost its answer is undone by the restart
\* (commit_config_update).
RulesFollowFile == Quiet => rules = file

\* An update that has the file to itself reports success only with its own candidate
\* in the file and in force, whatever died, was restarted or lost its answer between
\* commit and reply (commit_config_update).  With two CLIs it fails: the file that is
\* applied may be the other's.
AppliedMeansInForce ==
    [][\A c \in Cli : (outcome[c] = "none" /\ outcome'[c] = "applied") =>
          rules' = candidate[c] /\ file' = candidate[c]]_vars

\* Every command ends, although the daemon may fail to start or die at any moment.
CommandEnds == \A c \in Cli : pc[c] # "idle" ~> pc[c] = "idle"

\* No command makes a file disappear that is in no backup, except for the candidate
\* a failed update withdraws itself (backup_configuration, write_new_config).  That
\* too is promised to one CLI only: of two, one may replace a file it never read.
ReplacedFilesBackedUp ==
    [][(file' # file /\ file # Missing) =>
          \/ file \in backups
          \/ \E c \in Cli : pc[c] = "restore" /\ file = candidate[c]]_vars

\* start and restart report success only when the daemon answers on its socket.
ReadyMeansListening ==
    [][\A c \in Cli : (outcome[c] = "none" /\ outcome'[c] = "ready") => Listening]_vars
=============================================================================
