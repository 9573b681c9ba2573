---------------------------- MODULE ControlLoop ----------------------------
(* The event loop of port-forwardd: one task that accepts control connections, *)
(* looks after due DNS targets every fifteen seconds and waits for an          *)
(* interrupt, one at a time (src/src/runtime.rs run and handle_stream,         *)
(* src/src/control.rs, src/src/bin/port-forwardd.rs).                          *)
(*                                                                            *)
(* Simplifications                                                            *)
(*  - The configuration file is the number of times it was edited; a reload    *)
(*    reads it and ends later, well or not (Daemon has the steps between).     *)
(*  - A refresh cycle leaves no target due (Daemon has what becomes of them).  *)
(*  - The log lines of one step count as one.                                  *)
(*  - The ticks missed while the loop was busy follow one another at once, and *)
(*    one stands for all of them.                                              *)
(*  - Answers fit into the socket's buffer: sending does not wait for the peer.*)
(*  - What a peer that is not root writes is never read, and left out.         *)
(*  - The credentials of a connected peer can be had: where peer_cred fails, the *)
(*    code lets the peer through.                                              *)
(*  - The end of the process at any moment (SIGTERM, SIGKILL, a crash) is in   *)
(*    Daemon and ConfigUpdate.                                                 *)
EXTENDS Integers, SequencesExt

CONSTANTS
    Peer, Root,     \* processes that may connect; those with uid 0
    LogCap,         \* 256 in the code
    Stamps,         \* bound: log lines are numbered modulo Stamps
    MaxEdits,       \* bound of the edits
    Faults

\* A reload refused, state.json not written after the commit, a failing accept.
FaultKind == {"reject", "save", "accept"}

ASSUME ControlLoopAssumption ==
    /\ Root \subseteq Peer /\ Faults \subseteq FaultKind
    /\ LogCap \in Nat \ {0} /\ Stamps \in Nat /\ Stamps > LogCap
    /\ MaxEdits \in Nat

Request == {"apply", "query", "garbage"}    \* query: status and logs

VARIABLES
    file,       \* config.toml, by its edits
    installed,  \* the file the rules in the kernel were made of
    due,        \* some DNS target is due for a refresh
    path,       \* what is at the control socket's path
    pc,         \* control point of the daemon
    loading,    \* the file its running reload has read, 0 when none runs
    signal,     \* what an interrupt meets, or that one is pending
    tick,       \* the interval is ready
    backlog,    \* connections in order; the one being served is the first
    said,       \* what each connected peer has written
    asof,       \* history: the file when it wrote it
    here,       \* peers that have not hung up
    answer,     \* what the last peer served was told
    log, stamp  \* DaemonData.logs, and the number of the next line

loop == <<pc, loading, signal>>
peers == <<backlog, said, asof, here>>
logs == <<log, stamp>>
vars == <<file, installed, due, path, loop, tick, peers, answer, logs>>

Fault(kind) == kind \in Faults
Serving == pc \in {"select", "read", "apply", "refresh"}

\* Mutant: one line too many is kept.
OneTooMany(lines, line) ==
    Append(IF Len(lines) = LogCap + 1 THEN Tail(lines) ELSE lines, line)

\* Daemon::log.
Push(lines, line) == Append(IF Len(lines) = LogCap THEN Tail(lines) ELSE lines, line)

\* Mutant: line numbers are not taken modulo Stamps.
AfterUnbounded(line) == line + 1
After(line) == IF line = Stamps - 1 THEN 0 ELSE line + 1
Log == log' = Push(log, stamp) /\ stamp' = After(stamp)
MayLog == Log \/ UNCHANGED logs

--------------------------------------------------------------------------
(* Start and end of the process                                             *)

\* main: Daemon::new, then the startup reload of run.
Start ==
    /\ pc = "down"
    /\ pc' = "startup" /\ loading' = file /\ signal' = "fatal"
    /\ Log
    /\ UNCHANGED <<file, installed, due, path, tick, peers, answer>>

\* The process is gone, and whoever was connected is cut off.
CutOff ==
    /\ pc' = "down" /\ signal' = "fatal" /\ tick' = FALSE
    /\ backlog' = <<>> /\ here' = Peer
    /\ said' = [p \in Peer |-> "nothing"] /\ asof' = [p \in Peer |-> 0]
    /\ answer' = "none" /\ log' = <<>> /\ stamp' = 0
    /\ loading' = 0
    /\ UNCHANGED file

Exit == CutOff /\ UNCHANGED <<installed, due>>

Startup ==
    /\ pc = "startup"
    /\ installed' = loading /\ due' = FALSE
    /\ pc' = "bind" /\ loading' = 0
    /\ MayLog
    /\ UNCHANGED <<file, path, signal, tick, peers, answer>>

StartupFails ==
    /\ pc = "startup" /\ Fault("reject")
    /\ Exit /\ UNCHANGED path

\* Only state.json could not be written: the process ends with the rules in force.
StartupUnsaved ==
    /\ pc = "startup" /\ Fault("save")
    /\ installed' = loading /\ due' = FALSE
    /\ CutOff /\ UNCHANGED path

\* bind_socket: a socket at the path is stale and goes, anything else stays.  The
\* first tick of an interval is ready at once.
Bind ==
    /\ pc = "bind" /\ path # "other"
    /\ path' = "socket" /\ pc' = "select" /\ tick' = TRUE
    /\ Log
    /\ UNCHANGED <<file, installed, due, loading, signal, peers, answer>>

BindFails ==
    /\ pc = "bind" /\ path = "other"
    /\ Exit /\ UNCHANGED path

--------------------------------------------------------------------------
(* tokio::select!: the branches are polled in a random order and the first      *)
(* that is ready is taken; the futures of the others are dropped.  An interrupt *)
(* kills the process until ctrl_c was polled once, and later reaches only a     *)
(* ctrl_c that has been polled in the same turn of the loop.                    *)

\* Nothing was ready: every branch has been polled and is waited for.
Wait ==
    /\ pc = "select" /\ backlog = <<>> /\ ~tick
    /\ signal \in {"fatal", "lost"} /\ signal' = "awaited"
    /\ UNCHANGED <<file, installed, due, path, pc, loading, tick, peers, answer, logs>>

\* Another branch is taken; ctrl_c may have been polled before it.
TakeBranch == signal' \in IF signal = "fatal" THEN {"fatal", "lost"} ELSE {"lost"}

\* Mutant: an interrupt ends whatever is running.
InterruptAnywhere ==
    /\ Serving
    /\ Exit /\ UNCHANGED path

InterruptArrives ==
    \/ /\ signal = "fatal" /\ pc # "down"
       /\ Exit /\ UNCHANGED path
    \/ /\ signal = "awaited" /\ signal' = "pending"
       /\ UNCHANGED <<file, installed, due, path, pc, loading, tick, peers, answer, logs>>

\* The end of the loop, and the socket's.
Shutdown ==
    /\ pc = "select" /\ signal = "pending"
    /\ path' = "absent" /\ Exit

\* Mutant: an answered connection is kept for another request.
HangKept(p) ==
    /\ backlog' = Append(Tail(backlog), p)
    /\ said' = [said EXCEPT ![p] = "nothing"] /\ asof' = [asof EXCEPT ![p] = 0]
    /\ here' = here \cup {p}

\* The first connection of the backlog is over.
Hang(p) ==
    /\ backlog' = Tail(backlog)
    /\ said' = [said EXCEPT ![p] = "nothing"] /\ asof' = [asof EXCEPT ![p] = 0]
    /\ here' = here \cup {p}

\* Mutant: the credentials are not looked at.
AcceptAnyone ==
    /\ pc = "select" /\ backlog # <<>>
    /\ pc' = "read" /\ answer' = "none" /\ TakeBranch
    /\ UNCHANGED <<file, installed, due, path, loading, tick, peers, logs>>

\* handle_stream: peers that are not root are refused before anything is read.
Accept ==
    /\ pc = "select" /\ backlog # <<>>
    /\ TakeBranch
    /\ LET p == Head(backlog) IN
         \/ /\ p \in Root
            /\ pc' = "read" /\ answer' = "none"
            /\ UNCHANGED <<peers, logs>>
         \/ /\ p \notin Root
            /\ answer' = "refused" /\ Hang(p)
            /\ Log
            /\ UNCHANGED pc
    /\ UNCHANGED <<file, installed, due, path, loading, tick>>

AcceptFails ==
    /\ pc = "select" /\ Fault("accept")
    /\ Exit /\ UNCHANGED path

TakeTick ==
    /\ pc = "select" /\ tick
    /\ pc' = "refresh" /\ tick' = FALSE /\ TakeBranch
    /\ UNCHANGED <<file, installed, due, path, loading, peers, answer, logs>>

\* refresh_due_dns; an error is only logged.
RefreshDueDns ==
    /\ pc = "refresh"
    /\ due' = FALSE /\ pc' = "select"
    /\ MayLog
    /\ UNCHANGED <<file, installed, path, loading, signal, tick, peers, answer>>

--------------------------------------------------------------------------
(* handle_stream                                                            *)

\* The answer of the request being served.
Respond(text) ==
    /\ answer' = text /\ pc' = "select" /\ loading' = 0
    /\ Hang(Head(backlog))

\* send_response: a peer that is gone is worth a line.
SendLogs == IF Head(backlog) \in here THEN UNCHANGED logs ELSE Log

Query ==
    /\ pc = "read" /\ said[Head(backlog)] = "query"
    /\ Respond("told") /\ SendLogs
    /\ UNCHANGED <<file, installed, due, path, signal, tick>>

\* No line, or one that is no request.
Malformed ==
    /\ pc = "read"
    /\ LET p == Head(backlog) IN
         said[p] = "garbage" \/ (said[p] = "nothing" /\ p \notin here)
    /\ Respond("invalid") /\ SendLogs
    /\ UNCHANGED <<file, installed, due, path, signal, tick>>

\* Mutant: the reload makes do with the file that is in force.
ApplyFromMemory ==
    /\ pc = "read" /\ said[Head(backlog)] = "apply"
    /\ pc' = "apply" /\ loading' = installed
    /\ UNCHANGED <<file, installed, due, path, signal, tick, peers, answer, logs>>

Apply ==
    /\ pc = "read" /\ said[Head(backlog)] = "apply"
    /\ pc' = "apply" /\ loading' = file
    /\ UNCHANGED <<file, installed, due, path, signal, tick, peers, answer, logs>>

\* A reload resolves every target anew; a failed save comes after the commit.
Applied ==
    /\ pc = "apply"
    /\ installed' = loading /\ due' = FALSE
    /\ \/ Respond("applied") /\ Log
       \/ Fault("save") /\ Respond("rejected") /\ (Log \/ SendLogs)
    /\ UNCHANGED <<file, path, signal, tick>>

Rejected ==
    /\ pc = "apply" /\ Fault("reject")
    /\ Respond("rejected") /\ SendLogs
    /\ UNCHANGED <<file, installed, due, path, signal, tick>>

--------------------------------------------------------------------------
(* Around the daemon                                                        *)

\* A new connection waits in the listener's backlog.
Connect(p) ==
    /\ Serving /\ p \notin Range(backlog)
    /\ backlog' = Append(backlog, p)
    /\ UNCHANGED <<file, installed, due, path, loop, tick, said, asof, here, answer, logs>>

Waiting(p) == p \in Range(backlog) /\ p \in here

\* control::call writes its request; another root peer may write anything, or nothing.
Speak(p) ==
    /\ Waiting(p) /\ said[p] = "nothing"
    /\ said' \in {[said EXCEPT ![p] = r] : r \in Request}
    /\ asof' = [asof EXCEPT ![p] = file]
    /\ UNCHANGED <<file, installed, due, path, loop, tick, backlog, here, answer, logs>>

HangUp(p) ==
    /\ Waiting(p)
    /\ here' = here \ {p}
    /\ UNCHANGED <<file, installed, due, path, loop, tick, backlog, said, asof, answer, logs>>

EditFile ==
    /\ file < MaxEdits
    /\ file' = file + 1
    /\ UNCHANGED <<installed, due, path, loop, tick, peers, answer, logs>>

Interval ==
    /\ Serving /\ ~tick /\ tick' = TRUE
    /\ UNCHANGED <<file, installed, due, path, loop, peers, answer, logs>>

TargetDue ==
    /\ Serving /\ ~due /\ due' = TRUE
    /\ UNCHANGED <<file, installed, path, loop, tick, peers, answer, logs>>

--------------------------------------------------------------------------
Init ==
    /\ file = 0 /\ installed = 0 /\ loading = 0 /\ due = FALSE
    /\ path \in {"absent", "socket", "other"}
    /\ pc = "down" /\ signal = "fatal" /\ tick = FALSE
    /\ backlog = <<>> /\ here = Peer
    /\ said = [p \in Peer |-> "nothing"] /\ asof = [p \in Peer |-> 0]
    /\ answer = "none" /\ log = <<>> /\ stamp = 0

Process == \/ Startup \/ StartupFails \/ StartupUnsaved \/ Bind \/ BindFails
           \/ Wait \/ RefreshDueDns
           \/ Query \/ Malformed \/ Apply \/ Applied \/ Rejected

Next == \/ Start \/ Process \/ Shutdown \/ Accept \/ AcceptFails \/ TakeTick
        \/ InterruptArrives \/ EditFile \/ Interval \/ TargetDue
        \/ \E p \in Peer : Connect(p) \/ HangUp(p)
        \/ \E p \in Root : Speak(p)

\* A root peer that has connected writes its line or hangs up; nobody relies on
\* the others.
MakesUpItsMind(p) == said[p] = "nothing" /\ (Speak(p) \/ HangUp(p))

\* The task runs whenever it can, the interval goes on, and because select! polls in
\* a random order, a branch that is ready again and again is taken.
Fairness ==
    /\ WF_vars(Process) /\ WF_vars(Interval)
    /\ SF_vars(Accept) /\ SF_vars(TakeTick) /\ SF_vars(Shutdown)
    /\ \A p \in Root : WF_vars(MakesUpItsMind(p))

Spec == Init /\ [][Next]_vars /\ Fairness

--------------------------------------------------------------------------
(* Properties                                                               *)

\* Every variable keeps its type.
TypeOK ==
    /\ file \in 0..MaxEdits /\ installed \in 0..MaxEdits /\ loading \in 0..MaxEdits
    /\ due \in BOOLEAN /\ tick \in BOOLEAN /\ path \in {"absent", "socket", "other"}
    /\ pc \in {"down", "startup", "bind", "select", "read", "apply", "refresh"}
    /\ signal \in {"fatal", "lost", "awaited", "pending"}
    /\ backlog \in Seq(Peer) /\ here \subseteq Peer
    /\ said \in [Peer -> Request \cup {"nothing"}] /\ asof \in [Peer -> 0..MaxEdits]
    /\ answer \in {"none", "refused", "told", "invalid", "applied", "rejected"}
    /\ log \in Seq(0..(Stamps - 1)) /\ stamp \in 0..(Stamps - 1)

\* "applied" is told only of the file as the peer left it when it asked, or a newer
\* one, however long its connection waited behind others (handle_stream, reload).
AppliedCoversRequest ==
    [][(answer = "none" /\ answer' = "applied") =>
          installed' >= asof[Head(backlog)]]_vars

\* What logs shows are the newest lines, in order and without a gap, and the whole
\* history of the process until the ring is full (Daemon::log).
LogsAreNewest ==
    /\ Len(log) <= LogCap
    /\ log # <<>> => After(Last(log)) = stamp
    /\ \A i \in 1..(Len(log) - 1) : log[i + 1] = After(log[i])
    /\ (Len(log) < LogCap /\ log # <<>>) => log[1] = 0

\* An interrupt never cuts off the request, the reload or the refresh that is under
\* way once the loop has waited for one: it is handled between two of them or not
\* at all (the ctrl_c branch of run).
InterruptsWaitTheirTurn ==
    [][(Serving /\ pc' = "down" /\ signal # "fatal") => pc = "select"]_vars

\* A due target is looked up as long as the daemon runs, however many connections
\* keep coming, whoever connects without being root and never writes a line
\* included (run's select!, the peer credential check).
DueTargetsRefreshed == due ~> (~due \/ pc = "down")

\* A root peer that has written a line is answered, or the daemon ends.
RequestsAnswered ==
    \A p \in Root : (p \in Range(backlog) /\ said[p] # "nothing")
                      ~> (p \notin Range(backlog) \/ pc = "down")
=============================================================================
