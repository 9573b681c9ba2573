------------------------ MODULE ConfigUpdateProofs -------------------------
(* Proofs about ConfigUpdate for one CLI at a time, any number of rules and    *)
(* any faults: success means in force, and no file is lost.                    *)
(* With two CLIs both fail: they share the file without a lock.                *)
EXTENDS ConfigUpdate, TLAPS

\* A request is being handled only while there is one, and a start-up commits what
\* it may deploy.
TypeInv ==
    /\ TypeOK
    /\ daemon \in {"applying", "replying"} => requests # <<>>
    /\ daemon = "loading" => Deployable(loaded)

\* At these points the file is the one the command deploys.
InPlace == {"start", "restart", "stop", "wait", "recheck", "call", "await", "restore"}

\* What the file is at each point of the command.
FileKnown(c) ==
    /\ pc[c] \in InPlace => file = candidate[c]
    /\ pc[c] = "write" => \/ job[c] = "template" /\ file = Missing
                          \/ file \in backups \cup {Missing}

\* A request is under way only while its CLI awaits the answer; the daemon that
\* took it has read the file the CLI wrote, and so does a daemon that replaces it
\* before the CLI has seen the answer.
RequestKnown(c) ==
    /\ requests \in {<<>>, <<c>>}
    /\ requests = <<c>> => pc[c] = "await" /\ reply[c] = "none" /\ Listening
    /\ daemon \in {"applying", "replying"} => requests = <<c>> /\ loaded = file
    /\ daemon = "replying" => rules = file
    /\ reply[c] # "none" => pc[c] = "await"
    /\ reply[c] = "ok" => rules = file
    /\ pc[c] = "await" /\ daemon = "loading" => loaded = file

UpdateInv == TypeInv /\ \A c \in Cli : FileKnown(c) /\ RequestKnown(c)

(* --- Typing ---------------------------------------------------------------- *)

LEMMA TypeInit == Init => TypeInv
  <1>1. <<>> \in Seq(Cli)
    OBVIOUS
  <1>2. QED
    BY <1>1 DEF Init, TypeOK, TypeInv, Files

LEMMA CommandType ==
    ASSUME TypeInv, NEW c \in Cli, Command(c)
    PROVE  TypeInv'
  <1> USE DEF TypeInv, TypeOK, Begin, Goto, service, Rewrites, Updates
  <1>1. CASE Configure(c)
    BY <1>1 DEF Configure, Files, Content
  <1>2. CASE Add(c)
    BY <1>2 DEF Add, Files, Content, Deployable
  <1>3. CASE Remove(c)
    <2>1. PICK n \in Removable : Begin(c, "remove", file \ {n})
      BY <1>3 DEF Remove
    <2>2. file \in Content
      BY <1>3 DEF Remove, Deployable, Files
    <2>3. n \in file /\ file # {n}
      BY <2>1 DEF Removable
    <2>4. file \ {n} \in Files
      BY <2>2, <2>3 DEF Files, Content
    <2>5. QED
      BY <2>1, <2>4
  <1>4. CASE Migrate(c)
    BY <1>4 DEF Migrate, Files
  <1>5. CASE InitTemplate(c)
    BY <1>5 DEF InitTemplate, Files
  <1>6. CASE Apply(c)
    BY <1>6 DEF Apply
  <1>7. CASE StartService(c) \/ RestartService(c) \/ StopService(c)
    BY <1>7 DEF StartService, RestartService, StopService
  <1>8. QED
    BY <1>1, <1>2, <1>3, <1>4, <1>5, <1>6, <1>7 DEF Command

LEMMA DieType ==
    ASSUME TypeInv, Die
    PROVE  /\ daemon' = "down" /\ requests' = <<>> /\ requests' \in Seq(Cli)
           /\ reply' \in [Cli -> {"none", "ok", "rejected", "lost"}]
           /\ file' = file /\ rules' = rules /\ loaded' = loaded /\ socket' = socket
  <1>1. <<>> \in Seq(Cli)
    OBVIOUS
  <1>2. reply \in [Cli -> {"none", "ok", "rejected", "lost"}]
    BY DEF TypeInv, TypeOK
  <1>3. QED
    BY <1>1, <1>2 DEF Die

LEMMA StepType ==
    ASSUME TypeInv, NEW c \in Cli, Step(c) \/ Expire(c)
    PROVE  TypeInv'
  <1> USE DEF TypeInv, TypeOK, Finish, Goto, Recover, service
  <1>1. CASE Create(c) \/ Ready(c) \/ Expire(c) \/ Recheck(c)
    BY <1>1 DEF Create, Ready, Expire, Recheck
  <1>2. CASE ReadPrevious(c)
    BY <1>2 DEF ReadPrevious, BackupConfiguration
  <1>3. CASE Write(c) \/ Restore(c)
    BY <1>3 DEF Write, Restore, Restored
  <1>4. CASE Halt(c)
    <2>1. Die
      BY <1>4 DEF Halt
    <2>2. CASE job[c] = "stop"
      BY <1>4, <2>1, <2>2, DieType DEF Halt
    <2>3. CASE job[c] # "stop"
      BY <1>4, <2>1, <2>3, DieType DEF Halt
    <2>4. QED
      BY <2>2, <2>3
  <1>5. CASE Start(c)
    BY <1>5 DEF Start
  <1>6. CASE Call(c)
    <2>1. Append(requests, c) \in Seq(Cli)
      OBVIOUS
    <2>2. requests' \in {requests, Append(requests, c)}
      BY <1>6 DEF Call
    <2>3. Append(requests, c) # <<>>
      OBVIOUS
    <2>4. QED
      BY <1>6, <2>1, <2>2, <2>3 DEF Call
  <1>7. CASE Answered(c)
    BY <1>7 DEF Answered
  <1>8. QED
    BY <1>1, <1>2, <1>3, <1>4, <1>5, <1>6, <1>7 DEF Step

LEMMA AnswerType ==
    ASSUME TypeInv, requests # <<>>, NEW text \in {"ok", "rejected"}, Answer(text)
    PROVE  /\ requests' \in Seq(Cli) /\ daemon' = "serving"
           /\ reply' \in [Cli -> {"none", "ok", "rejected", "lost"}]
  <1>1. requests \in Seq(Cli)
    BY DEF TypeInv, TypeOK
  <1>2. Head(requests) \in Cli /\ Tail(requests) \in Seq(Cli)
    BY <1>1
  <1>3. QED
    BY <1>2 DEF Answer, TypeInv, TypeOK

LEMMA ServeType ==
    ASSUME TypeInv, Serve
    PROVE  TypeInv'
  <1> USE DEF TypeInv, TypeOK, client
  <1>1. CASE StartupLoad \/ RemoveStale \/ Bind \/ HandleRequest
    BY <1>1 DEF StartupLoad, RemoveStale, Bind, HandleRequest
  <1>2. ASSUME loaded \in Files, Deployable(loaded) PROVE loaded \in SUBSET Name
    BY <1>2 DEF Files, Content, Deployable
  <1>3. CASE StartupCommit
    BY <1>3, <1>2 DEF StartupCommit
  <1>4. CASE CommitRequest
    BY <1>4, <1>2, AnswerType DEF CommitRequest
  <1>5. CASE SendReply
    BY <1>5, AnswerType DEF SendReply
  <1>6. QED
    BY <1>1, <1>3, <1>4, <1>5 DEF Serve

LEMMA TypeStep == TypeInv /\ [Next]_vars => TypeInv'
  <1> SUFFICES ASSUME TypeInv, [Next]_vars PROVE TypeInv'
    OBVIOUS
  <1>1. CASE \E c \in Cli : Command(c) \/ Step(c) \/ Expire(c)
    BY <1>1, CommandType, StepType
  <1>2. CASE Serve
    BY <1>2, ServeType
  <1>3. CASE Crash
    BY <1>3, DieType DEF Crash, client, TypeInv, TypeOK
  <1>4. CASE Stop
    BY <1>4, DieType DEF Stop, client, TypeInv, TypeOK
  <1>5. CASE AutoRestart
    BY <1>5 DEF AutoRestart, client, TypeInv, TypeOK
  <1>6. CASE UNCHANGED vars
    BY <1>6 DEF vars, service, client, TypeInv, TypeOK, Deployable
  <1>7. QED
    BY <1>1, <1>2, <1>3, <1>4, <1>5, <1>6 DEF Next

\* Every variable of the update keeps its type, for any CLIs, rules and faults; the
\* rules in the kernel never come from a template or a missing file.
THEOREM UpdateTypeCorrect == Spec => []TypeOK
  <1>1. TypeInv => TypeOK
    BY DEF TypeInv
  <1>2. QED
    BY <1>1, TypeInit, TypeStep, PTL DEF Spec

(* --- One CLI --------------------------------------------------------------- *)

LEMMA UpdateInit == Init => UpdateInv
  BY TypeInit DEF Init, UpdateInv, FileKnown, RequestKnown, InPlace, Listening

\* The command itself.
LEMMA CommandKnown ==
    ASSUME UpdateInv, NEW c, Cli = {c}, Command(c)
    PROVE  FileKnown(c)' /\ RequestKnown(c)'
  <1>1. pc[c] = "idle" /\ c \in DOMAIN pc /\ c \in DOMAIN candidate
    BY DEF UpdateInv, TypeInv, TypeOK, Command, Configure, Add, Remove, Migrate, InitTemplate,
           Apply, StartService, RestartService, StopService, Begin, Rewrites, Updates
  <1>2. UNCHANGED <<file, service, backups>>
    BY DEF Command, Configure, Add, Remove, Migrate, InitTemplate,
           Apply, StartService, RestartService, StopService, Begin
  <1>3. pc'[c] \notin InPlace \/ candidate'[c] = file
    BY <1>1 DEF Command, Configure, Add, Remove, Migrate, InitTemplate, InPlace,
           Apply, StartService, RestartService, StopService, Begin, Goto, Rewrites, Updates
  <1>4. pc'[c] \notin {"write", "await"}
    BY <1>1 DEF Command, Configure, Add, Remove, Migrate, InitTemplate,
           Apply, StartService, RestartService, StopService, Begin, Goto, Rewrites, Updates
  <1>5. FileKnown(c)'
    BY <1>2, <1>3, <1>4 DEF FileKnown
  <1>6. RequestKnown(c)'
    BY <1>1, <1>2, <1>4 DEF RequestKnown, service, UpdateInv, Listening
  <1>7. QED
    BY <1>5, <1>6

LEMMA StepKnown ==
    ASSUME UpdateInv, NEW c, Cli = {c}, Step(c) \/ Expire(c)
    PROVE  FileKnown(c)' /\ RequestKnown(c)'
  <1> c \in Cli /\ TypeInv /\ FileKnown(c) /\ RequestKnown(c)
    BY DEF UpdateInv
  <1>0. /\ c \in DOMAIN pc /\ c \in DOMAIN candidate /\ c \in DOMAIN previous
        /\ reply \in [Cli -> {"none", "ok", "rejected", "lost"}]
    BY DEF TypeInv, TypeOK, Rewrites, Updates
  <1> USE DEF FileKnown, RequestKnown, InPlace, Goto, Finish, Recover, Listening, service
  <1>1. CASE Create(c)
    BY <1>0, <1>1 DEF Create
  <1>2. CASE ReadPrevious(c)
    BY <1>0, <1>2 DEF ReadPrevious, BackupConfiguration
  <1>3. CASE Write(c)
    BY <1>0, <1>3 DEF Write
  <1>4. CASE Halt(c)
    <2>1. Die /\ requests = <<>>
      BY <1>4 DEF Halt
    <2>2. pc'[c] \in {"start", "idle"} /\ UNCHANGED <<candidate, file, rules>>
      BY <1>0, <1>4, DieType DEF Halt
    <2>3. requests' = <<>> /\ daemon' = "down" /\ reply'[c] = reply[c]
      BY <2>1 DEF Die
    <2>4. QED
      BY <1>0, <1>4, <2>2, <2>3 DEF Halt
  <1>5. CASE Start(c)
    BY <1>0, <1>5 DEF Start, Active
  <1>6. CASE Ready(c) \/ Expire(c) \/ Recheck(c)
    BY <1>0, <1>6 DEF Ready, Expire, Recheck
  <1>7. CASE Call(c)
    <2>1. requests = <<>> /\ Append(<<>>, c) = <<c>>
      BY <1>7 DEF Call
    <2>2. QED
      BY <1>0, <1>7, <2>1 DEF Call
  <1>8. CASE Answered(c)
    BY <1>0, <1>8 DEF Answered, Succeeded
  <1>9. CASE Restore(c)
    BY <1>0, <1>9 DEF Restore, Restored
  <1>10. QED
    BY <1>1, <1>2, <1>3, <1>4, <1>5, <1>6, <1>7, <1>8, <1>9 DEF Step

\* What the daemon, the service manager and other operators do.
LEMMA ServeKnown ==
    ASSUME UpdateInv, NEW c, Cli = {c}, Serve \/ Crash \/ Stop \/ AutoRestart
    PROVE  FileKnown(c)' /\ RequestKnown(c)'
  <1> c \in Cli /\ TypeInv /\ FileKnown(c) /\ RequestKnown(c)
    BY DEF UpdateInv
  <1>0. /\ c \in DOMAIN pc
        /\ reply \in [Cli -> {"none", "ok", "rejected", "lost"}]
    BY DEF TypeInv, TypeOK
  <1>1. UNCHANGED <<file, client>>
    BY DEF Serve, Crash, Stop, AutoRestart, Die, StartupLoad, StartupCommit, RemoveStale, Bind,
           HandleRequest, CommitRequest, SendReply
  <1>2. FileKnown(c)'
    BY <1>1 DEF FileKnown, client
  <1> SUFFICES RequestKnown(c)'
    BY <1>2
  <1> USE DEF RequestKnown, Listening, client
  <1>3. CASE StartupLoad \/ StartupCommit \/ RemoveStale \/ Bind \/ HandleRequest
    BY <1>0, <1>3 DEF StartupLoad, StartupCommit, RemoveStale, Bind, HandleRequest
  <1>4. requests = <<c>> => Tail(requests) = <<>> /\ Head(requests) = c
    OBVIOUS
  <1>5. CASE CommitRequest
    <2>1. requests = <<c>> /\ loaded = file /\ pc[c] = "await" /\ reply[c] = "none"
      BY <1>5 DEF CommitRequest
    <2>2. CASE Answer("rejected") /\ rules' = rules
      <3>1. daemon' = "serving" /\ requests' = <<>> /\ reply'[c] = "rejected"
        BY <1>0, <1>4, <2>1, <2>2 DEF Answer
      <3>2. QED
        BY <1>1, <2>1, <2>2, <3>1
    <2>3. CASE rules' = loaded /\ daemon' = "replying" /\ UNCHANGED <<requests, reply>>
      BY <1>1, <1>5, <2>1, <2>3 DEF CommitRequest
    <2>4. QED
      BY <1>5, <2>2, <2>3 DEF CommitRequest
  <1>6. CASE SendReply
    <2>1. requests = <<c>> /\ rules = file /\ pc[c] = "await"
      BY <1>6 DEF SendReply
    <2>2. daemon' = "serving" /\ requests' = <<>> /\ reply'[c] = "ok"
      BY <1>0, <1>4, <1>6, <2>1 DEF SendReply, Answer
    <2>3. QED
      BY <1>1, <1>6, <2>1, <2>2 DEF SendReply
  <1>7. CASE Crash \/ Stop
    <2>1. Die /\ UNCHANGED <<file, client>>
      BY <1>1, <1>7 DEF Crash, Stop
    <2>2. requests' = <<>> /\ daemon' = "down" /\ rules' = rules
      BY <2>1 DEF Die
    <2>3. reply'[c] \in {reply[c], "lost"}
      BY <2>1 DEF Die
    <2>4. reply'[c] = "lost" => reply[c] = "lost" \/ pc[c] = "await"
      <3>1. CASE requests = <<>>
        BY <2>1, <3>1 DEF Die
      <3>2. CASE requests = <<c>>
        BY <3>2
      <3>3. QED
        BY <3>1, <3>2
    <2>5. QED
      BY <2>1, <2>2, <2>3, <2>4
  <1>8. CASE AutoRestart
    BY <1>0, <1>8 DEF AutoRestart
  <1>9. QED
    BY <1>2, <1>3, <1>5, <1>6, <1>7, <1>8 DEF Serve

LEMMA UpdateStep ==
    ASSUME NEW c, Cli = {c}
    PROVE  UpdateInv /\ [Next]_vars => UpdateInv'
  <1> SUFFICES ASSUME UpdateInv, [Next]_vars PROVE UpdateInv'
    OBVIOUS
  <1>1. TypeInv'
    BY TypeStep DEF UpdateInv
  <1>2. FileKnown(c)' /\ RequestKnown(c)'
    <2>1. CASE UNCHANGED vars
      BY <2>1 DEF vars, service, client, UpdateInv, FileKnown, RequestKnown, Listening
    <2>2. CASE Next
      BY <2>2, CommandKnown, StepKnown, ServeKnown DEF Next
    <2>3. QED
      BY <2>1, <2>2
  <1>3. QED
    BY <1>1, <1>2 DEF UpdateInv

\* The inductive invariant: during a deployment the file is the candidate, a file
\* about to be replaced is in a backup, and an answer "ok" is about the file.
THEOREM UpdateInvariant ==
    ASSUME NEW c, Cli = {c}
    PROVE  Spec => []UpdateInv
  BY UpdateInit, UpdateStep, PTL DEF Spec

\* With one CLI at a time, an update reports success only with its candidate in the
\* file and in force (commit_config_update), however the daemon refuses, dies and is
\* restarted in between.
THEOREM SuccessInForce ==
    ASSUME NEW cli, Cli = {cli}
    PROVE  Spec => AppliedMeansInForce
  <1>1. UpdateInv /\ [Next]_vars =>
          [\A c \in Cli : (outcome[c] = "none" /\ outcome'[c] = "applied") =>
             rules' = candidate[c] /\ file' = candidate[c]]_vars
    <2> SUFFICES ASSUME UpdateInv, [Next]_vars, outcome[cli] = "none", outcome'[cli] = "applied"
                 PROVE  rules' = candidate[cli] /\ file' = candidate[cli]
      OBVIOUS
    <2>1. cli \in Cli /\ FileKnown(cli) /\ RequestKnown(cli) /\ cli \in DOMAIN outcome
      BY DEF UpdateInv, TypeInv, TypeOK
    <2>2. ~UNCHANGED outcome
      OBVIOUS
    <2>3. \A kind, wanted : ~Begin(cli, kind, wanted)
      BY <2>1 DEF Begin
    <2>4. Step(cli) \/ Expire(cli)
      BY <2>2, <2>3 DEF Next, vars, client, Serve, Crash, Stop, AutoRestart, StartupLoad,
         StartupCommit, RemoveStale, Bind, HandleRequest, CommitRequest, SendReply, Command,
         Configure, Add, Remove, Migrate, InitTemplate, Apply, StartService, RestartService,
         StopService
    <2>5. Answered(cli)
      BY <2>1, <2>2, <2>4 DEF Step, Create, ReadPrevious, Write, Halt, Start, Ready, Recheck,
         Call, Restore, Expire, Finish, Recover
    <2>6. pc[cli] = "await" /\ reply[cli] = "ok" /\ UNCHANGED <<file, rules>>
      BY <2>1, <2>2, <2>5 DEF Answered, Finish, Recover, Succeeded
    <2>7. QED
      BY <2>1, <2>6 DEF FileKnown, RequestKnown, InPlace
  <1>2. Spec => []UpdateInv
    BY UpdateInvariant
  <1>3. QED
    BY <1>1, <1>2, PTL DEF Spec, AppliedMeansInForce

\* With one CLI at a time, a file that an update, migrate or init replaces is in a
\* backup, unless it is the candidate being withdrawn.
THEOREM NoFileLost ==
    ASSUME NEW cli, Cli = {cli}
    PROVE  Spec => ReplacedFilesBackedUp
  <1>1. UpdateInv /\ [Next]_vars =>
          [(file' # file /\ file # Missing) =>
             \/ file \in backups
             \/ \E c \in Cli : pc[c] = "restore" /\ file = candidate[c]]_vars
    <2> SUFFICES ASSUME UpdateInv, [Next]_vars, file' # file, file # Missing
                 PROVE  file \in backups \/ (pc[cli] = "restore" /\ file = candidate[cli])
      OBVIOUS
    <2>1. cli \in Cli /\ FileKnown(cli)
      BY DEF UpdateInv
    <2>2. Write(cli) \/ Restore(cli)
      BY DEF Next, vars, client, Serve, Crash, Stop, AutoRestart, StartupLoad, Die,
         StartupCommit, RemoveStale, Bind, HandleRequest, CommitRequest, SendReply, Command,
         Configure, Add, Remove, Migrate, InitTemplate, Apply, StartService, RestartService,
         StopService, Begin, Step, Create, ReadPrevious, Halt, Start, Ready, Recheck, Call,
         Answered, Expire
    <2>3. pc[cli] \in {"write", "restore"}
      BY <2>2 DEF Write, Restore
    <2>4. QED
      BY <2>1, <2>3 DEF FileKnown, InPlace
  <1>2. Spec => []UpdateInv
    BY UpdateInvariant
  <1>3. QED
    BY <1>1, <1>2, PTL DEF Spec, ReplacedFilesBackedUp
=============================================================================
