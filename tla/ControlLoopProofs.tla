------------------------- MODULE ControlLoopProofs -------------------------
(* Proofs about ControlLoop for any number of peers, any capacity of the log   *)
(* and any faults: typing, that an apply covers its request, that logs shows   *)
(* the newest lines, and that interrupts wait their turn.                      *)
EXTENDS ControlLoop, TLAPS

\* A connection is being served; what its reload reads is not older than its
\* request, and its request stays what it is.
Busy ==
    /\ pc \in {"read", "apply"} => backlog # <<>>
    /\ \A p \in Peer : asof[p] <= file
    /\ pc = "apply" => /\ asof[Head(backlog)] <= loading
                       /\ said[Head(backlog)] # "nothing"
LoopInv == TypeOK /\ Busy

(* --- Helpers -------------------------------------------------------------- *)

LEMMA PushType ==
    ASSUME TypeOK
    PROVE  /\ Push(log, stamp) \in Seq(0..(Stamps - 1))
           /\ After(stamp) \in 0..(Stamps - 1)
  <1>1. log \in Seq(0..(Stamps - 1)) /\ stamp \in 0..(Stamps - 1)
    BY DEF TypeOK
  <1>2. After(stamp) \in 0..(Stamps - 1)
    BY <1>1, ControlLoopAssumption DEF After
  <1> DEFINE S == 0..(Stamps - 1)
             kept == IF Len(log) = LogCap THEN Tail(log) ELSE log
  <1>3. kept \in Seq(S)
    <2>1. log \in Seq(S)
      BY <1>1
    <2> HIDE DEF S
    <2>2. log # <<>> => Tail(log) \in Seq(S)
      BY <2>1
    <2>3. Len(log) = LogCap => log # <<>>
      BY ControlLoopAssumption
    <2>4. QED
      BY <2>1, <2>2, <2>3
  <1>4. Append(kept, stamp) \in Seq(S)
    <2> HIDE DEF kept, S
    <2>1. stamp \in S
      BY <1>1 DEF S
    <2>2. QED
      BY <1>3, <2>1
  <1>5. QED
    BY <1>2, <1>4 DEF Push

LEMMA LogTyped ==
    ASSUME TypeOK, Log \/ UNCHANGED logs
    PROVE  log' \in Seq(0..(Stamps - 1)) /\ stamp' \in 0..(Stamps - 1)
  BY PushType DEF Log, logs, TypeOK

LEMMA CutOffInv ==
    ASSUME LoopInv, CutOff, installed' \in 0..MaxEdits, due' \in BOOLEAN,
           path' \in {path, "absent"}
    PROVE  LoopInv'
  <1>1. 0 \in 0..MaxEdits /\ 0 \in 0..(Stamps - 1)
    BY ControlLoopAssumption
  <1>0. <<>> \in Seq(Peer) /\ <<>> \in Seq(0..(Stamps - 1))
    OBVIOUS
  <1>2. TypeOK'
    BY <1>1, <1>0 DEF LoopInv, TypeOK, CutOff
  <1>3. file' \in Nat /\ asof' = [p \in Peer |-> 0] /\ pc' = "down"
    BY ControlLoopAssumption DEF LoopInv, TypeOK, CutOff
  <1>4. QED
    BY <1>2, <1>3 DEF LoopInv, Busy

LEMMA ExitInv ==
    ASSUME LoopInv, Exit, path' \in {path, "absent"}
    PROVE  LoopInv'
  BY CutOffInv DEF Exit, LoopInv, TypeOK

LEMMA HangInv ==
    ASSUME LoopInv, backlog # <<>>, Hang(Head(backlog)), file' = file
    PROVE  /\ backlog' \in Seq(Peer) /\ here' \subseteq Peer
           /\ said' \in [Peer -> Request \cup {"nothing"}] /\ asof' \in [Peer -> 0..MaxEdits]
           /\ \A p \in Peer : asof'[p] <= file'
  <1> DEFINE p == Head(backlog)
  <1>1. p \in Peer /\ Tail(backlog) \in Seq(Peer)
    BY DEF LoopInv, TypeOK
  <1>2. 0 \in 0..MaxEdits /\ file \in Nat /\ 0 <= file
    BY ControlLoopAssumption DEF LoopInv, TypeOK
  <1>3. QED
    BY <1>1, <1>2 DEF Hang, LoopInv, TypeOK, Busy

LEMMA RespondInv ==
    ASSUME LoopInv, backlog # <<>>, NEW text, Respond(text),
           text \in {"told", "invalid", "applied", "rejected"},
           Log \/ UNCHANGED logs,
           UNCHANGED <<file, path, signal, tick>>,
           installed' \in 0..MaxEdits, due' \in BOOLEAN
    PROVE  LoopInv'
  <1>1. 0 \in 0..MaxEdits
    BY ControlLoopAssumption
  <1>2. /\ backlog' \in Seq(Peer) /\ here' \subseteq Peer
        /\ said' \in [Peer -> Request \cup {"nothing"}] /\ asof' \in [Peer -> 0..MaxEdits]
        /\ \A p \in Peer : asof'[p] <= file'
    BY HangInv DEF Respond
  <1>3. log' \in Seq(0..(Stamps - 1)) /\ stamp' \in 0..(Stamps - 1)
    BY LogTyped DEF LoopInv
  <1>4. pc' = "select" /\ loading' = 0 /\ answer' = text
    BY DEF Respond
  <1>5. TypeOK'
    BY <1>1, <1>2, <1>3, <1>4 DEF LoopInv, TypeOK
  <1>6. QED
    BY <1>2, <1>4, <1>5 DEF LoopInv, Busy

(* --- The invariant -------------------------------------------------------- *)

LEMMA LoopInit == Init => LoopInv
  <1> SUFFICES ASSUME Init
               PROVE  LoopInv
    OBVIOUS
  <1>1. 0 \in 0..MaxEdits /\ 0 \in 0..(Stamps - 1)
    BY ControlLoopAssumption
  <1>2. <<>> \in Seq(Peer) /\ <<>> \in Seq(0..(Stamps - 1))
    OBVIOUS
  <1>3. TypeOK
    BY <1>1, <1>2 DEF Init, TypeOK
  <1>4. QED
    BY <1>3 DEF Init, LoopInv, Busy

LEMMA LoopStep ==
    ASSUME LoopInv, [Next]_vars
    PROVE  LoopInv'
  <1>0. 0 \in 0..MaxEdits
    BY ControlLoopAssumption
  <1>1. CASE Start
    <2>1. log' \in Seq(0..(Stamps - 1)) /\ stamp' \in 0..(Stamps - 1)
      BY <1>1, LogTyped DEF Start, LoopInv
    <2>2. QED
      BY <1>1, <2>1 DEF Start, LoopInv, TypeOK, Busy, peers
  <1>2. CASE Startup
    <2>1. log' \in Seq(0..(Stamps - 1)) /\ stamp' \in 0..(Stamps - 1)
      BY <1>2, LogTyped DEF Startup, MayLog, LoopInv
    <2>2. QED
      BY <1>0, <1>2, <2>1 DEF Startup, LoopInv, TypeOK, Busy, peers
  <1>3. CASE StartupFails \/ BindFails \/ AcceptFails \/ Shutdown
    BY <1>3, ExitInv DEF StartupFails, BindFails, AcceptFails, Shutdown
  <1>4. CASE Bind
    <2>1. log' \in Seq(0..(Stamps - 1)) /\ stamp' \in 0..(Stamps - 1)
      BY <1>4, LogTyped DEF Bind, LoopInv
    <2>2. QED
      BY <1>4, <2>1 DEF Bind, LoopInv, TypeOK, Busy, peers
  <1>5. CASE Wait
    BY <1>5 DEF Wait, LoopInv, TypeOK, Busy, peers, logs
  <1>6. CASE InterruptArrives
    <2>1. CASE Exit /\ UNCHANGED path
      BY <2>1, ExitInv
    <2>2. CASE /\ signal' = "pending"
               /\ UNCHANGED <<file, installed, due, path, pc, loading, tick, peers,
                              answer, logs>>
      BY <2>2 DEF LoopInv, TypeOK, Busy, peers, logs
    <2>3. QED
      BY <1>6, <2>1, <2>2 DEF InterruptArrives
  <1>7. CASE Accept
    <2>1. signal' \in {"fatal", "lost"}
      BY <1>7 DEF Accept, TakeBranch
    <2>2. CASE pc' = "read" /\ answer' = "none" /\ UNCHANGED <<peers, logs>>
      BY <1>7, <2>1, <2>2 DEF Accept, LoopInv, TypeOK, Busy, peers, logs
    <2>3. CASE answer' = "refused" /\ Hang(Head(backlog)) /\ Log /\ UNCHANGED pc
      <3>1. log' \in Seq(0..(Stamps - 1)) /\ stamp' \in 0..(Stamps - 1)
        BY <2>3, LogTyped DEF LoopInv
      <3>2. /\ backlog' \in Seq(Peer) /\ here' \subseteq Peer
            /\ said' \in [Peer -> Request \cup {"nothing"}]
            /\ asof' \in [Peer -> 0..MaxEdits]
            /\ \A p \in Peer : asof'[p] <= file'
        BY <1>7, <2>3, HangInv DEF Accept
      <3>3. pc' = "select"
        BY <1>7, <2>3 DEF Accept
      <3>4. TypeOK'
        BY <1>7, <2>1, <2>3, <3>1, <3>2 DEF Accept, LoopInv, TypeOK
      <3>5. QED
        BY <3>2, <3>3, <3>4 DEF LoopInv, Busy
    <2>4. QED
      BY <1>7, <2>2, <2>3 DEF Accept
  <1>8. CASE TakeTick
    BY <1>8 DEF TakeTick, TakeBranch, LoopInv, TypeOK, Busy, peers, logs
  <1>9. CASE RefreshDueDns
    <2>1. log' \in Seq(0..(Stamps - 1)) /\ stamp' \in 0..(Stamps - 1)
      BY <1>9, LogTyped DEF RefreshDueDns, MayLog, LoopInv
    <2>2. QED
      BY <1>9, <2>1 DEF RefreshDueDns, LoopInv, TypeOK, Busy, peers
  <1>10. CASE Query \/ Malformed \/ Applied \/ Rejected
    <2>1. backlog # <<>>
      BY <1>10 DEF Query, Malformed, Applied, Rejected, LoopInv, Busy
    <2>2. PICK text \in {"told", "invalid", "applied", "rejected"} :
            Respond(text) /\ (Log \/ UNCHANGED logs)
      BY <1>10 DEF Query, Malformed, Applied, Rejected, SendLogs
    <2>3. UNCHANGED <<file, path, signal, tick>>
      BY <1>10 DEF Query, Malformed, Applied, Rejected
    <2>4. installed' \in 0..MaxEdits /\ due' \in BOOLEAN
      BY <1>10 DEF Query, Malformed, Applied, Rejected, LoopInv, TypeOK
    <2>5. QED
      BY <2>1, <2>2, <2>3, <2>4, RespondInv
  <1>11. CASE Apply
    <2>1. TypeOK'
      BY <1>11 DEF Apply, LoopInv, TypeOK, peers, logs
    <2>2. Head(backlog) \in Peer
      BY <1>11 DEF Apply, LoopInv, TypeOK, Busy
    <2>3. Busy'
      BY <1>11, <2>2 DEF Apply, LoopInv, Busy, peers
    <2>4. QED
      BY <2>1, <2>3 DEF LoopInv
  <1>12. ASSUME NEW p \in Peer, Connect(p)
         PROVE  LoopInv'
    <2>1. backlog' = Append(backlog, p) /\ backlog \in Seq(Peer)
      BY <1>12 DEF Connect, LoopInv, TypeOK
    <2>2. /\ backlog' \in Seq(Peer) /\ backlog' # <<>>
          /\ backlog # <<>> => Head(backlog') = Head(backlog)
      BY <2>1
    <2>3. QED
      BY <1>12, <2>2 DEF Connect, LoopInv, TypeOK, Busy, loop, logs
  <1>13. ASSUME NEW p \in Root, Speak(p)
         PROVE  LoopInv'
    <2>0. p \in Peer /\ said[p] = "nothing" /\ file \in 0..MaxEdits
      BY <1>13, ControlLoopAssumption DEF Speak, LoopInv, TypeOK
    <2>1. /\ said' \in [Peer -> Request \cup {"nothing"}] /\ asof' \in [Peer -> 0..MaxEdits]
      BY <1>13, <2>0 DEF Speak, LoopInv, TypeOK
    <2>2. TypeOK'
      BY <1>13, <2>1 DEF Speak, LoopInv, TypeOK, loop, logs
    <2>3. \A q \in Peer : asof'[q] <= file'
      BY <1>13, <2>0 DEF Speak, LoopInv, TypeOK, Busy
    <2>4. pc = "apply" => /\ Head(backlog) # p
                          /\ asof'[Head(backlog)] = asof[Head(backlog)]
                          /\ said'[Head(backlog)] = said[Head(backlog)]
      BY <1>13, <2>0 DEF Speak, LoopInv, TypeOK, Busy
    <2>5. QED
      BY <1>13, <2>2, <2>3, <2>4 DEF Speak, LoopInv, Busy, loop
  <1>14. ASSUME NEW p \in Peer, HangUp(p)
         PROVE  LoopInv'
    BY <1>14 DEF HangUp, LoopInv, TypeOK, Busy, loop, logs
  <1>15. CASE EditFile
    <2>1. file \in Nat /\ file' = file + 1 /\ file' \in 0..MaxEdits
      BY <1>15, ControlLoopAssumption DEF EditFile, LoopInv, TypeOK
    <2>2. TypeOK'
      BY <1>15, <2>1 DEF EditFile, LoopInv, TypeOK, loop, peers, logs
    <2>3. \A p \in Peer : asof[p] \in Nat /\ asof[p] <= file
      BY ControlLoopAssumption DEF LoopInv, TypeOK, Busy
    <2>4. QED
      BY <1>15, <2>1, <2>2, <2>3 DEF EditFile, LoopInv, Busy, loop, peers
  <1>16. CASE Interval \/ TargetDue
    <2>1. tick' \in BOOLEAN /\ due' \in BOOLEAN
      BY <1>16 DEF Interval, TargetDue, LoopInv, TypeOK
    <2>2. UNCHANGED <<file, installed, path, loop, peers, answer, logs>>
      BY <1>16 DEF Interval, TargetDue
    <2>3. QED
      BY <2>1, <2>2 DEF LoopInv, TypeOK, Busy, loop, peers, logs
  <1>17. CASE UNCHANGED vars
    BY <1>17 DEF vars, LoopInv, TypeOK, Busy, loop, peers, logs
  <1>18. CASE StartupUnsaved
    BY <1>18, CutOffInv DEF StartupUnsaved, LoopInv, TypeOK
  <1>19. QED
    BY <1>1, <1>2, <1>3, <1>4, <1>5, <1>6, <1>7, <1>8, <1>9, <1>10, <1>11, <1>12,
       <1>13, <1>14, <1>15, <1>16, <1>17, <1>18 DEF Next, Process

THEOREM LoopInvariant == Spec => []LoopInv
  <1>1. LoopInv /\ [Next]_vars => LoopInv'
    BY LoopStep
  <1>2. QED
    BY LoopInit, <1>1, PTL DEF Spec

\* Every variable keeps its type.
THEOREM LoopTypeCorrect == Spec => []TypeOK
  BY LoopInvariant, PTL DEF LoopInv

(* --- What is told --------------------------------------------------------- *)

LEMMA AppliedStep ==
    ASSUME LoopInv, [Next]_vars, answer = "none", answer' = "applied"
    PROVE  installed' >= asof[Head(backlog)]
  <1>1. CASE Applied
    <2>1. pc = "apply" /\ installed' = loading /\ backlog # <<>>
      BY <1>1 DEF Applied, LoopInv, Busy
    <2>2. Head(backlog) \in Peer
      BY <2>1 DEF LoopInv, TypeOK
    <2>3. asof[Head(backlog)] \in Int /\ loading \in Int
      BY <2>2 DEF LoopInv, TypeOK
    <2>4. QED
      BY <2>1, <2>3 DEF LoopInv, Busy
  <1>2. CASE ~ Applied
    BY <1>2 DEF Next, Process, vars, Start, Startup, StartupFails, StartupUnsaved, Bind,
       BindFails, Wait, InterruptArrives, Shutdown, Exit, CutOff, Accept, AcceptFails,
       TakeTick, RefreshDueDns, Respond, Query, Malformed, Apply, Rejected, Connect,
       Speak, HangUp, EditFile, Interval, TargetDue
  <1>3. QED
    BY <1>1, <1>2

\* "applied" is told only of the file as the peer left it when it asked, or a newer one
\* (handle_stream, reload).
THEOREM AppliedCovers == Spec => AppliedCoversRequest
  <1>1. LoopInv /\ [Next]_vars =>
          [(answer = "none" /\ answer' = "applied") =>
              installed' >= asof[Head(backlog)]]_vars
    BY AppliedStep
  <1>2. QED
    BY <1>1, LoopInvariant, PTL DEF Spec, AppliedCoversRequest

\* Once ctrl_c has been polled, an interrupt ends the process only between two turns
\* of the loop (run).
THEOREM InterruptsWait == Spec => InterruptsWaitTheirTurn
  <1>1. [Next]_vars =>
          [(Serving /\ pc' = "down" /\ signal # "fatal") => pc = "select"]_vars
    BY DEF Next, Process, vars, loop, Serving, Start, Startup, StartupFails, StartupUnsaved,
       Bind, BindFails, Wait, InterruptArrives, Shutdown, Exit, CutOff, Accept, AcceptFails, TakeTick,
       RefreshDueDns, Respond, Query, Malformed, Apply, Applied, Rejected, Connect, Speak,
       HangUp, EditFile, Interval, TargetDue
  <1>2. QED
    BY <1>1, PTL DEF Spec, InterruptsWaitTheirTurn

(* --- The log -------------------------------------------------------------- *)

\* One more line keeps the newest lines.
LEMMA LogStep ==
    ASSUME TypeOK, LogsAreNewest, Log, log = <<>> => stamp = 0
    PROVE  LogsAreNewest' /\ log' # <<>>
  <1> DEFINE kept == IF Len(log) = LogCap THEN Tail(log) ELSE log
  <1>1. /\ log \in Seq(0..(Stamps - 1)) /\ Len(log) \in Nat /\ Len(log) <= LogCap
        /\ LogCap \in Nat \ {0} /\ stamp \in 0..(Stamps - 1)
    BY ControlLoopAssumption DEF TypeOK, LogsAreNewest
  <1>2. /\ kept \in Seq(0..(Stamps - 1)) /\ Len(kept) \in Nat /\ Len(kept) < LogCap
        /\ Len(log) = LogCap => /\ Len(kept) = Len(log) - 1
                                /\ \A i \in 1..Len(kept) : kept[i] = log[i + 1]
        /\ Len(log) # LogCap => kept = log
    <2>1. CASE Len(log) # LogCap
      BY <1>1, <2>1
    <2>2. CASE Len(log) = LogCap
      <3>1. kept = Tail(log) /\ log # <<>>
        BY <1>1, <2>2
      <3>2. /\ Tail(log) \in Seq(0..(Stamps - 1)) /\ Len(Tail(log)) = Len(log) - 1
            /\ \A i \in 1..(Len(log) - 1) : Tail(log)[i] = log[i + 1]
        BY <1>1, <3>1
      <3>3. QED
        BY <1>1, <2>2, <3>1, <3>2
    <2>3. QED
      BY <2>1, <2>2
  <1>3. log' = Append(kept, stamp) /\ stamp' = After(stamp)
    BY DEF Log, Push
  <1>4. /\ Len(log') = Len(kept) + 1 /\ log'[Len(kept) + 1] = stamp
        /\ \A i \in 1..Len(kept) : log'[i] = kept[i]
    BY <1>2, <1>3
  <1>5. kept # <<>> => After(kept[Len(kept)]) = stamp
    <2>1. log # <<>> => After(log[Len(log)]) = stamp
      BY DEF LogsAreNewest, Last
    <2>2. QED
      BY <1>1, <1>2, <2>1
  <1>6. \A i \in 1..(Len(kept) - 1) : kept[i + 1] = After(kept[i])
    BY <1>1, <1>2 DEF LogsAreNewest
  <1> HIDE DEF kept
  <1>7. \A i \in 1..(Len(log') - 1) : log'[i + 1] = After(log'[i])
    <2> SUFFICES ASSUME NEW i \in 1..Len(kept)
                 PROVE  log'[i + 1] = After(log'[i])
      BY <1>2, <1>4
    <2>1. CASE i = Len(kept)
      BY <1>2, <1>4, <1>5, <2>1
    <2>2. CASE i < Len(kept)
      <3>1. i \in 1..(Len(kept) - 1) /\ i + 1 \in 1..Len(kept)
        BY <1>2, <2>2
      <3>2. QED
        BY <1>4, <1>6, <3>1
    <2>3. QED
      BY <1>2, <2>1, <2>2
  <1>8. log' # <<>> /\ Len(log') <= LogCap /\ After(Last(log')) = stamp'
    BY <1>1, <1>2, <1>3, <1>4 DEF Last
  <1>9. Len(log') < LogCap => log'[1] = 0
    <2> SUFFICES ASSUME Len(log') < LogCap
                 PROVE  log'[1] = 0
      OBVIOUS
    <2>1. kept = log /\ Len(log) < LogCap
      BY <1>1, <1>2, <1>4
    <2>2. CASE log = <<>>
      BY <1>3, <2>1, <2>2
    <2>3. CASE log # <<>>
      BY <1>1, <1>4, <2>1, <2>3 DEF LogsAreNewest
    <2>4. QED
      BY <2>2, <2>3
  <1>10. QED
    BY <1>7, <1>8, <1>9 DEF LogsAreNewest

LogInv == LogsAreNewest /\ (log = <<>> => stamp = 0)

\* What logs shows are the newest lines (Daemon::log).
THEOREM NewestLines == Spec => []LogsAreNewest
  <1>1. Init => LogInv
    BY ControlLoopAssumption DEF Init, LogInv, LogsAreNewest
  <1>2. TypeOK /\ LogInv /\ [Next]_vars => LogInv'
    <2> SUFFICES ASSUME TypeOK, LogInv, [Next]_vars
                 PROVE  LogInv'
      OBVIOUS
    <2>1. Log \/ UNCHANGED logs \/ (log' = <<>> /\ stamp' = 0)
      BY DEF Next, Process, vars, Start, Startup, StartupFails, StartupUnsaved,
         Bind, BindFails, Wait, InterruptArrives, Shutdown, Exit, CutOff, Accept, AcceptFails,
         TakeTick, MayLog, SendLogs, RefreshDueDns, Query, Malformed, Apply, Applied, Rejected, Connect, Speak,
         HangUp, EditFile, Interval, TargetDue
    <2>2. CASE Log
      BY <2>2, LogStep DEF LogInv
    <2>3. CASE UNCHANGED logs
      BY <2>3 DEF logs, LogInv, LogsAreNewest
    <2>4. CASE log' = <<>> /\ stamp' = 0
      BY <2>4, ControlLoopAssumption DEF LogInv, LogsAreNewest
    <2>5. QED
      BY <2>1, <2>2, <2>3, <2>4
  <1>3. Spec => []LogInv
    BY <1>1, <1>2, LoopTypeCorrect, PTL DEF Spec
  <1>4. QED
    BY <1>3, PTL DEF LogInv
=============================================================================
