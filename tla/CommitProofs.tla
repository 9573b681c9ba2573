---------------------------- MODULE CommitProofs ----------------------------
(* What a commit does to the rules, the sysctls and the record of both, in    *)
(* three parts, each under the assumption the code's own limits ask for:      *)
(*  - the daemon implements Forwarding, where state.json can be written and    *)
(*    no other tool deletes the managed tables (Undisturbed): a failed save    *)
(*    is reported as a failed switch, and nothing tells the daemon that its    *)
(*    tables are gone;                                                        *)
(*  - route_localnet can always be given back, where sysctl and state writes   *)
(*    succeed and are not cut short (RecordKept): interfaces are enabled       *)
(*    before their original values are written;                               *)
(*  - a rejected apply leaves no trace, where sysctl and state writes succeed  *)
(*    and nobody deletes the tables meanwhile (Untraced): neither a partial    *)
(*    enable nor a save after the commit point is undone.                      *)
EXTENDS DaemonProofs

--------------------------------------------------------------------------
(* 1. The rules and the report                                              *)

Undisturbed == ~Fault("save") /\ ~Fault("flush")

\* What a transaction knows of the rules: those in force are the reported ones
\* until the batch is applied and the candidates from then on; and a refresh,
\* which rewrites statuses from its own copy of memory, has an up-to-date copy.
AgreeInv ==
    /\ pc \in {"idle", "down"} => txn.kind = "none"
    /\ pc = "restore" => nft = Rules(txn.candidates)
    /\ (pc \notin {"down", "restore"} /\ txn.kind # "startup") => nft = Rules(mem.active)
    /\ txn.kind = "refresh" => txn.prior.active = mem.active
    /\ pc = "note" => Rules(txn.candidates) = Rules(txn.prior.active)

--------------------------------------------------------------------------
(* Statuses do not enter the rules                                          *)

\* Profiles with the same settings and destinations become the same rules.
LEMMA SameRules ==
    ASSUME NEW f, NEW g, DOMAIN f = DOMAIN g,
           \A n \in DOMAIN f : /\ f[n].profile = g[n].profile
                               /\ f[n].destination = g[n].destination
    PROVE  Rules(f) = Rules(g)
BY DEF Rules

\* A refresh that switches nothing leaves the rules it would write unchanged.
LEMMA RefreshedRules ==
    ASSUME TypeInv, Refresh, pc' = "note"
    PROVE  Rules(txn'.candidates) = Rules(mem.active)
<1>1. PICK answer \in [Due -> UNION {Lookups(mem.active[n].dns.host) : n \in Due}] :
        LET candidates == [n \in DOMAIN mem.active |->
                             IF n \in Due THEN Refreshed(mem.active[n], answer[n])
                             ELSE mem.active[n]]
        IN  /\ txn' = [Begin("refresh", mem) EXCEPT !.candidates = candidates]
            /\ pc' = IF Switched(mem.active, candidates) # {} THEN "reread" ELSE "note"
  BY DEF Refresh
<1> DEFINE candidates == [n \in DOMAIN mem.active |->
                            IF n \in Due THEN Refreshed(mem.active[n], answer[n])
                            ELSE mem.active[n]]
<1>2. txn'.candidates = candidates
  <2>1. mem \in Memory
    BY DEF TypeInv, TypeOK
  <2>2. Begin("refresh", mem) \in Transaction
    BY <2>1, BeginType DEF TypeInv, Kind
  <2>3. txn' = [Begin("refresh", mem) EXCEPT !.candidates = candidates]
    BY <1>1
  <2> HIDE DEF candidates
  <2>4. QED
    BY <2>2, <2>3 DEF Transaction
<1>3. \A n \in DOMAIN mem.active : candidates[n].profile = mem.active[n].profile
  <2>1. TAKE n \in DOMAIN mem.active
  <2>2. mem.active[n] \in Active
    BY PartialElim DEF TypeInv, TypeOK, Memory, Actives
  <2>3. Refreshed(mem.active[n], answer[n]).profile = mem.active[n].profile
    <3> DEFINE d == RefreshStatus(mem.active[n].dns, mem.active[n].profile.family,
                                  answer[n], now)
    <3>1. Refreshed(mem.active[n], answer[n]) =
            [mem.active[n] EXCEPT !.destination = d.address, !.dns = d]
      BY DEF Refreshed
    <3> HIDE DEF d
    <3>2. QED
      BY <2>2, <3>1 DEF Active
  <2>4. QED
    BY <2>3
<1>4. \A n \in DOMAIN mem.active : candidates[n].destination = mem.active[n].destination
  BY <1>1 DEF Switched
<1>5. DOMAIN candidates = DOMAIN mem.active
  OBVIOUS
<1> HIDE DEF candidates
<1>6. QED
  BY <1>2, <1>3, <1>4, <1>5, SameRules

\* Recording failures in the old targets does not change their rules.
LEMMA DegradedRules ==
    ASSUME TypeInv
    PROVE  Rules(Degraded) = Rules(txn.prior.active)
<1>1. /\ DOMAIN Degraded = DOMAIN txn.prior.active
      /\ \A n \in DOMAIN Degraded :
           /\ Degraded[n].profile = txn.prior.active[n].profile
           /\ Degraded[n].destination = txn.prior.active[n].destination
  <2>1. \A n \in DOMAIN txn.prior.active : txn.prior.active[n] \in Active
    BY PartialElim DEF TypeInv, TypeOK, Transaction, Memory, Actives
  <2>2. QED
    BY <2>1 DEF Degraded, Active
<1>2. QED
  BY <1>1, SameRules

--------------------------------------------------------------------------
(* The invariant                                                            *)

\* An error that reaches its caller before the batch was applied.
LEMMA AbortAgrees ==
    ASSUME TypeInv, AgreeInv, Abort, UNCHANGED kernel, pc \notin {"idle", "down", "restore"}
    PROVE  AgreeInv'
<1>1. UNCHANGED nft
  BY DEF kernel
<1>2. CASE txn.kind = "startup"
  BY <1>2 DEF Abort, EndWithError, AgreeInv, NoTxn
<1>3. CASE txn.kind = "apply"
  BY <1>1, <1>3 DEF Abort, EndWithError, AgreeInv, NoTxn
<1>4. CASE txn.kind = "refresh"
  <2>1. pc' = "degrade" /\ mem' = mem /\ txn' = [txn EXCEPT !.todo = {}]
    BY <1>4 DEF Abort, EndWithError
  <2>2. /\ txn'.kind = txn.kind /\ txn'.prior = txn.prior
        /\ txn'.candidates = txn.candidates
    BY <2>1 DEF TypeInv, TypeOK, Transaction
  <2>3. QED
    BY <1>1, <1>4, <2>1, <2>2 DEF AgreeInv
<1>5. QED
  BY <1>2, <1>3, <1>4 DEF Abort, EndWithError

\* A step inside a transaction that changes only its local variables.
LEMMA QuietAgrees ==
    ASSUME AgreeInv, UNCHANGED <<nft, mem>>,
           txn'.kind = txn.kind, txn'.prior = txn.prior,
           txn'.candidates = txn.candidates,
           pc' \notin {"idle", "down", "note"},
           pc \notin {"idle", "down"}, pc' = "restore" <=> pc = "restore"
    PROVE  AgreeInv'
BY DEF AgreeInv

\* Either a step of the commit aborts or it changes only local variables.
LEMMA CommitStepAgrees ==
    ASSUME TypeInv, AgreeInv,
           \/ CheckHooks \/ PrepareBatch \/ NetworkPreflight \/ NftCheck
           \/ EnableOne \/ EnableFails \/ RollbackOne \/ RollbackEnds
           \/ RestoreOne \/ RestoreFails
    PROVE  AgreeInv'
<1>1. CASE Abort
  <2>1. UNCHANGED kernel /\ pc \notin {"idle", "down", "restore"}
    BY <1>1 DEF CheckHooks, PrepareBatch, NetworkPreflight, NftCheck, EnableOne,
                EnableFails, RollbackOne, RollbackEnds, RestoreOne, RestoreFails,
                Abort, EndWithError
  <2>2. QED
    BY <1>1, <2>1, AbortAgrees
<1>2. CASE ~Abort
  <2>1. /\ UNCHANGED <<nft, mem>>
        /\ pc \in {"hooks", "batch", "network", "check", "enable", "rollback", "restore"}
        /\ pc' \in {"batch", "network", "check", "enable", "rollback", "restore"}
        /\ pc' = "restore" <=> pc = "restore"
    BY <1>2 DEF CheckHooks, PrepareBatch, NetworkPreflight, NftCheck, EnableOne,
                EnableFails, RollbackOne, RollbackEnds, RestoreOne, RestoreFails, kernel
  <2>2. \/ UNCHANGED txn
        \/ txn' = [txn EXCEPT !.managed = (nft # NoTables)]
        \/ txn' = [txn EXCEPT !.adjusted = Adjusted, !.found = Found]
        \/ \E s : txn' = [txn EXCEPT !.todo = s]
    BY <1>2 DEF CheckHooks, PrepareBatch, NetworkPreflight, NftCheck, EnableOne,
                EnableFails, RollbackOne, RollbackEnds, RestoreOne, RestoreFails
  <2>3. /\ txn'.kind = txn.kind /\ txn'.prior = txn.prior
        /\ txn'.candidates = txn.candidates
    BY <2>2 DEF TypeInv, TypeOK, Transaction
  <2>4. QED
    BY <2>1, <2>3, QuietAgrees
<1>3. QED
  BY <1>1, <1>2

\* The steps that replace the rules, publish them or begin and end a cycle.
LEMMA OtherStepAgrees ==
    ASSUME TypeInv, AgreeInv, Undisturbed,
           \/ Reload \/ Apply \/ Save \/ RefreshCycle
           \/ Failure \/ Environment \/ UNCHANGED vars
    PROVE  AgreeInv'
<1>1. CASE Start
  <2>1. pc' = "reload" /\ txn' = Begin("startup", mem')
    BY <1>1 DEF Start
  <2>2. txn'.kind = "startup"
    BY <2>1 DEF Begin, NoTxn
  <2>3. QED
    BY <2>1, <2>2 DEF AgreeInv
<1>2. CASE ReceiveApply
  <2>1. /\ pc = "idle" /\ pc' = "reload" /\ txn' = Begin("apply", mem)
        /\ UNCHANGED <<nft, mem>>
    BY <1>2 DEF ReceiveApply, kernel
  <2>2. txn'.kind = "apply"
    BY <2>1 DEF Begin, NoTxn
  <2>3. QED
    BY <2>1, <2>2 DEF AgreeInv
<1>3. CASE LoadConfig
  <2>1. pc = "reload" /\ UNCHANGED kernel
    BY <1>3 DEF LoadConfig
  <2>2. CASE Abort
    BY <2>1, <2>2, AbortAgrees
  <2>3. CASE ~Abort
    <3>1. /\ pc' = "hooks" /\ UNCHANGED mem
          /\ \E c : txn' = [txn EXCEPT !.candidates = c, !.allow = file.allowExternal]
      BY <1>3, <2>3 DEF LoadConfig
    <3>2. txn'.kind = txn.kind /\ txn'.prior = txn.prior
      BY <3>1 DEF TypeInv, TypeOK, Transaction
    <3>3. QED
      BY <2>1, <3>1, <3>2 DEF AgreeInv, kernel
  <2>4. QED
    BY <2>2, <2>3
<1>4. CASE Apply
  <2>1. pc = "enable" /\ UNCHANGED mem
    BY <1>4 DEF Apply
  <2>2. \/ pc' = "restore" /\ nft' = Rules(txn.candidates)
        \/ pc' = "rollback" /\ UNCHANGED nft
    BY <1>4 DEF Apply
  <2>3. /\ txn'.kind = txn.kind /\ txn'.prior = txn.prior
        /\ txn'.candidates = txn.candidates
    <3>1. \E s : txn' = [txn EXCEPT !.todo = s]
      BY <1>4 DEF Apply
    <3>2. QED
      BY <3>1 DEF TypeInv, TypeOK, Transaction
  <2>4. QED
    BY <2>1, <2>2, <2>3 DEF AgreeInv
<1>5. CASE Save
  <2>1. /\ pc = "restore" /\ pc' = "idle" /\ txn' = NoTxn /\ UNCHANGED nft
        /\ mem' = [state |-> NextState, active |-> txn.candidates]
    BY <1>5 DEF Save, Undisturbed, kernel
  <2>2. mem'.active = txn.candidates /\ txn'.kind = "none"
    BY <2>1 DEF NoTxn
  <2>3. QED
    BY <2>1, <2>2 DEF AgreeInv
<1>6. CASE Refresh
  <2>1. /\ pc = "idle" /\ pc' \in {"reread", "note"} /\ UNCHANGED <<nft, mem>>
        /\ \E c : txn' = [Begin("refresh", mem) EXCEPT !.candidates = c]
    BY <1>6 DEF Refresh, kernel
  <2>2. txn'.kind = "refresh" /\ txn'.prior = mem
    <3>1. Begin("refresh", mem) \in Transaction
          /\ Begin("refresh", mem).kind = "refresh" /\ Begin("refresh", mem).prior = mem
      BY BeginType DEF TypeInv, TypeOK, Kind
    <3>2. QED
      BY <2>1, <3>1 DEF Transaction
  <2>3. pc' = "note" => Rules(txn'.candidates) = Rules(txn'.prior.active)
    BY <1>6, <2>2, RefreshedRules
  <2>4. QED
    BY <2>1, <2>2, <2>3 DEF AgreeInv
<1>7. CASE Reread
  <2>1. /\ pc = "reread" /\ UNCHANGED <<nft, mem>>
        /\ \/ pc' = "hooks" /\ txn' = [txn EXCEPT !.allow = file.allowExternal]
           \/ pc' = "idle" /\ txn' = NoTxn
    BY <1>7 DEF Reread, kernel
  <2>2. txn.kind = "refresh"
    BY <2>1 DEF TypeInv, Shape
  <2>3. CASE pc' = "hooks"
    <3>1. txn'.kind = txn.kind /\ txn'.prior = txn.prior
      BY <2>1, <2>3 DEF TypeInv, TypeOK, Transaction
    <3>2. QED
      BY <2>1, <2>2, <2>3, <3>1 DEF AgreeInv
  <2>4. CASE pc' = "idle"
    BY <2>1, <2>2, <2>4 DEF AgreeInv, NoTxn
  <2>5. QED
    BY <2>1, <2>3, <2>4
<1>8. CASE NoteStatuses \/ Degrade
  <2>1. /\ pc \in {"note", "degrade"} /\ pc' = "idle" /\ txn' = NoTxn /\ UNCHANGED nft
        /\ \/ pc = "note" /\ mem'.active = txn.candidates
           \/ mem'.active = Degraded
    BY <1>8 DEF NoteStatuses, Degrade, SaveRefreshOnly, Undisturbed, kernel
  <2>2. nft = Rules(mem.active) /\ mem.active = txn.prior.active
    BY <2>1 DEF AgreeInv, TypeInv, Shape
  <2>3. nft' = Rules(mem'.active)
    BY <2>1, <2>2, DegradedRules DEF AgreeInv
  <2>4. QED
    BY <2>1, <2>3 DEF AgreeInv, NoTxn
<1>9. CASE Stop \/ Reboot
  BY <1>9 DEF Stop, Reboot, AgreeInv, NoTxn
<1>10. CASE LoseStateFile \/ Environment \/ UNCHANGED vars
  <2>1. UNCHANGED <<nft, pc, txn, mem>>
    BY <1>10 DEF LoseStateFile, Environment, EditConfig, MoveAddresses, ForeignChains,
                 ChangeZone, Tick, vars, kernel
  <2>2. QED
    BY <2>1 DEF AgreeInv
<1>11. ~FlushRuleset
  BY DEF FlushRuleset, Undisturbed
<1>12. QED
  BY <1>1, <1>2, <1>3, <1>4, <1>5, <1>6, <1>7, <1>8, <1>9, <1>10, <1>11
     DEF Reload, RefreshCycle, Failure

THEOREM AgreeInvariant == ASSUME Undisturbed PROVE Spec => []AgreeInv
<1>1. Init => AgreeInv
  BY DEF Init, AgreeInv, NoTxn
<1>2. TypeInv /\ AgreeInv /\ [Next]_vars => AgreeInv'
  BY CommitStepAgrees, OtherStepAgrees DEF Next, Commit
<1>3. QED
  BY <1>1, <1>2, TypeInvariant, PTL DEF Spec

\* Between transactions the profiles the daemon reports are the rules in force,
\* whatever commands, sysctl writes and lookups fail and wherever it crashes, as
\* long as state.json can be written and nobody else deletes the tables.
THEOREM ReportsInForce == ASSUME Undisturbed PROVE Spec => []ReportedRulesInstalled
<1>1. AgreeInv => ReportedRulesInstalled
  BY DEF AgreeInv, ReportedRulesInstalled
<1>2. QED
  BY <1>1, AgreeInvariant, PTL

--------------------------------------------------------------------------
(* Refinement                                                               *)

\* An active profile as it is served: a set of rules.
LEMMA MemoryRules == ASSUME TypeInv PROVE Rules(txn.candidates) \in Ruleset
BY RulesType DEF TypeInv, TypeOK, Transaction

\* A step that leaves the rules alone and ends no transaction in success does not
\* change the report: before the commit point both are the same rules, after it
\* memory is not touched.
LEMMA QuietImplements ==
    ASSUME TypeInv, AgreeInv, AgreeInv', UNCHANGED nft,
           \/ Reload \/ RefreshCycle \/ LoseStateFile \/ Environment \/ UNCHANGED vars
           \/ CheckHooks \/ PrepareBatch \/ NetworkPreflight \/ NftCheck
           \/ EnableOne \/ EnableFails \/ RollbackOne \/ RollbackEnds
           \/ RestoreOne \/ RestoreFails
    PROVE  UNCHANGED Reported
<1>1. CASE Start
  <2>1. pc = "down" /\ txn' = Begin("startup", mem')
    BY <1>1 DEF Start
  <2>2. txn'.kind = "startup"
    BY <2>1 DEF Begin, NoTxn
  <2>3. QED
    BY <2>1, <2>2 DEF Reported
<1>2. CASE ReceiveApply
  <2>1. pc = "idle" /\ pc' = "reload" /\ UNCHANGED mem /\ txn' = Begin("apply", mem)
    BY <1>2 DEF ReceiveApply
  <2>2. txn'.kind = "apply"
    BY <2>1 DEF Begin, NoTxn
  <2>3. QED
    BY <2>1, <2>2 DEF Reported, AgreeInv
<1>3. CASE RefreshCycle
  <2>1. /\ pc \in {"idle", "reread", "note", "degrade"}
        /\ pc' \in {"idle", "hooks", "reread", "note"}
    BY <1>3 DEF RefreshCycle, Refresh, Reread, NoteStatuses, Degrade
  <2>2. txn.kind # "startup"
    BY <2>1 DEF TypeInv, Shape, AgreeInv
  <2>3. txn'.kind # "startup"
    <3>1. pc' \in {"idle", "reread", "note"} => txn'.kind \in {"none", "refresh"}
      BY <1>3, StepType DEF TypeInv, Shape, AgreeInv, Next
    <3>2. CASE pc' = "hooks"
      <4>1. txn' = [txn EXCEPT !.allow = file.allowExternal]
        BY <1>3, <3>2 DEF RefreshCycle, Refresh, Reread, NoteStatuses, Degrade
      <4>2. QED
        BY <2>2, <4>1 DEF TypeInv, TypeOK, Transaction
    <3>3. QED
      BY <2>1, <3>1, <3>2
  <2>4. QED
    BY <2>1, <2>2, <2>3 DEF Reported, AgreeInv
<1>4. CASE Abort /\ ~RefreshCycle
  <2>1. pc \notin {"idle", "down", "restore"}
    BY <1>4 DEF Reload, Start, ReceiveApply, LoadConfig, LoseStateFile, Environment,
                EditConfig, MoveAddresses, ForeignChains, ChangeZone, Tick, vars,
                CheckHooks, PrepareBatch, NetworkPreflight, NftCheck, EnableOne,
                EnableFails, RollbackOne, RollbackEnds, RestoreOne, RestoreFails,
                Abort, EndWithError, AgreeInv
  <2>2. CASE txn.kind = "startup"
    BY <1>4, <2>2 DEF Abort, EndWithError, Reported
  <2>3. CASE txn.kind = "apply"
    BY <1>4, <2>1, <2>3 DEF Abort, EndWithError, Reported, NoTxn
  <2>4. CASE txn.kind = "refresh"
    <3>1. pc' = "degrade" /\ mem' = mem /\ txn' = [txn EXCEPT !.todo = {}]
      BY <1>4, <2>4 DEF Abort, EndWithError
    <3>2. txn'.kind = txn.kind
      BY <3>1 DEF TypeInv, TypeOK, Transaction
    <3>3. QED
      BY <2>1, <2>4, <3>1, <3>2 DEF Reported
  <2>5. QED
    BY <1>4, <2>2, <2>3, <2>4 DEF Abort, EndWithError
<1>5. CASE /\ ~Abort
           /\ \/ LoadConfig \/ CheckHooks \/ PrepareBatch \/ NetworkPreflight
              \/ NftCheck \/ EnableOne \/ EnableFails \/ RollbackOne \/ RollbackEnds
              \/ RestoreOne \/ RestoreFails
  <2>1. pc # "down" /\ pc' # "down" /\ UNCHANGED mem
    BY <1>5 DEF LoadConfig, CheckHooks, PrepareBatch, NetworkPreflight, NftCheck,
                EnableOne, EnableFails, RollbackOne, RollbackEnds, RestoreOne,
                RestoreFails
  <2>2. \/ UNCHANGED txn
        \/ \E c : txn' = [txn EXCEPT !.candidates = c, !.allow = file.allowExternal]
        \/ txn' = [txn EXCEPT !.managed = (nft # NoTables)]
        \/ txn' = [txn EXCEPT !.adjusted = Adjusted, !.found = Found]
        \/ \E s : txn' = [txn EXCEPT !.todo = s]
    BY <1>5 DEF LoadConfig, CheckHooks, PrepareBatch, NetworkPreflight, NftCheck,
                EnableOne, EnableFails, RollbackOne, RollbackEnds, RestoreOne,
                RestoreFails
  <2>3. txn'.kind = txn.kind
    BY <2>2 DEF TypeInv, TypeOK, Transaction
  <2>4. QED
    BY <2>1, <2>3 DEF Reported
<1>6. CASE LoseStateFile \/ Environment \/ UNCHANGED vars
  <2>1. UNCHANGED <<pc, txn, mem>>
    BY <1>6 DEF LoseStateFile, Environment, EditConfig, MoveAddresses, ForeignChains,
                ChangeZone, Tick, vars
  <2>2. QED
    BY <2>1 DEF Reported
<1>7. QED
  BY <1>1, <1>2, <1>3, <1>4, <1>5, <1>6 DEF Reload

\* Every step of the daemon is a step of Forwarding or changes neither the rules
\* nor the report.
LEMMA StepImplements ==
    ASSUME TypeInv, AgreeInv, AgreeInv', Undisturbed, [Next]_vars
    PROVE  [Service!Next]_<<nft, Reported>>
<1>1. CASE Apply
  <2>1. /\ pc = "enable" /\ pc' \in {"restore", "rollback"} /\ UNCHANGED mem
        /\ nft' \in {Rules(txn.candidates), nft}
    BY <1>1 DEF Apply
  <2>2. txn'.kind = txn.kind
    <3>1. \E s : txn' = [txn EXCEPT !.todo = s]
      BY <1>1 DEF Apply
    <3>2. QED
      BY <3>1 DEF TypeInv, TypeOK, Transaction
  <2>3. Reported' = Reported /\ Reported \in {Absent, nft}
    BY <2>1, <2>2 DEF AgreeInv, Reported
  <2>4. CASE nft' = nft
    BY <2>3, <2>4
  <2>5. CASE nft' = Rules(txn.candidates)
    BY <2>3, <2>5, MemoryRules DEF Service!Next, Service!Switch
  <2>6. QED
    BY <2>1, <2>4, <2>5
<1>2. CASE Save
  <2>1. /\ pc = "restore" /\ pc' = "idle" /\ txn' = NoTxn /\ UNCHANGED nft
    BY <1>2 DEF Save, Undisturbed, kernel
  <2>2. nft \in Ruleset
    BY <2>1, MemoryRules DEF AgreeInv
  <2>3. Reported' = nft
    BY <2>1 DEF AgreeInv, NoTxn, Reported
  <2>4. QED
    BY <2>1, <2>2, <2>3 DEF Service!Next, Service!Report
<1>3. CASE Stop
  <2>1. UNCHANGED nft /\ Reported' = Absent
    BY <1>3 DEF Stop, kernel, Reported
  <2>2. QED
    BY <2>1 DEF Service!Next, Service!Leave
<1>4. CASE Reboot
  <2>1. nft' = NoTables /\ Reported' = Absent
    BY <1>4 DEF Reboot, Reported
  <2>2. QED
    BY <2>1 DEF Service!Next, Service!Restart
<1>5. CASE \/ Reload \/ RefreshCycle \/ LoseStateFile \/ Environment \/ UNCHANGED vars
           \/ CheckHooks \/ PrepareBatch \/ NetworkPreflight \/ NftCheck
           \/ EnableOne \/ EnableFails \/ RollbackOne \/ RollbackEnds
           \/ RestoreOne \/ RestoreFails
  <2>1. UNCHANGED nft
    BY <1>5 DEF Reload, Start, ReceiveApply, LoadConfig, RefreshCycle, Refresh, Reread,
                NoteStatuses, Degrade, LoseStateFile, Environment, EditConfig,
                MoveAddresses, ForeignChains, ChangeZone, Tick, vars, CheckHooks,
                PrepareBatch, NetworkPreflight, NftCheck, EnableOne, EnableFails,
                RollbackOne, RollbackEnds, RestoreOne, RestoreFails, kernel
  <2>2. QED
    BY <1>5, <2>1, QuietImplements
<1>6. ~FlushRuleset
  BY DEF FlushRuleset, Undisturbed
<1>7. QED
  BY <1>1, <1>2, <1>3, <1>4, <1>5, <1>6 DEF Next, Commit, Failure

\* Under the same assumptions the daemon implements Forwarding: the rules change
\* only in one step, only to a complete set, never twice before the report, and
\* what it reports is in force before it is reported.
THEOREM ServiceImplemented == ASSUME Undisturbed PROVE Spec => ImplementsForwarding
<1>1. Init => Service!Init
  BY DEF Init, Service!Init, Reported
<1>2. TypeInv /\ AgreeInv /\ AgreeInv' /\ [Next]_vars => [Service!Next]_<<nft, Reported>>
  BY StepImplements
<1>3. QED
  BY <1>1, <1>2, TypeInvariant, AgreeInvariant, PTL
     DEF Spec, ImplementsForwarding, Service!Spec

--------------------------------------------------------------------------
(* 2. The operator's route_localnet                                          *)

RecordKept == ~Fault("sysctl") /\ ~Fault("save") /\ ~Fault("crash") /\ ~Fault("state")

Recorded == Loaded.original

\* Where route_localnet may differ from the operator's setting at each control
\* point, with the record and the values read known to be the operator's.
RouteInv ==
    /\ \A i \in DOMAIN Recorded : Recorded[i] = Operator[i]
    /\ pc # "down" => mem.state.original = Recorded
    /\ pc \notin {"down", "idle"} => txn.prior.state.original = Recorded
    /\ pc \in {"check", "enable", "rollback", "restore"} =>
          \A i \in DOMAIN txn.adjusted : txn.adjusted[i] = Operator[i]
    /\ \A i \in Iface : sysctl[i] # Operator[i] =>
          CASE pc = "enable"   -> i \in DOMAIN Recorded \cup DOMAIN txn.adjusted
            [] pc = "rollback" -> i \in DOMAIN Recorded \cup txn.todo
            [] pc = "restore"  -> i \in DOMAIN txn.adjusted \cup txn.todo
            [] OTHER           -> i \in DOMAIN Recorded

\* Nothing the invariant speaks of changes, except where the transaction is.
LEMMA QuietRoute ==
    ASSUME RouteInv, UNCHANGED <<sysctl, disk>>,
           pc \notin {"enable", "rollback", "restore"},
           pc' \notin {"check", "enable", "rollback", "restore"},
           pc' # "down" => mem'.state.original = Recorded,
           pc' \notin {"down", "idle"} => txn'.prior.state.original = Recorded
    PROVE  RouteInv'
<1>1. Recorded' = Recorded
  BY DEF Recorded, Loaded
<1>2. QED
  BY <1>1 DEF RouteInv

\* An error before the interfaces are enabled.
LEMMA AbortRoute ==
    ASSUME TypeInv, RouteInv, Abort, UNCHANGED kernel,
           pc \notin {"down", "idle", "enable", "rollback", "restore"}
    PROVE  RouteInv'
<1>1. UNCHANGED <<sysctl, disk>> /\ pc' \in {"down", "idle", "degrade"}
  BY DEF Abort, EndWithError, kernel
<1>2. pc' # "down" => mem' = mem
  BY DEF Abort, EndWithError
<1>3. pc' = "degrade" => txn'.prior = txn.prior
  <2>1. pc' = "degrade" => txn' = [txn EXCEPT !.todo = {}]
    BY DEF Abort, EndWithError
  <2>2. QED
    BY <2>1 DEF TypeInv, TypeOK, Transaction
<1>4. QED
  BY <1>1, <1>2, <1>3, QuietRoute DEF RouteInv

--------------------------------------------------------------------------
(* The commit                                                               *)

LEMMA CommitRoute ==
    ASSUME TypeInv, RouteInv, RecordKept, Commit
    PROVE  RouteInv'
<1>1. CASE CheckHooks \/ PrepareBatch
  <2>1. UNCHANGED kernel /\ pc \in {"hooks", "batch"}
    BY <1>1 DEF CheckHooks, PrepareBatch
  <2>2. CASE Abort
    BY <2>1, <2>2, AbortRoute
  <2>3. CASE ~Abort
    <3>1. /\ UNCHANGED <<disk, mem>> /\ pc' \in {"batch", "network"}
          /\ \/ UNCHANGED txn
             \/ txn' = [txn EXCEPT !.managed = (nft # NoTables)]
      BY <1>1, <2>3 DEF CheckHooks, PrepareBatch
    <3>2. txn'.prior = txn.prior
      BY <3>1 DEF TypeInv, TypeOK, Transaction
    <3>3. QED
      BY <2>1, <3>1, <3>2, QuietRoute DEF RouteInv, kernel
  <2>4. QED
    BY <2>2, <2>3
<1>2. CASE NetworkPreflight
  <2>1. UNCHANGED kernel /\ pc = "network"
    BY <1>2 DEF NetworkPreflight
  <2>2. CASE Abort
    BY <2>1, <2>2, AbortRoute
  <2>3. CASE ~Abort
    <3>1. /\ UNCHANGED <<sysctl, disk, mem>> /\ pc' = "check"
          /\ txn' = [txn EXCEPT !.adjusted = Adjusted, !.found = Found]
      BY <1>2, <2>1, <2>3 DEF NetworkPreflight, kernel
    <3>2. txn'.adjusted = Adjusted /\ txn'.prior = txn.prior
      BY <3>1 DEF TypeInv, TypeOK, Transaction
    <3>3. LoopbackInterfaces \subseteq Iface
      BY LoopbackInterfacesType
    <3>4. \A i \in DOMAIN Adjusted : Adjusted[i] = Operator[i]
      BY <2>1, <3>3 DEF Adjusted, RouteInv
    <3>5. Recorded' = Recorded
      BY <3>1 DEF Recorded, Loaded
    <3>6. QED
      BY <2>1, <3>1, <3>2, <3>4, <3>5 DEF RouteInv
  <2>4. QED
    BY <2>2, <2>3
<1>3. CASE NftCheck
  <2>1. UNCHANGED kernel /\ pc = "check"
    BY <1>3 DEF NftCheck
  <2>2. CASE Abort
    BY <2>1, <2>2, AbortRoute
  <2>3. CASE ~Abort
    <3>1. /\ UNCHANGED <<sysctl, disk, mem>> /\ pc' = "enable"
          /\ txn' = [txn EXCEPT !.todo = DOMAIN txn.adjusted]
      BY <1>3, <2>1, <2>3 DEF NftCheck, kernel
    <3>2. txn'.adjusted = txn.adjusted /\ txn'.prior = txn.prior
      BY <3>1 DEF TypeInv, TypeOK, Transaction
    <3>3. Recorded' = Recorded
      BY <3>1 DEF Recorded, Loaded
    <3>4. QED
      BY <2>1, <3>1, <3>2, <3>3 DEF RouteInv
  <2>4. QED
    BY <2>2, <2>3
<1>4. CASE EnableOne
  <2>1. PICK k \in txn.todo : /\ sysctl' = [sysctl EXCEPT ![k] = TRUE]
                              /\ txn' = [txn EXCEPT !.todo = @ \ {k}]
    BY <1>4 DEF EnableOne
  <2>2. pc = "enable" /\ UNCHANGED <<disk, pc, mem>>
    BY <1>4 DEF EnableOne
  <2>3. k \in Iface /\ sysctl \in [Iface -> BOOLEAN]
    BY DEF TypeInv, TypeOK, Transaction
  <2>4. k \in DOMAIN txn.adjusted
    BY <2>2 DEF TypeInv, Shape
  <2>5. \A i \in Iface \ {k} : sysctl'[i] = sysctl[i]
    BY <2>1, <2>3
  <2>6. txn'.adjusted = txn.adjusted /\ txn'.prior = txn.prior
    BY <2>1 DEF TypeInv, TypeOK, Transaction
  <2>7. Recorded' = Recorded
    BY <2>2 DEF Recorded, Loaded
  <2>8. QED
    BY <2>2, <2>4, <2>5, <2>6, <2>7 DEF RouteInv
<1>5. CASE Apply
  <2>1. UNCHANGED <<sysctl, disk, mem>> /\ pc = "enable"
    BY <1>5 DEF Apply
  <2>2. \/ pc' = "restore" /\ txn' = [txn EXCEPT !.todo = Stale]
        \/ pc' = "rollback" /\ txn' = [txn EXCEPT !.todo = Fresh]
    BY <1>5 DEF Apply
  <2>3. /\ txn'.adjusted = txn.adjusted /\ txn'.prior = txn.prior
        /\ pc' = "restore" => txn'.todo = Stale
        /\ pc' = "rollback" => txn'.todo = Fresh
    BY <2>2 DEF TypeInv, TypeOK, Transaction
  <2>4. Recorded' = Recorded /\ txn.prior.state.original = Recorded
    BY <2>1 DEF Recorded, Loaded, RouteInv
  <2>5. \A i \in Iface : sysctl'[i] # Operator[i] =>
          i \in DOMAIN Recorded \cup DOMAIN txn.adjusted
    BY <2>1 DEF RouteInv
  <2>6. CASE pc' = "restore"
    BY <2>1, <2>3, <2>4, <2>5, <2>6 DEF RouteInv, Stale
  <2>7. CASE pc' = "rollback"
    BY <2>1, <2>3, <2>4, <2>5, <2>7 DEF RouteInv, Fresh
  <2>8. QED
    BY <2>2, <2>6, <2>7
<1>6. CASE RollbackOne
  <2>1. PICK k \in txn.todo : /\ sysctl' = [sysctl EXCEPT ![k] = txn.adjusted[k]]
                              /\ txn' = [txn EXCEPT !.todo = @ \ {k}]
    BY <1>6 DEF RollbackOne
  <2>2. pc = "rollback" /\ UNCHANGED <<disk, pc, mem>>
    BY <1>6 DEF RollbackOne
  <2>3. k \in Iface /\ sysctl \in [Iface -> BOOLEAN]
    BY DEF TypeInv, TypeOK, Transaction
  <2>4. txn.adjusted[k] = Operator[k]
    BY <2>2 DEF TypeInv, Shape, Fresh, RouteInv
  <2>5. sysctl'[k] = Operator[k] /\ \A i \in Iface \ {k} : sysctl'[i] = sysctl[i]
    BY <2>1, <2>3, <2>4
  <2>6. /\ txn'.adjusted = txn.adjusted /\ txn'.prior = txn.prior
        /\ txn'.todo = txn.todo \ {k}
    BY <2>1 DEF TypeInv, TypeOK, Transaction
  <2>7. Recorded' = Recorded
    BY <2>2 DEF Recorded, Loaded
  <2>8. QED
    BY <2>2, <2>5, <2>6, <2>7 DEF RouteInv
<1>7. CASE RestoreOne
  <2>1. PICK k \in txn.todo :
          /\ sysctl' = [sysctl EXCEPT ![k] = txn.prior.state.original[k]]
          /\ txn' = [txn EXCEPT !.todo = @ \ {k}]
    BY <1>7 DEF RestoreOne
  <2>2. pc = "restore" /\ UNCHANGED <<disk, pc, mem>>
    BY <1>7 DEF RestoreOne
  <2>3. k \in Iface /\ sysctl \in [Iface -> BOOLEAN]
    BY DEF TypeInv, TypeOK, Transaction
  <2>4. txn.prior.state.original[k] = Operator[k]
    BY <2>2 DEF TypeInv, Shape, Stale, RouteInv
  <2>5. sysctl'[k] = Operator[k] /\ \A i \in Iface \ {k} : sysctl'[i] = sysctl[i]
    BY <2>1, <2>3, <2>4
  <2>6. /\ txn'.adjusted = txn.adjusted /\ txn'.prior = txn.prior
        /\ txn'.todo = txn.todo \ {k}
    BY <2>1 DEF TypeInv, TypeOK, Transaction
  <2>7. Recorded' = Recorded
    BY <2>2 DEF Recorded, Loaded
  <2>8. QED
    BY <2>2, <2>5, <2>6, <2>7 DEF RouteInv
<1>8. CASE RollbackEnds
  <2>1. /\ pc = "rollback" /\ txn.todo = {} /\ UNCHANGED <<sysctl, disk>>
        /\ pc' \in {"down", "idle", "degrade"}
        /\ pc' # "down" => mem' = mem
    BY <1>8 DEF RollbackEnds, Abort, EndWithError, RecordKept, kernel
  <2>2. pc' = "degrade" => txn'.prior = txn.prior
    <3>1. pc' = "degrade" => txn' = [txn EXCEPT !.todo = {}]
      BY <1>8 DEF RollbackEnds, Abort, EndWithError
    <3>2. QED
      BY <3>1 DEF TypeInv, TypeOK, Transaction
  <2>3. Recorded' = Recorded
    BY <2>1 DEF Recorded, Loaded
  <2>4. QED
    BY <2>1, <2>2, <2>3 DEF RouteInv
<1>9. CASE Save
  <2>1. /\ pc = "restore" /\ txn.todo = {} /\ UNCHANGED sysctl
        /\ disk' = NextState /\ mem' = [state |-> NextState, active |-> txn.candidates]
        /\ pc' = "idle"
    BY <1>9 DEF Save, RecordKept, kernel
  <2>2. NextState \in State
    BY NextStateType
  <2>3. Recorded' = txn.adjusted /\ mem'.state.original = Recorded'
    BY <2>1, <2>2, SentinelAssumption DEF Recorded, Loaded, NextState
  <2>4. QED
    BY <2>1, <2>3 DEF RouteInv
<1>10. ~EnableFails /\ ~RestoreFails
  BY DEF EnableFails, RestoreFails, RecordKept
<1>11. QED
  BY <1>1, <1>2, <1>3, <1>4, <1>5, <1>6, <1>7, <1>8, <1>9, <1>10 DEF Commit

--------------------------------------------------------------------------
(* The other steps                                                          *)

LEMMA OtherRoute ==
    ASSUME TypeInv, RouteInv, RecordKept,
           Reload \/ RefreshCycle \/ Failure \/ Environment \/ UNCHANGED vars
    PROVE  RouteInv'
<1>1. CASE Start
  <2>1. /\ pc = "down" /\ pc' = "reload" /\ UNCHANGED <<sysctl, disk>>
        /\ mem' = [state |-> Loaded, active |-> Nothing] /\ txn' = Begin("startup", mem')
    BY <1>1 DEF Start, kernel
  <2>2. mem'.state.original = Recorded /\ txn'.prior = mem'
    BY <2>1 DEF Recorded, Begin, NoTxn
  <2>3. QED
    BY <2>1, <2>2, QuietRoute
<1>2. CASE ReceiveApply \/ Refresh
  <2>1. /\ pc = "idle" /\ pc' \in {"reload", "reread", "note"}
        /\ UNCHANGED <<sysctl, disk, mem>>
    BY <1>2 DEF ReceiveApply, Refresh, kernel
  <2>2. txn'.prior = mem
    <3>1. CASE ReceiveApply
      BY <3>1, BeginType DEF ReceiveApply, TypeInv, TypeOK, Kind
    <3>2. CASE Refresh
      <4>1. \E c : txn' = [Begin("refresh", mem) EXCEPT !.candidates = c]
        BY <3>2 DEF Refresh
      <4>2. Begin("refresh", mem) \in Transaction /\ Begin("refresh", mem).prior = mem
        BY BeginType DEF TypeInv, TypeOK, Kind
      <4>3. QED
        BY <4>1, <4>2 DEF Transaction
    <3>3. QED
      BY <1>2, <3>1, <3>2
  <2>3. QED
    BY <2>1, <2>2, QuietRoute DEF RouteInv
<1>3. CASE LoadConfig \/ Reread
  <2>1. pc \in {"reload", "reread"} /\ UNCHANGED kernel
    BY <1>3 DEF LoadConfig, Reread
  <2>2. CASE Abort
    BY <2>1, <2>2, AbortRoute
  <2>3. CASE ~Abort
    <3>1. /\ UNCHANGED <<disk, mem>> /\ pc' \in {"hooks", "idle"}
          /\ pc' = "hooks" =>
               \/ txn' = [txn EXCEPT !.allow = file.allowExternal]
               \/ \E c : txn' = [txn EXCEPT !.candidates = c,
                                            !.allow = file.allowExternal]
      BY <1>3, <2>3 DEF LoadConfig, Reread
    <3>2. pc' = "hooks" => txn'.prior = txn.prior
      BY <3>1 DEF TypeInv, TypeOK, Transaction
    <3>3. QED
      BY <2>1, <3>1, <3>2, QuietRoute DEF RouteInv, kernel
  <2>4. QED
    BY <2>2, <2>3
<1>4. CASE NoteStatuses \/ Degrade
  <2>1. /\ pc \in {"note", "degrade"} /\ pc' = "idle" /\ UNCHANGED sysctl
        /\ \E a \in Actives : SaveRefreshOnly(a)
    BY <1>4, DegradedType
       DEF NoteStatuses, Degrade, kernel, TypeInv, TypeOK, Transaction
  <2>2. PICK a \in Actives :
          /\ disk' = [txn.prior.state EXCEPT !.dns = Statuses(a)]
          /\ mem' = [state |-> disk', active |-> a]
    BY <2>1 DEF SaveRefreshOnly, RecordKept
  <2>3. disk' \in State
    BY <2>2, RefreshedStateType
  <2>4. disk'.original = Recorded
    BY <2>1, <2>2 DEF RouteInv, TypeInv, TypeOK, Transaction, Memory, State
  <2>5. Recorded' = Recorded /\ mem'.state.original = Recorded
    BY <2>2, <2>3, <2>4, SentinelAssumption DEF Recorded, Loaded
  <2>6. QED
    BY <2>1, <2>5 DEF RouteInv
<1>5. CASE Stop
  <2>1. pc = "idle" /\ pc' = "down" /\ UNCHANGED <<sysctl, disk>>
    BY <1>5 DEF Stop, RecordKept, kernel
  <2>2. QED
    BY <2>1, QuietRoute
<1>6. CASE Reboot
  <2>1. pc' = "down" /\ sysctl' = Operator /\ UNCHANGED disk
    BY <1>6 DEF Reboot
  <2>2. Recorded' = Recorded
    BY <2>1 DEF Recorded, Loaded
  <2>3. QED
    BY <2>1, <2>2 DEF RouteInv
<1>7. CASE FlushRuleset \/ Environment \/ UNCHANGED vars
  <2>1. UNCHANGED <<sysctl, disk, pc, txn, mem>>
    BY <1>7 DEF FlushRuleset, Environment, EditConfig, MoveAddresses, ForeignChains,
                ChangeZone, Tick, vars, kernel
  <2>2. Recorded' = Recorded
    BY <2>1 DEF Recorded, Loaded
  <2>3. QED
    BY <2>1, <2>2 DEF RouteInv
<1>8. ~LoseStateFile
  BY DEF LoseStateFile, RecordKept
<1>9. QED
  BY <1>1, <1>2, <1>3, <1>4, <1>5, <1>6, <1>7, <1>8 DEF Reload, RefreshCycle, Failure

\* Where sysctl and state writes succeed, no transaction is cut short by a crash
\* and state.json is kept, every interface the daemon has enabled and not put back
\* has the operator's own value on record, for every sequence of reloads, refreshes,
\* failing commands, moved addresses, flushed rulesets and reboots.
THEOREM OriginalsKept == ASSUME RecordKept PROVE Spec => []OriginalsRetained
<1>1. Init => RouteInv
  BY SentinelAssumption DEF Init, RouteInv, Recorded, Loaded, EmptyState, Nothing
<1>2. TypeInv /\ RouteInv /\ [Next]_vars => RouteInv'
  BY CommitRoute, OtherRoute DEF Next
<1>3. RouteInv => OriginalsRetained
  BY DEF RouteInv, OriginalsRetained, Recorded
<1>4. QED
  BY <1>1, <1>2, <1>3, TypeInvariant, PTL DEF Spec

--------------------------------------------------------------------------
(* 3. Rejected applies                                                       *)

Untraced == ~Fault("sysctl") /\ ~Fault("save") /\ ~Fault("flush")

\* Interfaces on record are on, so enabling one of them again changes nothing and
\* only fresh ones are rolled back.
RecordOn ==
    /\ pc \in {"idle", "down"} <=> txn.kind = "none"
    /\ txn.kind \in {"apply", "refresh"} =>
          txn.prior.state.original = mem.state.original
    /\ pc = "enable" => \A i \in DOMAIN txn.adjusted \ txn.todo : sysctl[i]
    /\ pc = "restore" => \A i \in DOMAIN txn.adjusted : sysctl[i]
    /\ (pc \notin {"down", "restore"} /\ txn.kind # "startup") =>
          \A i \in DOMAIN mem.state.original : sysctl[i]

\* How far the world may be from what an apply found, at each control point.
Footprint ==
    CASE pc = "enable" -> Fresh
      [] pc = "rollback" -> txn.todo
      [] OTHER -> {}

TraceInv ==
    txn.kind = "apply" =>
        /\ reply = "none" /\ mem = txn.prior /\ disk = txn.base.disk
        /\ pc # "restore" =>
              /\ nft = txn.base.nft
              /\ \A i \in Iface \ Footprint : sysctl[i] = txn.base.sysctl[i]
        /\ pc \in {"check", "enable", "rollback"} =>
              \A i \in Fresh : txn.adjusted[i] = txn.base.sysctl[i]

UntracedInv == RecordOn /\ TraceInv

\* An assignment to one local variable leaves the others.
LEMMA LocalStep ==
    ASSUME TypeInv,
           \/ UNCHANGED txn
           \/ txn' = [txn EXCEPT !.allow = file.allowExternal]
           \/ \E c : txn' = [txn EXCEPT !.candidates = c, !.allow = file.allowExternal]
           \/ txn' = [txn EXCEPT !.managed = (nft # NoTables)]
           \/ txn' = [txn EXCEPT !.adjusted = Adjusted, !.found = Found]
           \/ \E s : txn' = [txn EXCEPT !.todo = s]
    PROVE  txn'.kind = txn.kind /\ txn'.prior = txn.prior /\ txn'.base = txn.base
BY DEF TypeInv, TypeOK, Transaction

\* The steps before the interfaces are looked at.
LEMMA QuietUntraced ==
    ASSUME UntracedInv, UNCHANGED <<nft, sysctl, disk, mem, reply>>,
           txn'.kind = txn.kind, txn'.prior = txn.prior, txn'.base = txn.base,
           pc \notin {"idle", "down", "enable", "rollback", "restore"},
           pc' \notin {"idle", "down", "check", "enable", "rollback", "restore"}
    PROVE  UntracedInv'
<1>1. RecordOn'
  BY DEF UntracedInv, RecordOn
<1>2. Footprint = {} /\ Footprint' = {}
  BY DEF Footprint
<1>3. TraceInv'
  BY <1>2 DEF UntracedInv, TraceInv
<1>4. QED
  BY <1>1, <1>3 DEF UntracedInv

\* An error that is noticed when nothing is left to undo.
LEMMA AbortUntraced ==
    ASSUME TypeInv, UntracedInv, Abort, UNCHANGED kernel, Footprint = {},
           pc \notin {"idle", "down", "restore"}
    PROVE  UntracedInv'
<1>1. UNCHANGED <<nft, sysctl, disk>>
  BY DEF Abort, EndWithError, kernel
<1>2. CASE txn.kind = "startup"
  BY <1>2 DEF Abort, EndWithError, UntracedInv, RecordOn, TraceInv, NoTxn
<1>3. CASE txn.kind = "apply"
  BY <1>1, <1>3 DEF Abort, EndWithError, UntracedInv, RecordOn, TraceInv, NoTxn
<1>4. CASE txn.kind = "refresh"
  <2>1. pc' = "degrade" /\ mem' = mem /\ txn' = [txn EXCEPT !.todo = {}]
    BY <1>4 DEF Abort, EndWithError
  <2>2. txn'.kind = txn.kind /\ txn'.prior = txn.prior
    BY <2>1, LocalStep
  <2>3. QED
    BY <1>1, <1>4, <2>1, <2>2 DEF UntracedInv, RecordOn, TraceInv
<1>5. QED
  BY <1>2, <1>3, <1>4 DEF Abort, EndWithError

\* The steps of the commit up to the check of the batch.
LEMMA CheckUntraced ==
    ASSUME TypeInv, UntracedInv,
           CheckHooks \/ PrepareBatch \/ NetworkPreflight \/ NftCheck
    PROVE  UntracedInv'
<1>1. UNCHANGED kernel /\ pc \in {"hooks", "batch", "network", "check"}
  BY DEF CheckHooks, PrepareBatch, NetworkPreflight, NftCheck
<1>2. Footprint = {}
  BY <1>1 DEF Footprint
<1>3. CASE Abort
  BY <1>1, <1>2, <1>3, AbortUntraced
<1>4. CASE ~Abort /\ (CheckHooks \/ PrepareBatch)
  <2>1. /\ UNCHANGED <<disk, mem, reply>> /\ pc' \in {"batch", "network"}
        /\ UNCHANGED txn \/ txn' = [txn EXCEPT !.managed = (nft # NoTables)]
    BY <1>4 DEF CheckHooks, PrepareBatch
  <2>2. txn'.kind = txn.kind /\ txn'.prior = txn.prior /\ txn'.base = txn.base
    BY <2>1, LocalStep
  <2>3. QED
    BY <1>1, <2>1, <2>2, QuietUntraced DEF kernel
<1>5. CASE ~Abort /\ NetworkPreflight
  <2>1. /\ UNCHANGED <<nft, sysctl, disk, mem, reply>>
        /\ pc = "network" /\ pc' = "check" /\ txn' = [txn EXCEPT !.adjusted = Adjusted, !.found = Found]
    BY <1>1, <1>5 DEF NetworkPreflight, kernel
  <2>2. txn'.kind = txn.kind /\ txn'.prior = txn.prior /\ txn'.base = txn.base
    BY <2>1, LocalStep
  <2>3. txn'.adjusted = Adjusted
    BY <2>1 DEF TypeInv, TypeOK, Transaction
  <2>4. \A i \in Fresh' : i \in Iface /\ txn'.adjusted[i] = sysctl[i]
    BY <2>2, <2>3, LoopbackInterfacesType DEF Fresh, Adjusted
  <2>5. Footprint' = {}
    BY <2>1 DEF Footprint
  <2>6. RecordOn'
    BY <2>1, <2>2 DEF UntracedInv, RecordOn
  <2>7. TraceInv'
    BY <1>2, <2>1, <2>2, <2>4, <2>5 DEF UntracedInv, TraceInv
  <2>8. QED
    BY <2>6, <2>7 DEF UntracedInv
<1>6. CASE ~Abort /\ NftCheck
  <2>1. /\ UNCHANGED <<nft, sysctl, disk, mem, reply>>
        /\ pc = "check" /\ pc' = "enable"
        /\ txn' = [txn EXCEPT !.todo = DOMAIN txn.adjusted]
    BY <1>1, <1>6 DEF NftCheck, kernel
  <2>2. txn'.kind = txn.kind /\ txn'.prior = txn.prior /\ txn'.base = txn.base
    BY <2>1, LocalStep
  <2>3. txn'.adjusted = txn.adjusted /\ txn'.todo = DOMAIN txn.adjusted
    BY <2>1 DEF TypeInv, TypeOK, Transaction
  <2>4. Fresh' = Fresh
    BY <2>2, <2>3 DEF Fresh
  <2>5. RecordOn'
    BY <2>1, <2>2, <2>3 DEF UntracedInv, RecordOn
  <2>6. TraceInv'
    BY <1>2, <2>1, <2>2, <2>3, <2>4 DEF UntracedInv, TraceInv
  <2>7. QED
    BY <2>5, <2>6 DEF UntracedInv
<1>7. QED
  BY <1>3, <1>4, <1>5, <1>6

\* A setting that is enabled was on already, or is fresh.
LEMMA EnableUntraced == ASSUME TypeInv, UntracedInv, EnableOne PROVE UntracedInv'
<1>1. PICK k \in txn.todo : /\ sysctl' = [sysctl EXCEPT ![k] = TRUE]
                            /\ txn' = [txn EXCEPT !.todo = @ \ {k}]
  BY DEF EnableOne
<1>2. pc = "enable" /\ UNCHANGED <<nft, disk, pc, mem, reply>>
  BY DEF EnableOne
<1>3. k \in Iface /\ k \in DOMAIN txn.adjusted /\ sysctl \in [Iface -> BOOLEAN]
  BY <1>2 DEF TypeInv, TypeOK, Transaction, Shape
<1>4. txn'.kind = txn.kind /\ txn'.prior = txn.prior /\ txn'.base = txn.base
  BY <1>1, LocalStep
<1>5. txn'.adjusted = txn.adjusted /\ txn'.todo = txn.todo \ {k}
  BY <1>1 DEF TypeInv, TypeOK, Transaction
<1>6. sysctl'[k] /\ \A i \in Iface \ {k} : sysctl'[i] = sysctl[i]
  BY <1>1, <1>3
<1>7. DOMAIN txn.adjusted \subseteq Iface /\ DOMAIN mem.state.original \subseteq Iface
  BY PartialElim DEF TypeInv, TypeOK, Transaction, Memory, State
<1>8. Fresh' = Fresh /\ Footprint = Fresh /\ Footprint' = Fresh
  BY <1>2, <1>4, <1>5 DEF Fresh, Footprint
<1>9. RecordOn'
  <2>1. \A i \in DOMAIN txn'.adjusted \ txn'.todo : sysctl'[i]
    BY <1>2, <1>5, <1>6, <1>7 DEF UntracedInv, RecordOn
  <2>2. txn.kind # "startup" => \A i \in DOMAIN mem.state.original : sysctl'[i]
    BY <1>2, <1>6, <1>7 DEF UntracedInv, RecordOn
  <2>3. QED
    BY <1>2, <1>4, <2>1, <2>2 DEF UntracedInv, RecordOn
<1>10. TraceInv'
  <2>1. CASE k \in Fresh
    <3>1. \A i \in Iface \ Fresh : sysctl'[i] = sysctl[i]
      BY <1>6, <2>1
    <3>2. QED
      BY <1>2, <1>4, <1>5, <1>8, <3>1 DEF UntracedInv, TraceInv
  <2>2. CASE k \notin Fresh /\ txn.kind = "apply"
    <3>1. k \in DOMAIN mem.state.original
      BY <1>3, <2>2 DEF Fresh, UntracedInv, RecordOn
    <3>2. sysctl[k] = TRUE
      BY <1>2, <1>3, <2>2, <3>1 DEF UntracedInv, RecordOn
    <3>3. \A i \in Iface : sysctl'[i] = sysctl[i]
      BY <1>1, <1>3, <1>6, <3>2
    <3>4. QED
      BY <1>2, <1>4, <1>5, <1>8, <3>3 DEF UntracedInv, TraceInv
  <2>3. CASE txn.kind # "apply"
    BY <1>4, <2>3 DEF TraceInv
  <2>4. QED
    BY <2>1, <2>2, <2>3
<1>11. QED
  BY <1>9, <1>10 DEF UntracedInv

\* nft -f, or the beginning of the rollback.
LEMMA ApplyUntraced == ASSUME TypeInv, UntracedInv, Apply PROVE UntracedInv'
<1>1. /\ pc = "enable" /\ txn.todo = {} /\ UNCHANGED <<sysctl, disk, mem, reply>>
      /\ \/ pc' = "restore" /\ \E s : txn' = [txn EXCEPT !.todo = s]
         \/ pc' = "rollback" /\ UNCHANGED nft /\ txn' = [txn EXCEPT !.todo = Fresh]
  BY DEF Apply
<1>2. txn'.kind = txn.kind /\ txn'.prior = txn.prior /\ txn'.base = txn.base
  BY <1>1, LocalStep
<1>3. txn'.adjusted = txn.adjusted /\ (pc' = "rollback" => txn'.todo = Fresh)
  BY <1>1 DEF TypeInv, TypeOK, Transaction
<1>4. Fresh' = Fresh
  BY <1>2, <1>3 DEF Fresh
<1>5. RecordOn'
  BY <1>1, <1>2, <1>3 DEF UntracedInv, RecordOn
<1>6. CASE pc' = "restore"
  <2>1. TraceInv'
    BY <1>1, <1>2, <1>6 DEF UntracedInv, TraceInv
  <2>2. QED
    BY <1>5, <2>1 DEF UntracedInv
<1>7. CASE pc' = "rollback"
  <2>1. Footprint = Fresh /\ Footprint' = Fresh /\ UNCHANGED nft
    BY <1>1, <1>3, <1>7 DEF Footprint
  <2>2. TraceInv'
    BY <1>1, <1>2, <1>3, <1>4, <1>7, <2>1 DEF UntracedInv, TraceInv
  <2>3. QED
    BY <1>5, <2>2 DEF UntracedInv
<1>8. QED
  BY <1>1, <1>6, <1>7

\* Giving a setting back.
LEMMA GiveBackUntraced ==
    ASSUME TypeInv, UntracedInv, RollbackOne \/ RestoreOne
    PROVE  UntracedInv'
<1>1. UNCHANGED <<nft, disk, pc, mem, reply>> /\ pc \in {"rollback", "restore"}
  BY DEF RollbackOne, RestoreOne
<1>2. PICK k \in txn.todo :
        /\ txn' = [txn EXCEPT !.todo = @ \ {k}]
        /\ pc = "rollback" => sysctl' = [sysctl EXCEPT ![k] = txn.adjusted[k]]
        /\ \E v : sysctl' = [sysctl EXCEPT ![k] = v]
  BY <1>1 DEF RollbackOne, RestoreOne
<1>3. k \in Iface /\ sysctl \in [Iface -> BOOLEAN]
  BY DEF TypeInv, TypeOK, Transaction
<1>4. /\ pc = "rollback" => k \in Fresh /\ sysctl'[k] = txn.adjusted[k]
      /\ pc = "restore" => k \in Stale
      /\ \A i \in Iface \ {k} : sysctl'[i] = sysctl[i]
  BY <1>2, <1>3 DEF TypeInv, Shape
<1>5. txn'.kind = txn.kind /\ txn'.prior = txn.prior /\ txn'.base = txn.base
  BY <1>2, LocalStep
<1>6. txn'.adjusted = txn.adjusted /\ txn'.todo = txn.todo \ {k}
  BY <1>2 DEF TypeInv, TypeOK, Transaction
<1>7. DOMAIN txn.adjusted \subseteq Iface /\ DOMAIN mem.state.original \subseteq Iface
  BY PartialElim DEF TypeInv, TypeOK, Transaction, Memory, State
<1>8. Fresh' = Fresh
  BY <1>5, <1>6 DEF Fresh
<1>9. CASE pc = "restore"
  <2>1. \A i \in DOMAIN txn'.adjusted : sysctl'[i]
    BY <1>4, <1>6, <1>7, <1>9 DEF Stale, UntracedInv, RecordOn
  <2>2. RecordOn'
    BY <1>1, <1>5, <1>9, <2>1 DEF UntracedInv, RecordOn
  <2>3. TraceInv'
    BY <1>1, <1>5, <1>9 DEF UntracedInv, TraceInv
  <2>4. QED
    BY <2>2, <2>3 DEF UntracedInv
<1>10. CASE pc = "rollback"
  <2>1. txn.kind \in {"apply", "refresh"} => k \notin DOMAIN mem.state.original
    BY <1>4, <1>10 DEF Fresh, UntracedInv, RecordOn
  <2>2. txn.kind \in Kind /\ txn.kind # "none"
    BY <1>10 DEF TypeInv, TypeOK, Transaction, UntracedInv, RecordOn
  <2>3. txn.kind # "startup" => \A i \in DOMAIN mem.state.original : sysctl'[i]
    BY <1>4, <1>7, <1>10, <2>1, <2>2 DEF Kind, UntracedInv, RecordOn
  <2>4. RecordOn'
    BY <1>1, <1>5, <1>10, <2>3 DEF UntracedInv, RecordOn
  <2>5. Footprint = txn.todo /\ Footprint' = txn.todo \ {k}
    BY <1>1, <1>6, <1>10 DEF Footprint
  <2>6. TraceInv'
    BY <1>1, <1>4, <1>5, <1>6, <1>8, <1>10, <2>5 DEF UntracedInv, TraceInv
  <2>7. QED
    BY <2>4, <2>6 DEF UntracedInv
<1>11. QED
  BY <1>1, <1>9, <1>10

\* The other ways a transaction begins, goes on and ends, and what happens around it.
LEMMA OtherUntraced ==
    ASSUME TypeInv, UntracedInv, Untraced,
           \/ Reload \/ RollbackEnds \/ Save \/ RefreshCycle
           \/ Failure \/ Environment \/ UNCHANGED vars
    PROVE  UntracedInv'
<1>1. CASE Start
  <2>1. pc' = "reload" /\ txn' = Begin("startup", mem')
    BY <1>1 DEF Start
  <2>2. txn'.kind = "startup"
    BY <2>1 DEF Begin, NoTxn
  <2>3. QED
    BY <2>1, <2>2 DEF UntracedInv, RecordOn, TraceInv
<1>2. CASE ReceiveApply
  <2>1. /\ pc = "idle" /\ pc' = "reload" /\ txn' = Begin("apply", mem) /\ reply' = "none"
        /\ UNCHANGED <<nft, sysctl, disk, mem>>
    BY <1>2 DEF ReceiveApply, kernel
  <2>2. /\ txn'.kind = "apply" /\ txn'.prior = mem
        /\ txn'.base = [nft |-> nft, sysctl |-> sysctl, disk |-> disk]
    BY <2>1 DEF Begin, NoTxn
  <2>3. RecordOn'
    BY <2>1, <2>2 DEF UntracedInv, RecordOn
  <2>4. TraceInv'
    BY <2>1, <2>2 DEF TraceInv
  <2>5. QED
    BY <2>3, <2>4 DEF UntracedInv
<1>3. CASE LoadConfig
  <2>1. pc = "reload" /\ UNCHANGED kernel /\ Footprint = {}
    BY <1>3 DEF LoadConfig, Footprint
  <2>2. CASE Abort
    BY <2>1, <2>2, AbortUntraced
  <2>3. CASE ~Abort
    <3>1. /\ pc' = "hooks" /\ UNCHANGED <<disk, mem, reply>>
          /\ \E c : txn' = [txn EXCEPT !.candidates = c, !.allow = file.allowExternal]
      BY <1>3, <2>3 DEF LoadConfig
    <3>2. txn'.kind = txn.kind /\ txn'.prior = txn.prior /\ txn'.base = txn.base
      BY <3>1, LocalStep
    <3>3. QED
      BY <2>1, <3>1, <3>2, QuietUntraced DEF kernel
  <2>4. QED
    BY <2>2, <2>3
<1>4. CASE RollbackEnds
  <2>1. pc = "rollback" /\ txn.todo = {} /\ Abort /\ UNCHANGED kernel
    BY <1>4 DEF RollbackEnds, Untraced
  <2>2. Footprint = {}
    BY <2>1 DEF Footprint
  <2>3. QED
    BY <2>1, <2>2, AbortUntraced
<1>5. CASE Save
  <2>1. /\ pc = "restore" /\ pc' = "idle" /\ txn' = NoTxn /\ UNCHANGED sysctl
        /\ mem' = [state |-> NextState, active |-> txn.candidates]
    BY <1>5 DEF Save, Untraced, kernel
  <2>2. mem'.state.original = txn.adjusted /\ txn'.kind = "none"
    BY <2>1 DEF NextState, NoTxn
  <2>3. QED
    BY <2>1, <2>2 DEF UntracedInv, RecordOn, TraceInv
<1>6. CASE Refresh
  <2>1. /\ pc = "idle" /\ pc' \in {"reread", "note"} /\ UNCHANGED <<sysctl, mem>>
        /\ \E c : txn' = [Begin("refresh", mem) EXCEPT !.candidates = c]
    BY <1>6 DEF Refresh, kernel
  <2>2. txn'.kind = "refresh" /\ txn'.prior = mem
    <3>1. /\ Begin("refresh", mem) \in Transaction
          /\ Begin("refresh", mem).kind = "refresh" /\ Begin("refresh", mem).prior = mem
      BY BeginType DEF TypeInv, TypeOK, Kind
    <3>2. QED
      BY <2>1, <3>1 DEF Transaction
  <2>3. QED
    BY <2>1, <2>2 DEF UntracedInv, RecordOn, TraceInv
<1>7. CASE Reread
  <2>1. /\ pc = "reread" /\ UNCHANGED <<nft, sysctl, disk, mem, reply>>
        /\ \/ pc' = "hooks" /\ txn' = [txn EXCEPT !.allow = file.allowExternal]
           \/ pc' = "idle" /\ txn' = NoTxn
    BY <1>7 DEF Reread, kernel
  <2>2. CASE pc' = "hooks"
    <3>1. txn'.kind = txn.kind /\ txn'.prior = txn.prior /\ txn'.base = txn.base
      BY <2>1, <2>2, LocalStep
    <3>2. QED
      BY <2>1, <2>2, <3>1, QuietUntraced
  <2>3. CASE pc' = "idle"
    <3>1. txn.kind = "refresh" /\ txn'.kind = "none"
      BY <2>1, <2>3 DEF TypeInv, Shape, NoTxn
    <3>2. QED
      BY <2>1, <2>3, <3>1 DEF UntracedInv, RecordOn, TraceInv
  <2>4. QED
    BY <2>1, <2>2, <2>3
<1>8. CASE NoteStatuses \/ Degrade
  <2>1. /\ pc \in {"note", "degrade"} /\ pc' = "idle" /\ txn' = NoTxn /\ UNCHANGED sysctl
        /\ \E a : SaveRefreshOnly(a)
    BY <1>8 DEF NoteStatuses, Degrade, kernel
  <2>2. PICK a : mem' = [state |-> [txn.prior.state EXCEPT !.dns = Statuses(a)],
                         active |-> a]
    BY <2>1 DEF SaveRefreshOnly, Untraced
  <2>3. mem'.state.original = txn.prior.state.original
    BY <2>2 DEF TypeInv, TypeOK, Transaction, Memory, State
  <2>4. txn.kind = "refresh" /\ txn'.kind = "none"
    BY <2>1 DEF TypeInv, Shape, NoTxn
  <2>5. QED
    BY <2>1, <2>3, <2>4 DEF UntracedInv, RecordOn, TraceInv
<1>9. CASE Stop \/ Reboot
  <2>1. pc' = "down" /\ txn'.kind = "none" /\ mem' = NoMemory
    BY <1>9 DEF Stop, Reboot, NoTxn
  <2>2. QED
    BY <2>1 DEF UntracedInv, RecordOn, TraceInv
<1>10. CASE LoseStateFile \/ Environment \/ UNCHANGED vars
  <2>1. /\ UNCHANGED <<nft, sysctl, pc, txn, mem, reply>>
        /\ UNCHANGED disk \/ pc = "down"
    BY <1>10 DEF LoseStateFile, Environment, EditConfig, MoveAddresses, ForeignChains,
                 ChangeZone, Tick, vars, kernel
  <2>2. RecordOn'
    BY <2>1 DEF UntracedInv, RecordOn
  <2>3. Fresh' = Fresh /\ Footprint' = Footprint
    BY <2>1 DEF Fresh, Footprint
  <2>4. pc = "down" => txn.kind # "apply"
    BY DEF UntracedInv, RecordOn
  <2>5. TraceInv'
    BY <2>1, <2>3, <2>4 DEF UntracedInv, TraceInv
  <2>6. QED
    BY <2>2, <2>5 DEF UntracedInv
<1>11. ~FlushRuleset
  BY DEF FlushRuleset, Untraced
<1>12. QED
  BY <1>1, <1>2, <1>3, <1>4, <1>5, <1>6, <1>7, <1>8, <1>9, <1>10, <1>11
     DEF Reload, RefreshCycle, Failure

LEMMA StepUntraced ==
    ASSUME TypeInv, UntracedInv, Untraced, [Next]_vars
    PROVE  UntracedInv'
<1>1. ~EnableFails /\ ~RestoreFails
  BY DEF EnableFails, RestoreFails, Untraced
<1>2. QED
  BY <1>1, CheckUntraced, EnableUntraced, ApplyUntraced, GiveBackUntraced, OtherUntraced
     DEF Next, Commit

\* Only an error tells an apply that it is rejected, and by then nothing is left to
\* undo.
LEMMA RejectionTraceless ==
    ASSUME TypeInv, UntracedInv, Untraced, [Next]_vars,
           txn.kind = "apply", reply' = "rejected"
    PROVE  /\ nft' = txn.base.nft /\ sysctl' = txn.base.sysctl
           /\ disk' = txn.base.disk /\ mem' = txn.prior
<1>1. reply = "none" /\ mem = txn.prior /\ disk = txn.base.disk
  BY DEF UntracedInv, TraceInv
<1>2. /\ Abort /\ UNCHANGED kernel
      /\ \/ pc \in {"reload", "hooks", "batch", "network", "check"}
         \/ pc = "rollback" /\ txn.todo = {}
  BY <1>1 DEF Next, Reload, Start, ReceiveApply, LoadConfig, Commit, CheckHooks,
      PrepareBatch, NetworkPreflight, NftCheck, EnableOne, EnableFails, Apply,
      RollbackOne, RollbackEnds, RestoreOne, RestoreFails, Save, RefreshCycle, Refresh,
      Reread, NoteStatuses, Degrade, Failure, Stop, Reboot, FlushRuleset, LoseStateFile,
      Environment, EditConfig, MoveAddresses, ForeignChains, ChangeZone, Tick, vars,
      Untraced
<1>3. Footprint = {}
  BY <1>2 DEF Footprint
<1>4. UNCHANGED <<nft, sysctl, disk>> /\ mem' = mem
  BY <1>2 DEF Abort, EndWithError, kernel
<1>5. nft = txn.base.nft /\ \A i \in Iface : sysctl[i] = txn.base.sysctl[i]
  BY <1>2, <1>3 DEF UntracedInv, TraceInv
<1>6. sysctl \in [Iface -> BOOLEAN] /\ txn.base.sysctl \in [Iface -> BOOLEAN]
  BY DEF TypeInv, TypeOK, Transaction
<1>7. sysctl = txn.base.sysctl
  BY <1>5, <1>6
<1>8. QED
  BY <1>1, <1>4, <1>5, <1>7

THEOREM UntracedInvariant == ASSUME Untraced PROVE Spec => []UntracedInv
<1>1. Init => UntracedInv
  BY DEF Init, UntracedInv, RecordOn, TraceInv, NoTxn
<1>2. TypeInv /\ UntracedInv /\ [Next]_vars => UntracedInv'
  BY StepUntraced
<1>3. QED
  BY <1>1, <1>2, TypeInvariant, PTL DEF Spec

\* An apply that is answered "rejected; existing rules retained" has left rules,
\* sysctls, state.json and memory exactly as it found them, whatever is wrong with
\* the file, the hooks, the addresses, the targets or a command, at whichever step
\* it is noticed, and after any crashes, lost state files and reboots before it.
THEOREM RejectionLeavesNoTrace ==
    ASSUME Untraced PROVE Spec => RejectedReloadLeavesNoTrace
<1>1. TypeInv /\ UntracedInv /\ [Next]_vars =>
        [(txn.kind = "apply" /\ reply' = "rejected") =>
            /\ nft' = txn.base.nft /\ sysctl' = txn.base.sysctl
            /\ disk' = txn.base.disk /\ mem' = txn.prior]_vars
  BY RejectionTraceless
<1>2. QED
  BY <1>1, TypeInvariant, UntracedInvariant, PTL DEF Spec, RejectedReloadLeavesNoTrace
=============================================================================
