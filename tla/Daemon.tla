------------------------------ MODULE Daemon ------------------------------
(* port-forwardd (src/src/runtime.rs with the parts of nft.rs, state.rs and *)
(* dns.rs it drives): the full reload at start-up and on a CLI apply, the    *)
(* refresh of due DNS targets, and the commit both share, step by step       *)
(* against the kernel, the disk and an environment that does not stand still.*)
(*                                                                          *)
(* The daemon is one task: two transactions never overlap, so "pc" and "txn" *)
(* are the control point and the local variables of the one that runs.  Each *)
(* external command, sysctl write and file write is a step of its own, and    *)
(* the environment and a crash may come between any two of them.             *)
(*                                                                          *)
(* Simplifications                                                          *)
(*  - A profile is its target, listener and family; ports, protocols and      *)
(*    sources do not influence the transaction (ListenPorts has the ports).   *)
(*  - config_version and nft_rules_version always change together: "version". *)
(*  - state.json holds one status per profile; only its dns entry is ever     *)
(*    read back, so a persisted profile is its dns entry (profile_status).    *)
(*  - The two managed tables are created and deleted together in every batch, *)
(*    so they exist together.                                                *)
EXTENDS Dns, FiniteSets

CONSTANTS
    Name, Iface, Listen,
    Inet6,          \* the family whose destinations need a route
    Config,         \* contents the configuration file may have
    Unreadable,     \* a file Config::from_path rejects
    Placement,      \* where listen addresses may be: Listen -> SUBSET Iface
    Zone,           \* what the resolver may answer: Host -> SUBSET Address
    Ttl, Jitter,
    Operator,       \* route_localnet as the operator set it, per interface
    Faults,         \* the kinds of failure that may happen
    MaxVersion,     \* where version counters saturate
    MaxNow,         \* bound of the clock
    NoHost, NoTables, Absent, Corrupt

FaultKind == {"config", "hooks", "command", "sysctl", "save", "lookup", "crash", "state",
              "flush", "reboot"}

Profile == [kind : {"redirect", "loopback", "literal", "fqdn"}, listen : Listen,
            family : Family, host : Host \cup {NoHost},
            address : Address \cup {NoAddress}]

\* What profile validation guarantees: a literal target is permitted for its
\* family, and only the target's own field is set.
WellFormed(p) ==
    /\ p.kind = "fqdn" <=> p.host # NoHost
    /\ p.kind = "literal" <=> p.address # NoAddress
    /\ p.kind = "literal" => Permitted(p.family, p.address)

\* Functions from a subset of S.
PartialFunctions(S, T) == UNION {[D -> T] : D \in SUBSET S}

ASSUME ConfigAssumption ==
    /\ Unreadable \notin Config
    /\ \A c \in Config :
         /\ c \in [deployable : BOOLEAN, allowExternal : BOOLEAN,
                   profiles : PartialFunctions(Name, Profile)]
         /\ \A n \in DOMAIN c.profiles : WellFormed(c.profiles[n])
         /\ c.deployable => DOMAIN c.profiles # {}

ASSUME EnvironmentAssumption ==
    /\ Placement \subseteq [Listen -> SUBSET Iface]
    /\ Zone \subseteq [Host -> SUBSET Address]
    /\ Ttl \subseteq Nat /\ Jitter \subseteq Nat
    /\ Operator \in [Iface -> BOOLEAN]
    /\ Faults \subseteq FaultKind
    /\ MaxVersion \in Nat /\ MaxNow \in Nat
    /\ NoHost \notin Host
    /\ Inet6 \in Family

VARIABLES
    file,       \* /etc configuration file: a Config or Unreadable
    at,         \* interfaces holding each listen address
    foreign,    \* another tool's base chains use a managed hook
    zone,       \* addresses behind each host name
    now,        \* wall clock
    nft,        \* rules in the managed tables, or NoTables
    sysctl,     \* route_localnet per interface
    disk,       \* state.json
    pc, txn,    \* the running transaction
    mem,        \* DaemonData: state and active profiles
    reply,      \* what the last apply request was told
    found       \* history: where the preflight of the installed rules found the
                \* listen addresses of their loopback profiles

environment == <<file, at, foreign, zone, now>>
kernel == <<nft, sysctl, found>>
vars == <<environment, kernel, disk, pc, txn, mem, reply>>

--------------------------------------------------------------------------
(* Data                                                                     *)
Active == [profile : Profile, destination : Address \cup {NoAddress},
           dns : DnsStatus \cup {NoDns}]
Actives == PartialFunctions(Name, Active)
Nothing == [n \in {} |-> NoDns]

\* RuntimeState.
State == [version : 0..MaxVersion, original : PartialFunctions(Iface, BOOLEAN),
          dns : PartialFunctions(Name, DnsStatus \cup {NoDns})]
EmptyState == [version |-> 0, original |-> Nothing, dns |-> Nothing]
Memory == [state : State, active : Actives]
NoMemory == [state |-> EmptyState, active |-> Nothing]

\* load_optional as Daemon::new uses it: no file and an unusable file alike
\* leave an empty state.
Loaded == IF disk \in {Absent, Corrupt} THEN EmptyState ELSE disk

Kind == {"none", "startup", "apply", "refresh"}
\* base and found are history: what was in force when the transaction began, and
\* where its preflight found the loopback listeners.
NoTxn == [kind |-> "none", prior |-> NoMemory, candidates |-> Nothing,
          allow |-> FALSE, managed |-> FALSE, adjusted |-> Nothing, found |-> Nothing,
          todo |-> {}, base |-> [nft |-> NoTables, sysctl |-> Operator, disk |-> Absent]]
Begin(kind, memory) ==
    [NoTxn EXCEPT !.kind = kind, !.prior = memory,
                  !.base = [nft |-> nft, sysctl |-> sysctl, disk |-> disk]]

\* profile_status, kept to what is read back.
Statuses(active) == [n \in DOMAIN active |-> active[n].dns]

Ruleset == PartialFunctions(Name, [profile : Profile,
                                   destination : Address \cup {NoAddress}])

\* generate_batch: what a set of resolved profiles becomes in the kernel.
Rules(active) ==
    [n \in DOMAIN active |-> [profile     |-> active[n].profile,
                              destination |-> active[n].destination]]

ASSUME SentinelAssumption ==
    /\ NoTables \notin Ruleset /\ Absent \notin Ruleset
    /\ Absent \notin State /\ Corrupt \notin State
    /\ NoDns \notin DnsStatus

Fault(kind) == kind \in Faults

\* What the file may hold while people edit it.
Content == Config \cup (IF Fault("config") THEN {Unreadable} ELSE {})

\* Whether other tools may own base chains.
Chains == IF Fault("hooks") THEN BOOLEAN ELSE {FALSE}

--------------------------------------------------------------------------
(* Ends of a transaction                                                    *)

\* An error: start-up exits the process, an apply answers "full reload rejected;
\* existing rules retained", a refresh goes on to mark the targets it wanted to
\* switch.
EndWithError(memory) ==
    /\ \/ /\ txn.kind = "startup"
          /\ pc' = "down" /\ mem' = NoMemory /\ txn' = NoTxn
          /\ UNCHANGED reply
       \/ /\ txn.kind = "apply"
          /\ pc' = "idle" /\ mem' = memory /\ txn' = NoTxn
          /\ reply' = "rejected"
       \/ /\ txn.kind = "refresh"
          /\ pc' = "degrade" /\ mem' = memory /\ txn' = [txn EXCEPT !.todo = {}]
          /\ UNCHANGED reply
    /\ UNCHANGED disk

\* Mutant: memory follows the candidates before they are committed.
AbortPublishing == EndWithError([mem EXCEPT !.active = txn.candidates])

\* An error before the commit leaves memory alone.
Abort == EndWithError(mem)

--------------------------------------------------------------------------
(* Starting a reload                                                        *)

\* Daemon::new and the first reload of Daemon::run.
Start ==
    /\ pc = "down"
    /\ pc' = "reload"
    /\ mem' = [state |-> Loaded, active |-> Nothing]
    /\ txn' = Begin("startup", mem')
    /\ UNCHANGED <<environment, kernel, disk, reply>>

\* An apply request taken from the control socket by the event loop.
ReceiveApply ==
    /\ pc = "idle"
    /\ pc' = "reload"
    /\ txn' = Begin("apply", mem)
    /\ reply' = "none"
    /\ UNCHANGED <<environment, kernel, disk, mem>>

Lookups(host) == {Answer(zone[host], ttl) : ttl \in Ttl}
                 \cup (IF Fault("lookup") THEN {LookupFailed} ELSE {})

\* The persisted status of the profile of that name, whatever it then was.
Cached(n) == IF n \in DOMAIN txn.prior.state.dns THEN txn.prior.state.dns[n] ELSE NoDns

\* What one profile can become; a failed resolution adds nothing.
Resolutions(n, p) ==
    IF p.kind = "fqdn"
      THEN {[profile |-> p, destination |-> d.address, dns |-> d] : d \in
              UNION {ResolveInitial(p.host, p.family, Cached(n), answer, now, j) :
                       answer \in Lookups(p.host), j \in Jitter}}
      ELSE {[profile |-> p, destination |-> p.address, dns |-> NoDns]}

MayFailToResolve(n, p) ==
    /\ p.kind = "fqdn"
    /\ \E answer \in Lookups(p.host) :
         ResolveInitial(p.host, p.family, Cached(n), answer, now, 0) = {}

\* Config::from_path, validate_deployable and build_active_profiles: the file is
\* read once, the clock is read once, and one failing target fails them all.
LoadConfig ==
    /\ pc = "reload"
    /\ \/ /\ file # Unreadable /\ file.deployable
          /\ \E candidates \in [DOMAIN file.profiles ->
                                  UNION {Resolutions(n, file.profiles[n]) :
                                           n \in DOMAIN file.profiles}] :
               /\ \A n \in DOMAIN file.profiles :
                    candidates[n] \in Resolutions(n, file.profiles[n])
               /\ txn' = [txn EXCEPT !.candidates = candidates,
                                     !.allow = file.allowExternal]
          /\ pc' = "hooks"
          /\ UNCHANGED <<disk, mem, reply>>
       \/ /\ \/ file = Unreadable
             \/ file # Unreadable /\ ~file.deployable
             \/ /\ file # Unreadable
                /\ \E n \in DOMAIN file.profiles : MayFailToResolve(n, file.profiles[n])
          /\ Abort
    /\ UNCHANGED <<environment, kernel>>

--------------------------------------------------------------------------
(* commit_candidates                                                        *)

\* reject_external_hook_conflicts, skipped when the configuration allows it.
CheckHooks ==
    /\ pc = "hooks"
    /\ \/ /\ txn.allow \/ ~foreign
          /\ pc' = "batch"
          /\ UNCHANGED <<disk, mem, txn, reply>>
       \/ /\ ~txn.allow /\ (foreign \/ Fault("command"))
          /\ Abort
    /\ UNCHANGED <<environment, kernel>>

\* prepare_batch: the batch deletes the tables only if they exist now.
PrepareBatch ==
    /\ pc = "batch"
    /\ \/ /\ txn' = [txn EXCEPT !.managed = (nft # NoTables)]
          /\ pc' = "network"
          /\ UNCHANGED <<disk, mem, reply>>
       \/ /\ Fault("command")
          /\ Abort
    /\ UNCHANGED <<environment, kernel>>

Candidate == {txn.candidates[n] : n \in DOMAIN txn.candidates}

\* Every listener on exactly one interface, every IPv6 destination routable.
NetworkReady ==
    \A c \in Candidate :
        /\ Cardinality(at[c.profile.listen]) = 1
        /\ (c.profile.family = Inet6 /\ c.destination # NoAddress)
              => FamilyOf[c.destination] = Inet6

LoopbackListens ==
    {c.profile.listen : c \in {k \in Candidate : k.profile.kind = "loopback"}}

LoopbackInterfaces == UNION {at[l] : l \in LoopbackListens}
Found == [l \in LoopbackListens |-> at[l]]

\* Mutant: the value on record is not preferred.
AdjustedUnmerged == [i \in LoopbackInterfaces |-> sysctl[i]]

\* preflight reads route_localnet; merge_adjustments then prefers the value on
\* record to the one just read.
Adjusted ==
    [i \in LoopbackInterfaces |->
        IF i \in DOMAIN txn.prior.state.original THEN txn.prior.state.original[i]
        ELSE sysctl[i]]

NetworkPreflight ==
    /\ pc = "network"
    /\ \/ /\ NetworkReady
          /\ txn' = [txn EXCEPT !.adjusted = Adjusted, !.found = Found]
          /\ pc' = "check"
          /\ UNCHANGED <<disk, mem, reply>>
       \/ /\ ~NetworkReady \/ Fault("command")
          /\ Abort
    /\ UNCHANGED <<environment, kernel>>

\* Mutant: nft does not compare the destinations' family.
LoadableAnyFamily == txn.managed => nft # NoTables

\* nft accepts the batch if every destination has its table's family and the
\* tables it deletes are there.
Loadable ==
    /\ \A c \in Candidate :
         c.destination # NoAddress => FamilyOf[c.destination] = c.profile.family
    /\ txn.managed => nft # NoTables

\* nft -c.
NftCheck ==
    /\ pc = "check"
    /\ \/ /\ Loadable
          /\ pc' = "enable"
          /\ txn' = [txn EXCEPT !.todo = DOMAIN txn.adjusted]
          /\ UNCHANGED <<disk, mem, reply>>
       \/ /\ ~Loadable \/ Fault("command")
          /\ Abort
    /\ UNCHANGED <<environment, kernel>>

\* enable_route_localnet, one interface at a time; a failed write ends the
\* transaction and leaves the interfaces already written as they are.
EnableOne ==
    /\ pc = "enable"
    /\ \E i \in txn.todo :
         /\ sysctl' = [sysctl EXCEPT ![i] = TRUE]
         /\ txn' = [txn EXCEPT !.todo = @ \ {i}]
    /\ UNCHANGED <<environment, nft, found, disk, pc, mem, reply>>

EnableFails ==
    /\ pc = "enable" /\ txn.todo # {} /\ Fault("sysctl")
    /\ Abort
    /\ UNCHANGED <<environment, kernel>>

\* Mutants: nothing is rolled back; every recorded interface is restored.
NoneFresh == {}
AllStale == DOMAIN txn.prior.state.original

Fresh == DOMAIN txn.adjusted \ DOMAIN txn.prior.state.original
Stale == DOMAIN txn.prior.state.original \ DOMAIN txn.adjusted

\* nft -f: the commit point.
Apply ==
    /\ pc = "enable" /\ txn.todo = {}
    /\ \/ /\ Loadable
          /\ nft' = Rules(txn.candidates)
          /\ found' = txn.found
          /\ pc' = "restore"
          /\ txn' = [txn EXCEPT !.todo = Stale]
       \/ /\ ~Loadable \/ Fault("command")
          /\ pc' = "rollback"
          /\ txn' = [txn EXCEPT !.todo = Fresh]
          /\ UNCHANGED <<nft, found>>
    /\ UNCHANGED <<environment, sysctl, disk, mem, reply>>

\* restore_route_localnet of the interfaces this transaction enabled first.
RollbackOne ==
    /\ pc = "rollback"
    /\ \E i \in txn.todo :
         /\ sysctl' = [sysctl EXCEPT ![i] = txn.adjusted[i]]
         /\ txn' = [txn EXCEPT !.todo = @ \ {i}]
    /\ UNCHANGED <<environment, nft, found, disk, pc, mem, reply>>

\* All restored, or one write failed and the rest is skipped.
RollbackEnds ==
    /\ pc = "rollback"
    /\ txn.todo = {} \/ Fault("sysctl")
    /\ Abort
    /\ UNCHANGED <<environment, kernel>>

\* restore_route_localnet of the interfaces no longer needed.
RestoreOne ==
    /\ pc = "restore"
    /\ \E i \in txn.todo :
         /\ sysctl' = [sysctl EXCEPT ![i] = txn.prior.state.original[i]]
         /\ txn' = [txn EXCEPT !.todo = @ \ {i}]
    /\ UNCHANGED <<environment, nft, found, disk, pc, mem, reply>>

\* A failed write is logged; the interfaces after it keep their value.
RestoreFails ==
    /\ pc = "restore" /\ txn.todo # {} /\ Fault("sysctl")
    /\ txn' = [txn EXCEPT !.todo = {}]
    /\ UNCHANGED <<environment, kernel, disk, pc, mem, reply>>

\* Mutant: the counter does not saturate.
NextStateUnbounded ==
    [version  |-> txn.prior.state.version + 1,
     original |-> txn.adjusted,
     dns      |-> Statuses(txn.candidates)]

\* Mutant: the statuses of before are written once more.
NextStateOldStatuses ==
    [version  |-> Lesser(MaxVersion, txn.prior.state.version + 1),
     original |-> txn.adjusted,
     dns      |-> txn.prior.state.dns]

NextState ==
    [version  |-> Lesser(MaxVersion, txn.prior.state.version + 1),
     original |-> txn.adjusted,
     dns      |-> Statuses(txn.candidates)]

\* state::save and the new memory.  The memory changes even when the save fails,
\* and the failure is then the caller's error.
Save ==
    /\ pc = "restore" /\ txn.todo = {}
    /\ LET next == [state |-> NextState, active |-> txn.candidates] IN
       \/ /\ disk' = NextState
          /\ mem' = next
          /\ pc' = "idle"
          /\ txn' = NoTxn
          /\ reply' = IF txn.kind = "apply" THEN "applied" ELSE reply
       \/ /\ Fault("save")
          /\ EndWithError(next)
    /\ UNCHANGED <<environment, kernel>>

--------------------------------------------------------------------------
(* refresh_due_dns                                                          *)
Due == {n \in DOMAIN mem.active :
          mem.active[n].dns # NoDns /\ mem.active[n].dns.next <= now}

Refreshed(a, answer) ==
    LET d == RefreshStatus(a.dns, a.profile.family, answer, now)
    IN  [a EXCEPT !.destination = d.address, !.dns = d]

\* Targets whose destination differs between two sets of active profiles.
Switched(from, to) == {n \in DOMAIN from : from[n].destination # to[n].destination}

\* Every due target is looked up before anything else happens; no changed
\* destination means that only the statuses are saved.
Refresh ==
    /\ pc = "idle" /\ Due # {}
    /\ \E answer \in [Due -> UNION {Lookups(mem.active[n].dns.host) : n \in Due}] :
         LET candidates == [n \in DOMAIN mem.active |->
                              IF n \in Due THEN Refreshed(mem.active[n], answer[n])
                              ELSE mem.active[n]]
         IN  /\ \A n \in Due : answer[n] \in Lookups(mem.active[n].dns.host)
             /\ txn' = [Begin("refresh", mem) EXCEPT !.candidates = candidates]
             /\ pc' = IF Switched(mem.active, candidates) # {} THEN "reread" ELSE "note"
    /\ UNCHANGED <<environment, kernel, disk, mem, reply>>

\* The file is read again, for allow_external_chains alone; a file that cannot be
\* used ends the cycle here.
Reread ==
    /\ pc = "reread"
    /\ \/ /\ file # Unreadable
          /\ txn' = [txn EXCEPT !.allow = file.allowExternal]
          /\ pc' = "hooks"
       \/ /\ file = Unreadable
          /\ txn' = NoTxn
          /\ pc' = "idle"
    /\ UNCHANGED <<environment, kernel, disk, mem, reply>>

\* Mutants: the switch is claimed although it failed; the failure is not recorded.
DegradedClaimed == txn.candidates
DegradedSilently == txn.prior.active

\* The old targets, with a failure recorded for those that should have switched.
\* The clock was read when the refresh began.
Degraded ==
    LET before == txn.prior.active
    IN  [n \in DOMAIN before |->
           IF n \in Switched(before, txn.candidates)
             THEN [before[n] EXCEPT !.dns = RecordFailure(@, txn.candidates[n].dns.written)]
             ELSE before[n]]

\* save_refresh_only: the state of the transaction's beginning with new statuses.
\* Memory follows only if the save succeeds.
SaveRefreshOnly(active) ==
    LET next == [txn.prior.state EXCEPT !.dns = Statuses(active)]
    IN  \/ disk' = next /\ mem' = [state |-> next, active |-> active]
        \/ Fault("save") /\ UNCHANGED <<disk, mem>>

NoteStatuses ==
    /\ pc = "note"
    /\ SaveRefreshOnly(txn.candidates)
    /\ pc' = "idle" /\ txn' = NoTxn
    /\ UNCHANGED <<environment, kernel, reply>>

Degrade ==
    /\ pc = "degrade"
    /\ SaveRefreshOnly(Degraded)
    /\ pc' = "idle" /\ txn' = NoTxn
    /\ UNCHANGED <<environment, kernel, reply>>

--------------------------------------------------------------------------
(* The CLI's status when the daemon does not answer: state::load and          *)
(* mark_refresh_expired.  The code overwrites the health of the profile, which *)
(* profile_status derived from dns.status; here both are dns.status.           *)
MarkRefreshExpired(d) ==
    IF d # NoDns /\ d.next <= now THEN [d EXCEPT !.status = "degraded"] ELSE d

Shown == [n \in DOMAIN disk.dns |-> MarkRefreshExpired(disk.dns[n])]

--------------------------------------------------------------------------
(* What happens around the daemon                                           *)

\* A stop while idle, or a crash in the middle of a transaction.  SIGTERM and
\* SIGKILL leave rules, sysctls and state.json as they are.
Stop ==
    /\ pc # "down" /\ (pc = "idle" \/ Fault("crash"))
    /\ pc' = "down" /\ mem' = NoMemory /\ txn' = NoTxn
    /\ UNCHANGED <<environment, kernel, disk, reply>>

\* The kernel forgets the rules and the sysctls are the operator's again.
Reboot ==
    /\ Fault("reboot")
    /\ pc' = "down" /\ mem' = NoMemory /\ txn' = NoTxn
    /\ nft' = NoTables /\ sysctl' = Operator /\ found' = Nothing
    /\ UNCHANGED <<environment, disk, reply>>

\* "nft flush ruleset" by another tool takes every table, its own included.
FlushRuleset ==
    /\ Fault("flush")
    /\ nft' = NoTables /\ found' = Nothing /\ foreign' = FALSE
    /\ UNCHANGED <<file, at, zone, now, sysctl, disk, pc, txn, mem, reply>>

LoseStateFile ==
    /\ Fault("state") /\ pc = "down"
    /\ disk' \in {Absent, Corrupt}
    /\ UNCHANGED <<environment, kernel, pc, txn, mem, reply>>

EditConfig ==
    /\ file' \in Content
    /\ UNCHANGED <<at, foreign, zone, now, kernel, disk, pc, txn, mem, reply>>

MoveAddresses ==
    /\ at' \in Placement
    /\ UNCHANGED <<file, foreign, zone, now, kernel, disk, pc, txn, mem, reply>>

ForeignChains ==
    /\ foreign' \in Chains
    /\ UNCHANGED <<file, at, zone, now, kernel, disk, pc, txn, mem, reply>>

ChangeZone ==
    /\ zone' \in Zone
    /\ UNCHANGED <<file, at, foreign, now, kernel, disk, pc, txn, mem, reply>>

Tick ==
    /\ now < MaxNow
    /\ now' = now + 1
    /\ UNCHANGED <<file, at, foreign, zone, kernel, disk, pc, txn, mem, reply>>

--------------------------------------------------------------------------
Init ==
    /\ file \in Content /\ at \in Placement /\ foreign \in Chains
    /\ zone \in Zone /\ now = 0
    /\ nft = NoTables /\ sysctl = Operator /\ found = Nothing /\ disk = Absent
    /\ pc = "down" /\ txn = NoTxn /\ mem = NoMemory /\ reply = "none"

Reload == Start \/ ReceiveApply \/ LoadConfig
Commit == \/ CheckHooks \/ PrepareBatch \/ NetworkPreflight \/ NftCheck
          \/ EnableOne \/ EnableFails \/ Apply \/ RollbackOne \/ RollbackEnds
          \/ RestoreOne \/ RestoreFails \/ Save
RefreshCycle == Refresh \/ Reread \/ NoteStatuses \/ Degrade
Failure == Stop \/ Reboot \/ FlushRuleset \/ LoseStateFile
Environment == EditConfig \/ MoveAddresses \/ ForeignChains \/ ChangeZone \/ Tick

Next == Reload \/ Commit \/ RefreshCycle \/ Failure \/ Environment

Spec == Init /\ [][Next]_vars

--------------------------------------------------------------------------
(* Properties                                                               *)
Transaction == [kind : Kind, prior : Memory, candidates : Actives, allow : BOOLEAN,
                managed : BOOLEAN, adjusted : PartialFunctions(Iface, BOOLEAN),
                found : PartialFunctions(Listen, SUBSET Iface),
                todo : SUBSET Iface,
                base : [nft : Ruleset \cup {NoTables},
                        sysctl : [Iface -> BOOLEAN],
                        disk : State \cup {Absent, Corrupt}]]

\* Every variable keeps its type.
TypeOK ==
    /\ file \in Content /\ at \in Placement /\ foreign \in BOOLEAN
    /\ zone \in Zone /\ now \in 0..MaxNow
    /\ nft \in Ruleset \cup {NoTables}
    /\ sysctl \in [Iface -> BOOLEAN]
    /\ found \in PartialFunctions(Listen, SUBSET Iface)
    /\ disk \in State \cup {Absent, Corrupt}
    /\ pc \in {"down", "idle", "reload", "hooks", "batch", "network", "check", "enable",
               "rollback", "restore", "reread", "degrade", "note"}
    /\ txn \in Transaction /\ mem \in Memory
    /\ reply \in {"none", "applied", "rejected"}

\* Between transactions the profiles the daemon reports, and bases its next
\* refresh on, are the rules the kernel has (commit_candidates publishes what it
\* applied; a failed switch keeps the old target).
ReportedRulesInstalled == pc = "idle" => nft = Rules(mem.active)

\* Between transactions and while the daemon is stopped, the status made of
\* state.json, which is also what the next start-up falls back on, names the
\* profiles in the kernel with the addresses they are sent to, and calls no target
\* healthy that should have been looked up by now (commit_candidates,
\* save_refresh_only, mark_refresh_expired).
StatusTellsTheRules ==
    (pc \in {"idle", "down"} /\ disk \notin {Absent, Corrupt}) =>
        /\ nft # NoTables /\ DOMAIN Shown = DOMAIN nft
        /\ \A n \in DOMAIN Shown : Shown[n] # NoDns =>
              /\ Shown[n].address = nft[n].destination
              /\ Shown[n].status = "healthy" => now < Shown[n].next

\* Every target the daemon serves is due again within MaxRefresh, at any time and
\* whatever failed before, and one called healthy was not scheduled earlier than
\* MinRefresh after its answer (refresh_delay, record_failure, resolve_initial, and
\* the clock a refresh reads once).
LookupsInPace ==
    \A n \in DOMAIN mem.active : LET d == mem.active[n].dns IN
        d # NoDns =>
          /\ d.next <= now + MaxRefresh
          /\ d.status = "healthy" => d.written + MinRefresh <= d.next

\* Whenever no transaction runs, each interface whose route_localnet differs from
\* the operator's setting has that setting in state.json, so it can be put back.
OriginalsRetained ==
    pc \in {"idle", "down"} =>
        \A i \in Iface : sysctl[i] # Operator[i] =>
            i \in DOMAIN Loaded.original /\ Loaded.original[i] = Operator[i]

\* Rules that send packets to 127.0.0.1 are never in the kernel while an interface
\* drops such packets on which their listen address is now, and on which their
\* preflight found it: not in the middle of a commit or of a rollback, nor after a
\* crash.  Settings are enabled before the rules need them and restored only after
\* (commit_candidates).  An address that moves after the preflight, before nft -f
\* or later, is on an interface nobody has enabled until the next reload; that gap
\* the code leaves open.
NoLoopbackGap ==
    nft # NoTables =>
        \A n \in DOMAIN nft : nft[n].profile.kind = "loopback" =>
            LET l == nft[n].profile.listen
            IN  \A i \in at[l] \cap found[l] : sysctl[i]

\* Installed targets have their listener's family, are not a forbidden address and
\* were answered for that profile's own host name, although a restored cache entry
\* is checked against neither family nor the earlier profile's settings.
InstalledDestinationsMatch ==
    nft # NoTables =>
        \A n \in DOMAIN nft : LET p == nft[n].profile  d == nft[n].destination IN
            /\ p.kind \in {"literal", "fqdn"} => d # NoAddress /\ Permitted(p.family, d)
            /\ p.kind = "fqdn" => \E z \in Zone : d \in z[p.host]

\* An apply that is answered "rejected; existing rules retained" has left rules,
\* sysctls, state.json and memory exactly as they were when it arrived.
RejectedReloadLeavesNoTrace ==
    [][(txn.kind = "apply" /\ reply' = "rejected") =>
          /\ nft' = txn.base.nft /\ sysctl' = txn.base.sysctl
          /\ disk' = txn.base.disk /\ mem' = txn.prior]_vars

\* The part of it about the rules, which is what the reply says.
RejectedReloadRetainsRules ==
    [][(txn.kind = "apply" /\ reply' = "rejected") => nft' = txn.base.nft]_vars

\* Whenever targets are resolved, at start-up, on an apply or on a refresh, a
\* profile that keeps its host leaves its address only for one that is answered
\* now, and only when its own is not: an outage or a reordered answer moves nobody.
TargetMovesOnlyWhenGone ==
    [][(txn.candidates = Nothing /\ txn'.candidates # Nothing) =>
          \A n \in DOMAIN txn'.candidates \cap DOMAIN txn'.prior.state.dns :
              LET old == txn'.prior.state.dns[n]
                  new == txn'.candidates[n].dns
              IN  (/\ old # NoDns /\ new # NoDns /\ old.host = new.host
                   /\ new.address # old.address) =>
                      /\ new.address \in zone[new.host]
                      /\ ~ /\ old.address \in zone[new.host]
                           /\ Permitted(txn'.candidates[n].profile.family, old.address)]_vars

\* An address used without a fresh answer was confirmed earlier for the same host,
\* keeps the age it had, and a reload accepts it only up to MaxCacheAge: restarting
\* again and again during an outage does not prolong the life of a cached address.
OutageUsesConfirmedAddress ==
    [][(txn.candidates = Nothing /\ txn'.candidates # Nothing) =>
          \A n \in DOMAIN txn'.candidates :
              LET new == txn'.candidates[n].dns
                  old == IF n \in DOMAIN txn'.prior.state.dns
                           THEN txn'.prior.state.dns[n] ELSE NoDns
              IN  (new # NoDns /\ new.status # "healthy") =>
                      /\ old # NoDns /\ old.host = new.host
                      /\ old.address = new.address /\ old.written = new.written
                      /\ txn'.kind # "refresh" => now - old.written <= MaxCacheAge]_vars

\* A refresh that wanted to move a target ends with the target moved, or with the
\* old one reported degraded and not due again at once.
RefreshFailureIsReported ==
    [][(txn.kind = "refresh" /\ pc' = "idle") =>
          \A n \in Switched(txn.prior.active, txn.candidates) :
              \/ mem'.active[n].destination = txn.candidates[n].destination
              \/ /\ mem'.active[n].dns.status = "degraded"
                 /\ mem'.active[n].dns.next > txn.candidates[n].dns.written]_vars

--------------------------------------------------------------------------
(* A daemon that has not finished its start-up reload reports nothing yet.  *)
Reported == IF pc = "down" \/ txn.kind = "startup" THEN Absent ELSE Rules(mem.active)

Service == INSTANCE Forwarding WITH
    NoRules <- NoTables, Unknown <- Absent, rules <- nft, reported <- Reported

\* The step-by-step commit implements the atomic replacement: rules and reports
\* agree as Forwarding says, whatever fails before the commit.
ImplementsForwarding == Service!Spec
=============================================================================
