--------------------------- MODULE DaemonProofs ---------------------------
(* Theorems about Daemon for every configuration, network, resolver and kind  *)
(* of failure: types, and the order in which rules and route_localnet change. *)
EXTENDS Daemon, TLAPS

--------------------------------------------------------------------------
(* Partial functions                                                        *)

\* A function whose domain is part of S is a partial function on S.
LEMMA PartialIntro ==
    ASSUME NEW S, NEW T, NEW D \in SUBSET S, NEW f \in [D -> T]
    PROVE  f \in PartialFunctions(S, T)
BY DEF PartialFunctions

\* And conversely.
LEMMA PartialElim ==
    ASSUME NEW S, NEW T, NEW f \in PartialFunctions(S, T)
    PROVE  DOMAIN f \in SUBSET S /\ f \in [DOMAIN f -> T]
BY DEF PartialFunctions

\* The function without arguments belongs everywhere.
LEMMA NothingIsPartial ==
    ASSUME NEW S, NEW T
    PROVE  Nothing \in PartialFunctions(S, T)
<1>1. Nothing \in [{} -> T]
  BY DEF Nothing
<1>2. QED
  BY <1>1, PartialIntro

--------------------------------------------------------------------------
(* DNS statuses                                                             *)

\* The delay before the next lookup lies between the two limits, whatever the
\* lifetime and the jitter (refresh_delay).
THEOREM RefreshDelayBounds ==
    ASSUME NEW ttl \in Nat, NEW jitter \in Nat
    PROVE  /\ RefreshDelay(ttl, jitter) \in Nat
           /\ MinRefresh <= RefreshDelay(ttl, jitter)
           /\ RefreshDelay(ttl, jitter) <= MaxRefresh
BY TimingAssumption DEF RefreshDelay, Lesser, Greater

\* Accepting an answer keeps the status well formed and chooses a candidate.
LEMMA AcceptType ==
    ASSUME NEW d \in DnsStatus, NEW C \in SUBSET Address, C # {},
           NEW ttl \in Nat, NEW t \in Nat, NEW jitter \in Nat
    PROVE  /\ AcceptAnswer(d, C, ttl, t, jitter) \in DnsStatus
           /\ AcceptAnswer(d, C, ttl, t, jitter).address \in C
<1>1. First(C) \in C
  BY AddressAssumption DEF First
<1>2. RefreshDelay(ttl, jitter) \in Nat
  BY RefreshDelayBounds
<1> DEFINE chosen == IF d.address \in C THEN d.address ELSE First(C)
           next   == t + RefreshDelay(ttl, jitter)
<1>3. chosen \in C /\ chosen \in Address /\ next \in Nat
  BY <1>1, <1>2
<1>4. AcceptAnswer(d, C, ttl, t, jitter) =
        [d EXCEPT !.address = chosen, !.written = t, !.next = next, !.status = "healthy"]
  BY DEF AcceptAnswer
<1> HIDE DEF chosen, next
<1>5. QED
  BY <1>3, <1>4 DEF DnsStatus, Health

\* Recording a failure keeps the status well formed and the address.
LEMMA FailureType ==
    ASSUME NEW d \in DnsStatus, NEW t \in Nat
    PROVE  RecordFailure(d, t) \in DnsStatus /\ RecordFailure(d, t).address = d.address
<1> DEFINE status == IF d.address # NoAddress THEN "degraded" ELSE "failed"
           next   == t + MinRefresh
<1>1. status \in Health /\ next \in Nat
  BY TimingAssumption DEF Health
<1>2. RecordFailure(d, t) = [d EXCEPT !.status = status, !.next = next]
  BY DEF RecordFailure
<1> HIDE DEF status, next
<1>3. QED
  BY <1>1, <1>2 DEF DnsStatus

Lookup == [ok : BOOLEAN, addresses : SUBSET Address, ttl : Nat]

\* What resolve_initial returns is a status with an address.
LEMMA InitialType ==
    ASSUME NEW host \in Host, NEW family \in Family, NEW cached \in DnsStatus \cup {NoDns},
           NEW answer \in Lookup, NEW t \in Nat, NEW jitter \in Nat,
           NEW d \in ResolveInitial(host, family, cached, answer, t, jitter)
    PROVE  d \in DnsStatus /\ d.address \in Address
<1> DEFINE known == IF SameHost(cached, host) THEN cached ELSE NewStatus(host)
<1> DEFINE C == Candidates(family, answer.addresses)
<1>1. C \in SUBSET Address
  BY DEF Candidates, Lookup
<1>2. known \in DnsStatus
  BY DEF SameHost, NewStatus, DnsStatus, Health
<1>3. CASE answer.ok
  <2>1. C # {} /\ d = AcceptAnswer(known, C, answer.ttl, t, jitter)
    BY <1>3 DEF ResolveInitial
  <2>2. answer.ttl \in Nat
    BY DEF Lookup
  <2> HIDE DEF known, C
  <2>3. d \in DnsStatus /\ d.address \in C
    BY <2>1, <2>2, <1>1, <1>2, AcceptType
  <2>4. QED
    BY <2>3, <1>1
<1>4. CASE ~answer.ok
  <2>1. /\ SameHost(cached, host) /\ CanRestoreCache(cached, t)
        /\ d = [cached EXCEPT !.status = "degraded", !.next = t + MinRefresh]
    BY <1>4 DEF ResolveInitial
  <2>2. cached \in DnsStatus /\ cached.address # NoAddress
    BY <2>1 DEF SameHost, CanRestoreCache
  <2>3. t + MinRefresh \in Nat
    BY TimingAssumption
  <2>4. QED
    BY <2>1, <2>2, <2>3 DEF DnsStatus, Health
<1>5. QED
  BY <1>3, <1>4

\* A refreshed status is one, and its address changes only to an address.
LEMMA RefreshType ==
    ASSUME NEW d \in DnsStatus, NEW family \in Family, NEW answer \in Lookup, NEW t \in Nat
    PROVE  RefreshStatus(d, family, answer, t) \in DnsStatus
<1> DEFINE C == Candidates(family, answer.addresses)
<1>1. C \in SUBSET Address /\ answer.ttl \in Nat
  BY DEF Candidates, Lookup
<1>2. RefreshStatus(d, family, answer, t) =
        IF answer.ok /\ C # {} THEN AcceptAnswer(d, C, answer.ttl, t, 0)
        ELSE RecordFailure(d, t)
  BY DEF RefreshStatus
<1> HIDE DEF C
<1>3. QED
  BY <1>1, <1>2, AcceptType, FailureType

--------------------------------------------------------------------------
(* Types of what transactions are made of                                   *)

\* The initial contents of memory and of a transaction have their types.
LEMMA EmptyTypes == EmptyState \in State /\ NoMemory \in Memory /\ NoTxn \in Transaction
<1>1. EmptyState \in State
  BY NothingIsPartial, EnvironmentAssumption DEF EmptyState, State
<1>2. NoMemory \in Memory
  BY <1>1, NothingIsPartial DEF NoMemory, Memory, Actives
<1>3. NoTxn \in Transaction
  BY <1>2, NothingIsPartial, EnvironmentAssumption DEF NoTxn, Transaction, Kind, Actives
<1>4. QED
  BY <1>1, <1>2, <1>3

\* A transaction that begins has its type and no candidates yet.
LEMMA BeginType ==
    ASSUME TypeOK, NEW kind \in Kind, NEW m \in Memory
    PROVE  /\ Begin(kind, m) \in Transaction
           /\ Begin(kind, m).kind = kind
           /\ Begin(kind, m).prior = m
           /\ Begin(kind, m).candidates = Nothing
           /\ Begin(kind, m).todo = {}
<1> DEFINE now0 == [nft |-> nft, sysctl |-> sysctl, disk |-> disk]
<1>1. now0 \in [nft : Ruleset \cup {NoTables}, sysctl : [Iface -> BOOLEAN],
                disk : State \cup {Absent, Corrupt}]
  BY DEF TypeOK
<1>2. Begin(kind, m) = [NoTxn EXCEPT !.kind = kind, !.prior = m, !.base = now0]
  BY DEF Begin
<1> HIDE DEF now0
<1>3. Begin(kind, m) \in Transaction
  BY <1>1, <1>2, EmptyTypes DEF Transaction
<1>4. QED
  BY <1>2, <1>3 DEF NoTxn

\* What the kernel is given has the type of a ruleset.
LEMMA RulesType ==
    ASSUME NEW active \in Actives
    PROVE  Rules(active) \in Ruleset
<1>1. DOMAIN active \in SUBSET Name /\ active \in [DOMAIN active -> Active]
  BY PartialElim DEF Actives
<1>2. Rules(active) \in [DOMAIN active -> [profile : Profile,
                                          destination : Address \cup {NoAddress}]]
  BY <1>1 DEF Rules, Active
<1>3. QED
  BY <1>1, <1>2, PartialIntro DEF Ruleset

\* And the statuses that are saved that of persisted statuses.
LEMMA StatusesType ==
    ASSUME NEW active \in Actives
    PROVE  Statuses(active) \in PartialFunctions(Name, DnsStatus \cup {NoDns})
<1>1. DOMAIN active \in SUBSET Name /\ active \in [DOMAIN active -> Active]
  BY PartialElim DEF Actives
<1>2. Statuses(active) \in [DOMAIN active -> DnsStatus \cup {NoDns}]
  BY <1>1 DEF Statuses, Active
<1>3. QED
  BY <1>1, <1>2, PartialIntro

--------------------------------------------------------------------------
(* Type correctness.  TypeOK alone is not inductive: a restored value has its *)
(* type only because the interfaces still to do are recorded ones, and a      *)
(* failure can be recorded only because a switched target has a status.       *)

Refreshing ==
    /\ DOMAIN txn.candidates = DOMAIN txn.prior.active
    /\ \A n \in Switched(txn.prior.active, txn.candidates) :
          /\ txn.prior.active[n].dns \in DnsStatus
          /\ txn.candidates[n].dns \in DnsStatus

Shape ==
    /\ pc = "enable" => txn.todo \subseteq DOMAIN txn.adjusted
    /\ pc = "rollback" => txn.todo \subseteq Fresh
    /\ pc = "restore" => txn.todo \subseteq Stale
    /\ pc \in {"reread", "degrade", "note"} => txn.kind = "refresh"
    /\ txn.kind = "refresh" => Refreshing /\ pc # "reload"

TypeInv == TypeOK /\ Shape

LEMMA InitType == Init => TypeInv
<1> SUFFICES ASSUME Init PROVE TypeInv
  OBVIOUS
<1>1. TypeOK
  <2>1. foreign \in BOOLEAN
    BY Zenon DEF Init, Chains
  <2>2. now \in 0..MaxNow
    BY EnvironmentAssumption DEF Init
  <2>3. QED
    BY <2>1, <2>2, EmptyTypes, NothingIsPartial, EnvironmentAssumption DEF Init, TypeOK
<1>2. Shape
  BY DEF Init, Shape, NoTxn
<1>3. QED
  BY <1>1, <1>2 DEF TypeInv

\* However a transaction ends with an error, with a typed memory.
LEMMA ErrorType ==
    ASSUME TypeInv, NEW m \in Memory, EndWithError(m), UNCHANGED <<environment, kernel>>
    PROVE  TypeInv'
<1>1. txn' \in Transaction
  <2>1. [txn EXCEPT !.todo = {}] \in Transaction
    BY DEF TypeInv, TypeOK, Transaction
  <2>2. QED
    BY <2>1, EmptyTypes DEF EndWithError
<1>2. mem' \in Memory
  BY EmptyTypes DEF EndWithError
<1>3. TypeOK'
  BY <1>1, <1>2 DEF TypeInv, TypeOK, EndWithError, environment, kernel
<1>4. Shape'
  <2>1. CASE txn' = NoTxn /\ pc' \in {"down", "idle"}
    BY <2>1 DEF Shape, NoTxn
  <2>2. CASE txn.kind = "refresh" /\ pc' = "degrade" /\ txn' = [txn EXCEPT !.todo = {}]
    <3>1. Refreshing
      BY <2>2 DEF TypeInv, Shape
    <3>2. /\ txn'.kind = txn.kind /\ txn'.prior = txn.prior
          /\ txn'.candidates = txn.candidates
      BY <2>2 DEF TypeInv, TypeOK, Transaction
    <3>3. Refreshing'
      BY <3>1, <3>2 DEF Refreshing, Switched
    <3>4. QED
      BY <2>2, <3>2, <3>3 DEF Shape
  <2>3. QED
    BY <2>1, <2>2 DEF EndWithError
<1>5. QED
  BY <1>3, <1>4 DEF TypeInv

--------------------------------------------------------------------------
(* One lemma per step that changes more than the kernel or a counter        *)

LEMMA StartType == ASSUME TypeInv, Start PROVE TypeInv'
<1>1. Loaded \in State
  BY EmptyTypes DEF TypeInv, TypeOK, Loaded
<1>2. mem' \in Memory
  BY <1>1, NothingIsPartial DEF Start, Memory, Actives
<1>3. txn' \in Transaction /\ txn'.kind = "startup"
  BY <1>2, BeginType DEF Start, Kind, TypeInv
<1>4. TypeOK'
  BY <1>2, <1>3 DEF TypeInv, TypeOK, Start, environment, kernel
<1>5. Shape'
  BY <1>3 DEF Shape, Start
<1>6. QED
  BY <1>4, <1>5 DEF TypeInv

LEMMA ReceiveApplyType == ASSUME TypeInv, ReceiveApply PROVE TypeInv'
<1>1. mem \in Memory
  BY DEF TypeInv, TypeOK
<1>2. txn' \in Transaction /\ txn'.kind = "apply"
  BY <1>1, BeginType DEF ReceiveApply, Kind, TypeInv
<1>3. TypeOK'
  BY <1>1, <1>2 DEF TypeInv, TypeOK, ReceiveApply, environment, kernel
<1>4. Shape'
  BY <1>2 DEF Shape, ReceiveApply
<1>5. QED
  BY <1>3, <1>4 DEF TypeInv

LEMMA LookupsType ==
    ASSUME TypeOK, NEW host \in Host
    PROVE  Lookups(host) \subseteq Lookup
<1>1. zone[host] \in SUBSET Address
  BY EnvironmentAssumption DEF TypeOK
<1>2. \A ttl \in Ttl : Answer(zone[host], ttl) \in Lookup
  BY <1>1, EnvironmentAssumption DEF Lookup, Answer
<1>3. LookupFailed \in Lookup
  BY DEF Lookup, LookupFailed
<1>4. QED
  BY <1>2, <1>3, Zenon DEF Lookups

LEMMA ResolutionType ==
    ASSUME TypeInv, NEW n \in Name, NEW p \in Profile, WellFormed(p),
           NEW r \in Resolutions(n, p)
    PROVE  r \in Active
<1>1. CASE p.kind = "fqdn"
  <2>1. p.host \in Host /\ p.family \in Family
    BY <1>1 DEF WellFormed, Profile
  <2>2. Cached(n) \in DnsStatus \cup {NoDns}
    <3>1. txn.prior.state.dns \in PartialFunctions(Name, DnsStatus \cup {NoDns})
      BY DEF TypeInv, TypeOK, Transaction, Memory, State
    <3>2. QED
      BY <3>1, PartialElim DEF Cached
  <2>3. PICK answer \in Lookups(p.host), j \in Jitter :
          \E d \in ResolveInitial(p.host, p.family, Cached(n), answer, now, j) :
            r = [profile |-> p, destination |-> d.address, dns |-> d]
    BY <1>1 DEF Resolutions
  <2>4. answer \in Lookup /\ j \in Nat /\ now \in Nat
    BY <2>1, LookupsType, EnvironmentAssumption DEF TypeInv, TypeOK
  <2>5. PICK d \in ResolveInitial(p.host, p.family, Cached(n), answer, now, j) :
          r = [profile |-> p, destination |-> d.address, dns |-> d]
    BY <2>3
  <2>6. d \in DnsStatus /\ d.address \in Address
    BY <2>1, <2>2, <2>4, InitialType
  <2>7. QED
    BY <2>5, <2>6 DEF Active
<1>2. CASE p.kind # "fqdn"
  BY <1>2 DEF Resolutions, Active, Profile
<1>3. QED
  BY <1>1, <1>2

LEMMA LoadConfigType == ASSUME TypeInv, LoadConfig PROVE TypeInv'
<1>1. CASE Abort
  <2>1. mem \in Memory /\ UNCHANGED <<environment, kernel>>
    BY DEF TypeInv, TypeOK, LoadConfig
  <2>2. QED
    BY <1>1, <2>1, ErrorType DEF Abort
<1>2. CASE ~Abort
  <2>1. /\ pc = "reload" /\ file # Unreadable
        /\ pc' = "hooks" /\ UNCHANGED <<disk, mem, reply, environment, kernel>>
    BY <1>2 DEF LoadConfig
  <2>2. PICK candidates \in [DOMAIN file.profiles ->
                               UNION {Resolutions(n, file.profiles[n]) :
                                        n \in DOMAIN file.profiles}] :
          /\ \A n \in DOMAIN file.profiles :
               candidates[n] \in Resolutions(n, file.profiles[n])
          /\ txn' = [txn EXCEPT !.candidates = candidates,
                                !.allow = file.allowExternal]
    BY <1>2 DEF LoadConfig
  <2>3. file \in Config
    BY <2>1, Zenon DEF TypeInv, TypeOK, Content
  <2>4. /\ file.profiles \in PartialFunctions(Name, Profile)
        /\ file.allowExternal \in BOOLEAN
        /\ \A n \in DOMAIN file.profiles : WellFormed(file.profiles[n])
    BY <2>3, ConfigAssumption
  <2>5. DOMAIN file.profiles \in SUBSET Name
        /\ file.profiles \in [DOMAIN file.profiles -> Profile]
    BY <2>4, PartialElim
  <2>6. \A n \in DOMAIN file.profiles : candidates[n] \in Active
    BY <2>2, <2>4, <2>5, ResolutionType
  <2>7. candidates \in [DOMAIN file.profiles -> Active]
    BY <2>2, <2>6
  <2>8. candidates \in Actives
    BY <2>5, <2>7, PartialIntro DEF Actives
  <2>9. txn' \in Transaction /\ txn'.kind = txn.kind
    BY <2>2, <2>4, <2>8 DEF TypeInv, TypeOK, Transaction
  <2>10. TypeOK'
    BY <2>1, <2>9 DEF TypeInv, TypeOK, environment, kernel
  <2>11. Shape'
    BY <2>1, <2>9 DEF TypeInv, Shape
  <2>12. QED
    BY <2>10, <2>11 DEF TypeInv
<1>3. QED
  BY <1>1, <1>2

\* Loopback listeners are on interfaces, whatever the network looks like now.
LEMMA LoopbackInterfacesType ==
    ASSUME TypeInv
    PROVE  /\ LoopbackInterfaces \subseteq Iface
           /\ Found \in PartialFunctions(Listen, SUBSET Iface)
<1>1. txn.candidates \in Actives
  BY DEF TypeInv, TypeOK, Transaction
<1>2. Candidate \subseteq Active
  BY <1>1, PartialElim DEF Actives, Candidate
<1>3. LoopbackListens \subseteq Listen /\ at \in [Listen -> SUBSET Iface]
  BY <1>2, EnvironmentAssumption DEF LoopbackListens, Active, Profile, TypeInv, TypeOK
<1>4. Found \in [LoopbackListens -> SUBSET Iface]
  BY <1>3 DEF Found
<1>5. LoopbackInterfaces \subseteq Iface
  BY <1>3 DEF LoopbackInterfaces
<1>6. QED
  BY <1>3, <1>4, <1>5, PartialIntro

\* A step of the commit that only fails or moves on to the next check.
LEMMA CheckStepType ==
    ASSUME TypeInv,
           CheckHooks \/ PrepareBatch \/ NetworkPreflight \/ NftCheck
    PROVE  TypeInv'
<1>1. CASE Abort
  <2>1. mem \in Memory /\ UNCHANGED <<environment, kernel>>
    BY DEF TypeInv, TypeOK, CheckHooks, PrepareBatch, NetworkPreflight, NftCheck
  <2>2. QED
    BY <1>1, <2>1, ErrorType DEF Abort
<1>2. CASE ~Abort
  <2>1. UNCHANGED <<environment, kernel, disk, mem, reply>>
    BY <1>2 DEF CheckHooks, PrepareBatch, NetworkPreflight, NftCheck
  <2>2. Adjusted \in PartialFunctions(Iface, BOOLEAN)
    <3>1. LoopbackInterfaces \subseteq Iface
      BY LoopbackInterfacesType
    <3>2. /\ txn.prior.state.original \in PartialFunctions(Iface, BOOLEAN)
          /\ sysctl \in [Iface -> BOOLEAN]
      BY DEF TypeInv, TypeOK, Transaction, Memory, State
    <3>3. \A i \in DOMAIN txn.prior.state.original :
             txn.prior.state.original[i] \in BOOLEAN
      BY <3>2, PartialElim
    <3>4. Adjusted \in [LoopbackInterfaces -> BOOLEAN]
      BY <3>1, <3>2, <3>3, Zenon DEF Adjusted
    <3>5. QED
      BY <3>1, <3>4, PartialIntro
  <2>3. DOMAIN txn.adjusted \in SUBSET Iface
    BY PartialElim DEF TypeInv, TypeOK, Transaction
  <2>4. txn' \in Transaction /\ txn'.kind = txn.kind
        /\ txn'.prior = txn.prior /\ txn'.candidates = txn.candidates
    <3>1. CASE CheckHooks
      BY <1>2, <3>1 DEF CheckHooks, TypeInv, TypeOK
    <3>2. CASE PrepareBatch
      BY <1>2, <3>2 DEF PrepareBatch, TypeInv, TypeOK, Transaction
    <3>3. CASE NetworkPreflight
      BY <1>2, <2>2, <3>3, LoopbackInterfacesType
         DEF NetworkPreflight, TypeInv, TypeOK, Transaction
    <3>4. CASE NftCheck
      BY <1>2, <2>3, <3>4 DEF NftCheck, TypeInv, TypeOK, Transaction
    <3>5. QED
      BY <3>1, <3>2, <3>3, <3>4
  <2>5. /\ pc' \in {"batch", "network", "check", "enable"}
        /\ pc' = "enable" => txn'.todo = DOMAIN txn'.adjusted
    BY <1>2 DEF CheckHooks, PrepareBatch, NetworkPreflight, NftCheck,
                TypeInv, TypeOK, Transaction
  <2>6. TypeOK'
    BY <2>1, <2>4, <2>5 DEF TypeInv, TypeOK, environment, kernel
  <2>7. Shape'
    BY <2>4, <2>5 DEF TypeInv, Shape, Refreshing, Switched
  <2>8. QED
    BY <2>6, <2>7 DEF TypeInv
<1>3. QED
  BY <1>1, <1>2

\* The steps that write one interface's setting, and those that stop writing.
LEMMA SysctlStepType ==
    ASSUME TypeInv,
           EnableOne \/ RollbackOne \/ RestoreOne \/ RestoreFails
    PROVE  TypeInv'
<1>1. UNCHANGED <<environment, nft, found, disk, pc, mem, reply>>
  BY DEF EnableOne, RollbackOne, RestoreOne, RestoreFails, kernel
<1>2. /\ txn' = [txn EXCEPT !.todo = txn'.todo]
      /\ txn'.todo \subseteq txn.todo
  BY DEF EnableOne, RollbackOne, RestoreOne, RestoreFails, TypeInv, TypeOK, Transaction
<1>3. /\ txn' \in Transaction /\ txn'.kind = txn.kind
      /\ txn'.prior = txn.prior /\ txn'.candidates = txn.candidates
      /\ txn'.adjusted = txn.adjusted
  BY <1>2 DEF TypeInv, TypeOK, Transaction
<1>4. sysctl' \in [Iface -> BOOLEAN]
  <2>1. /\ txn.adjusted \in PartialFunctions(Iface, BOOLEAN)
        /\ txn.prior.state.original \in PartialFunctions(Iface, BOOLEAN)
        /\ sysctl \in [Iface -> BOOLEAN]
    BY DEF TypeInv, TypeOK, Transaction, Memory, State
  <2>2. /\ \A i \in DOMAIN txn.adjusted : txn.adjusted[i] \in BOOLEAN
        /\ \A i \in DOMAIN txn.prior.state.original :
             txn.prior.state.original[i] \in BOOLEAN
    BY <2>1, PartialElim
  <2>3. CASE EnableOne
    BY <2>1, <2>3 DEF EnableOne
  <2>4. CASE RollbackOne
    <3>1. txn.todo \subseteq DOMAIN txn.adjusted
      BY <2>4 DEF RollbackOne, TypeInv, Shape, Fresh
    <3>2. QED
      BY <2>1, <2>2, <2>4, <3>1 DEF RollbackOne
  <2>5. CASE RestoreOne
    <3>1. txn.todo \subseteq DOMAIN txn.prior.state.original
      BY <2>5 DEF RestoreOne, TypeInv, Shape, Stale
    <3>2. QED
      BY <2>1, <2>2, <2>5, <3>1 DEF RestoreOne
  <2>6. CASE RestoreFails
    BY <2>1, <2>6 DEF RestoreFails, kernel
  <2>7. QED
    BY <2>3, <2>4, <2>5, <2>6
<1>5. TypeOK'
  BY <1>1, <1>3, <1>4 DEF TypeInv, TypeOK, environment
<1>6. Shape'
  BY <1>1, <1>2, <1>3 DEF TypeInv, Shape, Fresh, Stale, Refreshing, Switched
<1>7. QED
  BY <1>5, <1>6 DEF TypeInv

\* The failures of the sysctl writes that end the transaction.
LEMMA SysctlErrorType ==
    ASSUME TypeInv, EnableFails \/ RollbackEnds
    PROVE  TypeInv'
<1>1. mem \in Memory /\ Abort /\ UNCHANGED <<environment, kernel>>
  BY DEF TypeInv, TypeOK, EnableFails, RollbackEnds
<1>2. QED
  BY <1>1, ErrorType DEF Abort

LEMMA ApplyType == ASSUME TypeInv, Apply PROVE TypeInv'
<1>1. UNCHANGED <<environment, sysctl, disk, mem, reply>>
  BY DEF Apply
<1>2. /\ txn.candidates \in Actives
      /\ txn.adjusted \in PartialFunctions(Iface, BOOLEAN)
      /\ txn.prior.state.original \in PartialFunctions(Iface, BOOLEAN)
  BY DEF TypeInv, TypeOK, Transaction, Memory, State
<1>3. DOMAIN txn.adjusted \in SUBSET Iface /\ DOMAIN txn.prior.state.original \in SUBSET Iface
  BY <1>2, PartialElim
<1>4. /\ nft' \in Ruleset \cup {NoTables}
      /\ found' \in PartialFunctions(Listen, SUBSET Iface)
  BY <1>2, <1>3, RulesType DEF Apply, TypeInv, TypeOK, Transaction
<1>5. /\ \/ pc' = "restore" /\ txn' = [txn EXCEPT !.todo = Stale]
         \/ pc' = "rollback" /\ txn' = [txn EXCEPT !.todo = Fresh]
      /\ Stale \subseteq Iface /\ Fresh \subseteq Iface
  BY <1>3 DEF Apply, Stale, Fresh
<1>6. /\ txn' \in Transaction /\ txn'.kind = txn.kind
      /\ txn'.prior = txn.prior /\ txn'.candidates = txn.candidates
      /\ txn'.adjusted = txn.adjusted
  BY <1>5 DEF TypeInv, TypeOK, Transaction
<1>7. pc' = "restore" => txn'.todo = Stale
  BY <1>5 DEF TypeInv, TypeOK, Transaction
<1>8. pc' = "rollback" => txn'.todo = Fresh
  BY <1>5 DEF TypeInv, TypeOK, Transaction
<1>9. TypeOK'
  BY <1>1, <1>4, <1>5, <1>6 DEF TypeInv, TypeOK, environment
<1>10. Shape'
  BY <1>5, <1>6, <1>7, <1>8 DEF TypeInv, Shape, Fresh, Stale, Refreshing, Switched
<1>11. QED
  BY <1>9, <1>10 DEF TypeInv

\* The state a commit saves has the type of a state.
LEMMA NextStateType == ASSUME TypeInv PROVE NextState \in State
<1>1. /\ txn.candidates \in Actives
      /\ txn.adjusted \in PartialFunctions(Iface, BOOLEAN)
      /\ txn.prior.state.version \in 0..MaxVersion
  BY DEF TypeInv, TypeOK, Transaction, Memory, State
<1>2. Lesser(MaxVersion, txn.prior.state.version + 1) \in 0..MaxVersion
  BY <1>1, EnvironmentAssumption DEF Lesser
<1>3. QED
  BY <1>1, <1>2, StatusesType DEF NextState, State

LEMMA SaveType == ASSUME TypeInv, Save PROVE TypeInv'
<1> DEFINE next == [state |-> NextState, active |-> txn.candidates]
<1>1. NextState \in State
  BY NextStateType
<1>2. next \in Memory
  BY <1>1 DEF TypeInv, TypeOK, Transaction, Memory
<1>3. UNCHANGED <<environment, kernel>>
  BY DEF Save
<1>4. CASE EndWithError(next)
  BY <1>2, <1>3, <1>4, ErrorType
<1>5. CASE ~EndWithError(next)
  <2>1. /\ disk' = NextState /\ mem' = next /\ pc' = "idle" /\ txn' = NoTxn
        /\ reply' \in {reply, "applied"}
    BY <1>5 DEF Save
  <2>2. TypeOK'
    BY <1>1, <1>2, <1>3, <2>1, EmptyTypes DEF TypeInv, TypeOK, environment, kernel
  <2>3. Shape'
    BY <2>1 DEF Shape, NoTxn
  <2>4. QED
    BY <2>2, <2>3 DEF TypeInv
<1>6. QED
  BY <1>4, <1>5

\* A refresh works on the active profiles; only looked-up targets can switch.
LEMMA RefreshStepType == ASSUME TypeInv, Refresh PROVE TypeInv'
<1>1. UNCHANGED <<environment, kernel, disk, mem, reply>>
  BY DEF Refresh
<1>2. /\ mem \in Memory /\ mem.active \in Actives /\ now \in Nat
      /\ DOMAIN mem.active \in SUBSET Name
      /\ mem.active \in [DOMAIN mem.active -> Active]
  BY PartialElim, EnvironmentAssumption DEF TypeInv, TypeOK, Memory, Actives
<1>3. \A n \in Due : mem.active[n].dns \in DnsStatus
  BY <1>2 DEF Due, Active
<1>4. PICK answer \in [Due -> UNION {Lookups(mem.active[n].dns.host) : n \in Due}] :
        LET candidates == [n \in DOMAIN mem.active |->
                             IF n \in Due THEN Refreshed(mem.active[n], answer[n])
                             ELSE mem.active[n]]
        IN  /\ \A n \in Due : answer[n] \in Lookups(mem.active[n].dns.host)
            /\ txn' = [Begin("refresh", mem) EXCEPT !.candidates = candidates]
            /\ pc' = IF Switched(mem.active, candidates) # {} THEN "reread" ELSE "note"
  BY DEF Refresh
<1> DEFINE candidates == [n \in DOMAIN mem.active |->
                            IF n \in Due THEN Refreshed(mem.active[n], answer[n])
                            ELSE mem.active[n]]
<1>5. \A n \in Due : answer[n] \in Lookup
  <2>1. \A n \in Due : mem.active[n].dns.host \in Host
    BY <1>3 DEF DnsStatus
  <2>2. QED
    BY <1>4, <2>1, LookupsType DEF TypeInv
<1>6. \A n \in Due : /\ Refreshed(mem.active[n], answer[n]) \in Active
                     /\ Refreshed(mem.active[n], answer[n]).dns \in DnsStatus
  <2>1. TAKE n \in Due
  <2> DEFINE d == RefreshStatus(mem.active[n].dns, mem.active[n].profile.family,
                                answer[n], now)
  <2>2. n \in DOMAIN mem.active /\ mem.active[n] \in Active
    BY <1>2 DEF Due
  <2>3. mem.active[n].profile.family \in Family
    BY <2>2 DEF Active, Profile
  <2>4. d \in DnsStatus
    BY <1>2, <1>3, <1>5, <2>3, RefreshType
  <2>5. d.address \in Address \cup {NoAddress}
    BY <2>4 DEF DnsStatus
  <2>6. Refreshed(mem.active[n], answer[n]) =
          [mem.active[n] EXCEPT !.destination = d.address, !.dns = d]
    BY DEF Refreshed
  <2> HIDE DEF d
  <2>7. QED
    BY <2>2, <2>4, <2>5, <2>6 DEF Active
<1>7. candidates \in [DOMAIN mem.active -> Active]
  BY <1>2, <1>6
<1>8. candidates \in Actives
  BY <1>2, <1>7, PartialIntro DEF Actives
<1>9. \A n \in Switched(mem.active, candidates) :
         mem.active[n].dns \in DnsStatus /\ candidates[n].dns \in DnsStatus
  BY <1>3, <1>6 DEF Switched
<1>10. /\ txn' = [Begin("refresh", mem) EXCEPT !.candidates = candidates]
       /\ pc' \in {"reread", "note"}
  BY <1>4
<1> HIDE DEF candidates
<1>11. /\ txn' \in Transaction /\ txn'.kind = "refresh"
       /\ txn'.prior = mem /\ txn'.candidates = candidates
  <2>1. Begin("refresh", mem) \in Transaction
        /\ Begin("refresh", mem).kind = "refresh" /\ Begin("refresh", mem).prior = mem
    BY <1>2, BeginType DEF TypeInv, Kind
  <2>2. QED
    BY <1>8, <1>10, <2>1 DEF Transaction
<1>12. TypeOK'
  BY <1>1, <1>10, <1>11 DEF TypeInv, TypeOK, environment, kernel
<1>13. Shape'
  <2>1. DOMAIN candidates = DOMAIN mem.active
    BY <1>7
  <2>2. Refreshing'
    BY <1>9, <1>11, <2>1 DEF Refreshing
  <2>3. QED
    BY <1>10, <1>11, <2>2 DEF Shape
<1>14. QED
  BY <1>12, <1>13 DEF TypeInv

LEMMA RereadType == ASSUME TypeInv, Reread PROVE TypeInv'
<1>1. UNCHANGED <<environment, kernel, disk, mem, reply>>
  BY DEF Reread
<1>2. CASE file = Unreadable
  <2>1. txn' = NoTxn /\ pc' = "idle"
    BY <1>2 DEF Reread
  <2>2. QED
    BY <1>1, <2>1, EmptyTypes
       DEF TypeInv, TypeOK, Shape, NoTxn, environment, kernel
<1>3. CASE file # Unreadable
  <2>1. file.allowExternal \in BOOLEAN
    <3>1. file \in Config
      BY <1>3, Zenon DEF TypeInv, TypeOK, Content
    <3>2. QED
      BY <3>1, ConfigAssumption
  <2>2. txn' = [txn EXCEPT !.allow = file.allowExternal] /\ pc' = "hooks"
    BY <1>3 DEF Reread
  <2>3. /\ txn' \in Transaction /\ txn'.kind = txn.kind
        /\ txn'.prior = txn.prior /\ txn'.candidates = txn.candidates
    BY <2>1, <2>2 DEF TypeInv, TypeOK, Transaction
  <2>4. TypeOK'
    BY <1>1, <2>2, <2>3 DEF TypeInv, TypeOK, environment, kernel
  <2>5. Shape'
    BY <2>2, <2>3 DEF TypeInv, Shape, Refreshing, Switched
  <2>6. QED
    BY <2>4, <2>5 DEF TypeInv
<1>4. QED
  BY <1>2, <1>3

\* The old targets of a refresh keep their type with failures recorded.
LEMMA DegradedType == ASSUME TypeInv, Degrade PROVE Degraded \in Actives
<1>1. Refreshing /\ txn.prior.active \in Actives
  BY DEF Degrade, TypeInv, TypeOK, Shape, Transaction, Memory
<1>2. /\ DOMAIN txn.prior.active \in SUBSET Name
      /\ txn.prior.active \in [DOMAIN txn.prior.active -> Active]
  BY <1>1, PartialElim DEF Actives
<1>3. \A n \in Switched(txn.prior.active, txn.candidates) :
         RecordFailure(txn.prior.active[n].dns, txn.candidates[n].dns.written)
           \in DnsStatus
  <2>1. TAKE n \in Switched(txn.prior.active, txn.candidates)
  <2>2. txn.prior.active[n].dns \in DnsStatus /\ txn.candidates[n].dns.written \in Nat
    BY <1>1 DEF Refreshing, DnsStatus
  <2>3. QED
    BY <2>2, FailureType
<1>4. \A n \in DOMAIN txn.prior.active : Degraded[n] \in Active
  BY <1>2, <1>3 DEF Degraded, Active
<1>5. Degraded \in [DOMAIN txn.prior.active -> Active]
  BY <1>4 DEF Degraded
<1>6. QED
  BY <1>2, <1>5, PartialIntro DEF Actives

\* What save_refresh_only writes has the type of a state.
LEMMA RefreshedStateType ==
    ASSUME TypeInv, NEW active \in Actives
    PROVE  [txn.prior.state EXCEPT !.dns = Statuses(active)] \in State
<1>1. txn.prior.state \in State
  BY DEF TypeInv, TypeOK, Transaction, Memory
<1>2. QED
  BY <1>1, StatusesType DEF State

\* save_refresh_only, with the refreshed statuses or with the degraded ones.
LEMMA SaveRefreshType ==
    ASSUME TypeInv, NoteStatuses \/ Degrade
    PROVE  TypeInv'
<1>1. txn.candidates \in Actives
  BY DEF TypeInv, TypeOK, Transaction
<1>2. Degrade => Degraded \in Actives
  BY DegradedType
<1>3. PICK active \in Actives : SaveRefreshOnly(active)
  BY <1>1, <1>2 DEF NoteStatuses, Degrade
<1> DEFINE next == [txn.prior.state EXCEPT !.dns = Statuses(active)]
<1>4. next \in State
  BY RefreshedStateType
<1>5. [state |-> next, active |-> active] \in Memory
  BY <1>4 DEF Memory
<1>6. \/ disk' = next /\ mem' = [state |-> next, active |-> active]
      \/ UNCHANGED <<disk, mem>>
  BY <1>3 DEF SaveRefreshOnly
<1> HIDE DEF next
<1>7. pc' = "idle" /\ txn' = NoTxn /\ UNCHANGED <<environment, kernel, reply>>
  BY DEF NoteStatuses, Degrade
<1>8. TypeOK'
  BY <1>4, <1>5, <1>6, <1>7, EmptyTypes DEF TypeInv, TypeOK, environment, kernel
<1>9. Shape'
  BY <1>7 DEF Shape, NoTxn
<1>10. QED
  BY <1>8, <1>9 DEF TypeInv

LEMMA FailureStepType == ASSUME TypeInv, Failure PROVE TypeInv'
<1>1. CASE Stop \/ Reboot
  <2>1. /\ UNCHANGED <<environment, disk, reply>>
        /\ pc' = "down" /\ mem' = NoMemory /\ txn' = NoTxn
    BY <1>1 DEF Stop, Reboot
  <2>2. nft' \in Ruleset \cup {NoTables} /\ sysctl' \in [Iface -> BOOLEAN]
        /\ found' \in PartialFunctions(Listen, SUBSET Iface)
    BY <1>1, NothingIsPartial, EnvironmentAssumption DEF Stop, Reboot, TypeInv, TypeOK, kernel
  <2>3. QED
    BY <2>1, <2>2, EmptyTypes DEF TypeInv, TypeOK, Shape, NoTxn, environment
<1>2. CASE FlushRuleset
  BY <1>2, NothingIsPartial DEF FlushRuleset, TypeInv, TypeOK, Shape, Fresh, Stale, Refreshing, Switched
<1>3. CASE LoseStateFile
  BY <1>3 DEF LoseStateFile, TypeInv, TypeOK, Shape, Fresh, Stale, Refreshing,
              Switched, environment, kernel
<1>4. QED
  BY <1>1, <1>2, <1>3 DEF Failure

LEMMA EnvironmentStepType == ASSUME TypeInv, Environment PROVE TypeInv'
<1>1. UNCHANGED <<kernel, disk, pc, txn, mem, reply>>
  BY DEF Environment, EditConfig, MoveAddresses, ForeignChains, ChangeZone, Tick
<1>2. foreign' \in BOOLEAN
  <2>1. Chains \subseteq BOOLEAN
    BY Zenon DEF Chains
  <2>2. foreign' \in Chains \/ foreign' = foreign
    BY DEF Environment, EditConfig, MoveAddresses, ForeignChains, ChangeZone, Tick
  <2>3. foreign \in BOOLEAN
    BY DEF TypeInv, TypeOK
  <2>4. QED
    BY <2>1, <2>2, <2>3, Zenon
<1>3. /\ file' \in Content /\ at' \in Placement /\ zone' \in Zone /\ now' \in 0..MaxNow
  BY EnvironmentAssumption
     DEF Environment, EditConfig, MoveAddresses, ForeignChains, ChangeZone, Tick,
         TypeInv, TypeOK, Content, Fault
<1>4. TypeOK'
  BY <1>1, <1>2, <1>3 DEF TypeInv, TypeOK, kernel
<1>5. Shape'
  BY <1>1 DEF TypeInv, Shape, Fresh, Stale, Refreshing, Switched
<1>6. QED
  BY <1>4, <1>5 DEF TypeInv

\* Every step preserves the type invariant.
LEMMA StepType == ASSUME TypeInv, [Next]_vars PROVE TypeInv'
<1>1. CASE Reload
  BY <1>1, StartType, ReceiveApplyType, LoadConfigType DEF Reload
<1>2. CASE Commit
  BY <1>2, CheckStepType, SysctlStepType, SysctlErrorType, ApplyType, SaveType DEF Commit
<1>3. CASE RefreshCycle
  BY <1>3, RefreshStepType, RereadType, SaveRefreshType DEF RefreshCycle
<1>4. CASE Failure
  BY <1>4, FailureStepType
<1>5. CASE Environment
  BY <1>5, EnvironmentStepType
<1>6. CASE UNCHANGED vars
  BY <1>6 DEF vars, environment, kernel, TypeInv, TypeOK, Shape, Fresh, Stale,
              Refreshing, Switched
<1>7. QED
  BY <1>1, <1>2, <1>3, <1>4, <1>5, <1>6 DEF Next

\* Type correctness, and the shape of a transaction it needs, for every instance.
THEOREM TypeInvariant == Spec => []TypeInv
<1>1. Init => TypeInv
  BY InitType
<1>2. TypeInv /\ [Next]_vars => TypeInv'
  BY StepType
<1>3. QED
  BY <1>1, <1>2, PTL DEF Spec

\* Every variable of the daemon, the kernel and the disk keeps its type.
THEOREM TypeCorrect == Spec => []TypeOK
<1>1. TypeInv => TypeOK
  BY DEF TypeInv
<1>2. QED
  BY <1>1, TypeInvariant, PTL

--------------------------------------------------------------------------
(* Loopback rules and route_localnet.  The interfaces where the preflight of   *)
(* the installed rules found their listeners are all on, wherever the addresses *)
(* have moved since.  That is strengthened by what the local variables of the   *)
(* transaction know about the interfaces:                                     *)
(*  - where the preflight found a loopback listener, it read the setting;      *)
(*  - those already enabled are on when the rules are replaced;               *)
(*  - one that was read as off serves no installed rule, so that a rollback   *)
(*    may turn it off again, even where its record had been lost;             *)
(*  - one restored after the commit serves no new rule.                       *)

Served == UNION {found[l] : l \in DOMAIN found}
ServedOn == \A i \in Served : sysctl[i]

\* Every installed loopback rule had its listener found.
Traced ==
    nft # NoTables =>
        \A n \in DOMAIN nft :
            nft[n].profile.kind = "loopback" => nft[n].profile.listen \in DOMAIN found

\* So have the candidates past their preflight, on interfaces that were read.
Prepared ==
    /\ LoopbackListens \subseteq DOMAIN txn.found
    /\ \A l \in DOMAIN txn.found : txn.found[l] \subseteq DOMAIN txn.adjusted

LoopbackInv ==
    /\ ServedOn /\ Traced
    /\ pc \in {"check", "enable"} => Prepared
    /\ pc = "enable" => \A i \in DOMAIN txn.adjusted \ txn.todo : sysctl[i]
    /\ pc \in {"check", "enable", "rollback"} =>
         \A i \in Fresh : ~txn.adjusted[i] => i \notin Served
    /\ pc = "restore" => Served \cap Stale = {}

\* The same rules with the same history are served by the same interfaces.
LEMMA KeptRules ==
    ASSUME UNCHANGED <<nft, found>>
    PROVE  Served' = Served /\ (Traced => Traced')
BY DEF Served, Traced

LEMMA SamePreparation ==
    ASSUME txn'.candidates = txn.candidates, txn'.found = txn.found,
           txn'.adjusted = txn.adjusted
    PROVE  Prepared => Prepared'
BY DEF Prepared, LoopbackListens, Candidate

LEMMA ServedType == ASSUME TypeInv PROVE Served \subseteq Iface
<1>1. found \in [DOMAIN found -> SUBSET Iface]
  BY PartialElim DEF TypeInv, TypeOK
<1>2. QED
  BY <1>1 DEF Served

LEMMA LoopbackStep ==
    ASSUME TypeInv, LoopbackInv, [Next]_vars
    PROVE  LoopbackInv'
<1>1. CASE NetworkPreflight
  <2>1. UNCHANGED <<sysctl, nft, found>> /\ Served' = Served /\ Traced'
    BY <1>1, KeptRules DEF NetworkPreflight, LoopbackInv, kernel
  <2>2. CASE Abort
    <3>1. pc' \in {"down", "idle", "degrade"}
      BY <2>2 DEF Abort, EndWithError
    <3>2. QED
      BY <2>1, <3>1 DEF LoopbackInv, ServedOn
  <2>3. CASE ~Abort
    <3>1. /\ txn' = [txn EXCEPT !.adjusted = Adjusted, !.found = Found] /\ pc' = "check"
          /\ UNCHANGED at
      BY <1>1, <2>3 DEF NetworkPreflight, environment
    <3>2. /\ txn'.adjusted = Adjusted /\ txn'.found = Found
          /\ txn'.prior = txn.prior /\ txn'.candidates = txn.candidates
      BY <3>1 DEF TypeInv, TypeOK, Transaction
    <3>3. \A i \in Fresh' : txn'.adjusted[i] = sysctl[i]
      BY <3>2 DEF Fresh, Adjusted
    <3>4. LoopbackListens' = LoopbackListens
      BY <3>2 DEF LoopbackListens, Candidate
    <3>5. Prepared'
      BY <3>2, <3>4 DEF Prepared, Found, Adjusted, LoopbackInterfaces
    <3>6. QED
      BY <2>1, <3>1, <3>3, <3>5 DEF LoopbackInv, ServedOn
  <2>4. QED
    BY <2>2, <2>3
<1>2. CASE NftCheck
  <2>1. UNCHANGED <<sysctl, nft, found>> /\ Served' = Served /\ Traced'
    BY <1>2, KeptRules DEF NftCheck, LoopbackInv, kernel
  <2>2. CASE Abort
    <3>1. pc' \in {"down", "idle", "degrade"}
      BY <2>2 DEF Abort, EndWithError
    <3>2. QED
      BY <2>1, <3>1 DEF LoopbackInv, ServedOn
  <2>3. CASE ~Abort
    <3>1. /\ txn' = [txn EXCEPT !.todo = DOMAIN txn.adjusted]
          /\ pc = "check" /\ pc' = "enable"
      BY <1>2, <2>3 DEF NftCheck
    <3>2. /\ txn'.adjusted = txn.adjusted /\ txn'.prior = txn.prior
          /\ txn'.candidates = txn.candidates /\ txn'.found = txn.found
          /\ txn'.todo = DOMAIN txn.adjusted
      BY <3>1 DEF TypeInv, TypeOK, Transaction
    <3>3. Prepared'
      BY <3>1, <3>2, SamePreparation DEF LoopbackInv
    <3>4. QED
      BY <2>1, <3>1, <3>2, <3>3 DEF LoopbackInv, ServedOn, Fresh
  <2>4. QED
    BY <2>2, <2>3
<1>3. CASE EnableOne
  <2>1. PICK i \in txn.todo :
          /\ sysctl' = [sysctl EXCEPT ![i] = TRUE]
          /\ txn' = [txn EXCEPT !.todo = @ \ {i}]
    BY <1>3 DEF EnableOne
  <2>2. pc = "enable" /\ UNCHANGED <<pc, nft, found>> /\ Served' = Served /\ Traced'
    BY <1>3, KeptRules DEF EnableOne, LoopbackInv
  <2>3. /\ txn'.adjusted = txn.adjusted /\ txn'.prior = txn.prior
        /\ txn'.candidates = txn.candidates /\ txn'.found = txn.found
        /\ txn'.todo = txn.todo \ {i}
    BY <2>1 DEF TypeInv, TypeOK, Transaction
  <2>4. i \in Iface /\ sysctl \in [Iface -> BOOLEAN]
    BY DEF TypeInv, TypeOK, Transaction
  <2>5. sysctl'[i] /\ \A k \in Iface \ {i} : sysctl'[k] = sysctl[k]
    BY <2>1, <2>4
  <2>6. DOMAIN txn.adjusted \in SUBSET Iface
    BY PartialElim DEF TypeInv, TypeOK, Transaction
  <2>7. ServedOn'
    BY <2>2, <2>5, ServedType DEF LoopbackInv, ServedOn
  <2>8. \A k \in DOMAIN txn'.adjusted \ txn'.todo : sysctl'[k]
    BY <2>2, <2>3, <2>5, <2>6 DEF LoopbackInv
  <2>9. Prepared'
    BY <2>2, <2>3, SamePreparation DEF LoopbackInv
  <2>10. QED
    BY <2>2, <2>3, <2>7, <2>8, <2>9 DEF LoopbackInv, Fresh
<1>4. CASE Apply
  <2>1. UNCHANGED sysctl /\ pc = "enable" /\ txn.todo = {} /\ Prepared
    BY <1>4 DEF Apply, LoopbackInv
  <2>2. CASE pc' = "restore"
    <3>1. /\ nft' = Rules(txn.candidates) /\ found' = txn.found
          /\ txn' = [txn EXCEPT !.todo = Stale]
      BY <1>4, <2>2 DEF Apply
    <3>2. txn'.adjusted = txn.adjusted /\ txn'.prior = txn.prior
      BY <3>1 DEF TypeInv, TypeOK, Transaction
    <3>3. Served' \subseteq DOMAIN txn.adjusted
      BY <2>1, <3>1 DEF Served, Prepared
    <3>4. ServedOn'
      BY <2>1, <3>3 DEF LoopbackInv, ServedOn
    <3>5. \A n \in DOMAIN nft' : nft'[n].profile = txn.candidates[n].profile
                                 /\ txn.candidates[n] \in Candidate
      BY <3>1 DEF Rules, Candidate
    <3>6. Traced'
      BY <2>1, <3>1, <3>5 DEF Traced, Prepared, LoopbackListens
    <3>7. Served' \cap Stale' = {}
      BY <3>2, <3>3 DEF Stale
    <3>8. QED
      BY <2>2, <3>4, <3>6, <3>7 DEF LoopbackInv
  <2>3. CASE pc' # "restore"
    <3>1. /\ pc' = "rollback" /\ txn' = [txn EXCEPT !.todo = Fresh]
          /\ UNCHANGED <<nft, found>>
      BY <1>4, <2>3 DEF Apply
    <3>2. txn'.adjusted = txn.adjusted /\ txn'.prior = txn.prior
      BY <3>1 DEF TypeInv, TypeOK, Transaction
    <3>3. Served' = Served /\ Traced'
      BY <3>1, KeptRules DEF LoopbackInv
    <3>4. QED
      BY <2>1, <3>1, <3>2, <3>3 DEF LoopbackInv, ServedOn, Fresh
  <2>4. QED
    BY <2>2, <2>3
<1>5. CASE RollbackOne
  <2>1. PICK i \in txn.todo :
          /\ sysctl' = [sysctl EXCEPT ![i] = txn.adjusted[i]]
          /\ txn' = [txn EXCEPT !.todo = @ \ {i}]
    BY <1>5 DEF RollbackOne
  <2>2. pc = "rollback" /\ UNCHANGED <<pc, nft, found>> /\ Served' = Served /\ Traced'
    BY <1>5, KeptRules DEF RollbackOne, LoopbackInv
  <2>3. txn'.adjusted = txn.adjusted /\ txn'.prior = txn.prior
    BY <2>1 DEF TypeInv, TypeOK, Transaction
  <2>4. i \in Iface /\ i \in Fresh /\ sysctl \in [Iface -> BOOLEAN]
    BY <2>2 DEF TypeInv, TypeOK, Transaction, Shape
  <2>5. ~txn.adjusted[i] => i \notin Served
    BY <2>2, <2>4 DEF LoopbackInv
  <2>6. \A k \in Iface \ {i} : sysctl'[k] = sysctl[k]
    BY <2>1, <2>4
  <2>7. sysctl'[i] = txn.adjusted[i]
    BY <2>1, <2>4
  <2>8. ServedOn'
    BY <2>2, <2>5, <2>6, <2>7, ServedType DEF LoopbackInv, ServedOn
  <2>9. QED
    BY <2>2, <2>3, <2>8 DEF LoopbackInv, Fresh
<1>6. CASE RestoreOne
  <2>1. PICK i \in txn.todo :
          /\ sysctl' = [sysctl EXCEPT ![i] = txn.prior.state.original[i]]
          /\ txn' = [txn EXCEPT !.todo = @ \ {i}]
    BY <1>6 DEF RestoreOne
  <2>2. pc = "restore" /\ UNCHANGED <<pc, nft, found>> /\ Served' = Served /\ Traced'
    BY <1>6, KeptRules DEF RestoreOne, LoopbackInv
  <2>3. txn'.adjusted = txn.adjusted /\ txn'.prior = txn.prior
    BY <2>1 DEF TypeInv, TypeOK, Transaction
  <2>4. i \in Iface /\ i \in Stale /\ sysctl \in [Iface -> BOOLEAN]
    BY <2>2 DEF TypeInv, TypeOK, Transaction, Shape
  <2>5. i \notin Served
    BY <2>2, <2>4 DEF LoopbackInv
  <2>6. \A k \in Iface \ {i} : sysctl'[k] = sysctl[k]
    BY <2>1, <2>4
  <2>7. ServedOn'
    BY <2>2, <2>5, <2>6, ServedType DEF LoopbackInv, ServedOn
  <2>8. QED
    BY <2>2, <2>3, <2>7 DEF LoopbackInv, Stale
<1>7. CASE RestoreFails
  <2>1. /\ UNCHANGED <<sysctl, pc>> /\ pc = "restore" /\ Served' = Served /\ Traced'
        /\ txn' = [txn EXCEPT !.todo = {}]
    BY <1>7, KeptRules DEF RestoreFails, LoopbackInv, kernel
  <2>2. txn'.adjusted = txn.adjusted /\ txn'.prior = txn.prior
    BY <2>1 DEF TypeInv, TypeOK, Transaction
  <2>3. QED
    BY <2>1, <2>2 DEF LoopbackInv, ServedOn, Stale
<1>8. CASE \/ Reload \/ CheckHooks \/ PrepareBatch \/ EnableFails \/ RollbackEnds
           \/ Save \/ RefreshCycle \/ Stop
  <2>1. UNCHANGED <<sysctl, nft, found>>
        /\ pc' \notin {"check", "enable", "rollback", "restore"}
    BY <1>8 DEF Reload, Start, ReceiveApply, LoadConfig, CheckHooks, PrepareBatch,
                EnableFails, RollbackEnds, Save, RefreshCycle, Refresh, Reread,
                NoteStatuses, Degrade, Stop, Abort, EndWithError, kernel
  <2>2. QED
    BY <2>1, KeptRules DEF LoopbackInv, ServedOn
<1>9. CASE Reboot \/ FlushRuleset
  <2>1. /\ nft' = NoTables /\ found' = Nothing
        /\ \/ pc' = "down"
           \/ UNCHANGED <<sysctl, pc, txn>>
    BY <1>9 DEF Reboot, FlushRuleset
  <2>2. Traced' /\ Served' = {}
    BY <2>1 DEF Traced, Served, Nothing
  <2>3. UNCHANGED txn => (Prepared => Prepared')
    BY SamePreparation
  <2>4. QED
    BY <2>1, <2>2, <2>3 DEF LoopbackInv, ServedOn, Fresh, Stale
<1>10. CASE LoseStateFile \/ Environment \/ UNCHANGED vars
  <2>1. UNCHANGED <<sysctl, nft, found, pc, txn>>
    BY <1>10 DEF LoseStateFile, Environment, EditConfig, MoveAddresses, ForeignChains,
                 ChangeZone, Tick, vars, kernel
  <2>2. Served' = Served /\ Traced' /\ (Prepared => Prepared')
    BY <2>1, KeptRules, SamePreparation DEF LoopbackInv
  <2>3. QED
    BY <2>1, <2>2 DEF LoopbackInv, ServedOn, Fresh, Stale
<1>11. QED
  BY <1>1, <1>2, <1>3, <1>4, <1>5, <1>6, <1>7, <1>8, <1>9, <1>10
     DEF Next, Commit, Failure

\* An installed loopback rule is never in force on an interface that drops its
\* packets, as long as the listen address is where the preflight of that rule found
\* it or has come back there, for any number of interfaces and profiles and under
\* every combination of moving addresses, failing commands, failing writes, crashes,
\* lost state files, flushed rulesets and reboots.
THEOREM LoopbackSafe == Spec => []NoLoopbackGap
<1>1. Init => LoopbackInv
  <2>1. ASSUME Init PROVE Traced /\ Served = {} /\ pc = "down"
    BY <2>1 DEF Init, Traced, Served, Nothing
  <2>2. QED
    BY <2>1 DEF LoopbackInv, ServedOn
<1>2. TypeInv /\ LoopbackInv /\ [Next]_vars => LoopbackInv'
  BY LoopbackStep
<1>3. LoopbackInv => NoLoopbackGap
  <2>1. ASSUME Traced, NEW n \in DOMAIN nft, nft # NoTables,
               nft[n].profile.kind = "loopback"
        PROVE  found[nft[n].profile.listen] \subseteq Served
    BY <2>1 DEF Traced, Served
  <2>2. QED
    BY <2>1 DEF LoopbackInv, ServedOn, NoLoopbackGap
<1>4. QED
  BY <1>1, <1>2, <1>3, TypeInvariant, PTL DEF Spec
=============================================================================
