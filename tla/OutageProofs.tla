---------------------------- MODULE OutageProofs ----------------------------
(* How a target leaves its address, and what it uses when nobody answers, for  *)
(* every resolver, configuration and fault: TargetMovesOnlyWhenGone and        *)
(* OutageUsesConfirmedAddress.  Both compare the targets a transaction resolves *)
(* with the statuses of its beginning (resolve_initial, refresh_due_dns).  And  *)
(* what state.json, where those statuses are kept, says of the kernel's rules:  *)
(* StatusTellsTheRules.                                                         *)
EXTENDS DestinationProofs, CommitProofs

\* A refresh compares with the active profiles, the properties with the statuses
\* beside them: commit_candidates and save_refresh_only write both together.
Remembered ==
    (pc = "idle" \/ txn.kind \in {"apply", "refresh"}) =>
        mem.state.dns = Statuses(mem.active)

\* The two promises about one target, where z is what its host resolves to, t the
\* time and limit whether age counts.
Moves(old, new, family, z) ==
    (/\ old # NoDns /\ new # NoDns /\ old.host = new.host
     /\ new.address # old.address) =>
        /\ new.address \in z[new.host]
        /\ ~ (old.address \in z[new.host] /\ Permitted(family, old.address))

Confirmed(old, new, t, limit) ==
    (new # NoDns /\ new.status # "healthy") =>
        /\ old # NoDns /\ old.host = new.host
        /\ old.address = new.address /\ old.written = new.written
        /\ limit => t - old.written <= MaxCacheAge

--------------------------------------------------------------------------
(* One target                                                               *)

\* An accepted answer keeps an address that is still answered.
LEMMA AcceptMoves ==
    ASSUME NEW d \in DnsStatus, NEW C \in SUBSET Address, C # {},
           NEW ttl \in Nat, NEW t \in Nat, NEW jitter \in Nat
    PROVE  LET e == AcceptAnswer(d, C, ttl, t, jitter)
           IN  /\ e.host = d.host /\ e.status = "healthy" /\ e.address \in C
               /\ e.address # d.address => d.address \notin C
<1> DEFINE e == AcceptAnswer(d, C, ttl, t, jitter)
<1>1. e.host = d.host /\ e.status = "healthy"
  BY DEF AcceptAnswer, DnsStatus
<1>2. e.address \in C
  BY AcceptType
<1>3. d.address \in C => e.address = d.address
  BY DEF AcceptAnswer, DnsStatus
<1>4. QED
  BY <1>1, <1>2, <1>3

\* A recorded failure changes neither host, address nor age.
LEMMA FailureKeeps ==
    ASSUME NEW d \in DnsStatus, NEW t \in Nat
    PROVE  LET e == RecordFailure(d, t)
           IN  e.host = d.host /\ e.address = d.address /\ e.written = d.written
BY DEF RecordFailure, DnsStatus

\* What is answered and permitted are the candidates.
LEMMA CandidatesAre ==
    ASSUME NEW family, NEW S, NEW a
    PROVE  a \in Candidates(family, S) <=> a \in S /\ Permitted(family, a)
BY DEF Candidates

\* resolve_initial.
LEMMA ResolveOutage ==
    ASSUME TypeInv, NEW host \in Host, NEW family \in Family,
           NEW cached \in DnsStatus \cup {NoDns},
           NEW answer \in Lookups(host), NEW jitter \in Nat,
           NEW d \in ResolveInitial(host, family, cached, answer, now, jitter)
    PROVE  Moves(cached, d, family, zone) /\ Confirmed(cached, d, now, TRUE)
<1>1. /\ answer \in Lookup /\ zone \in Zone /\ zone[host] \in SUBSET Address
      /\ answer.ok => answer.addresses = zone[host]
  BY LookupsFromZone DEF TypeInv
<1>2. now \in Nat
  BY EnvironmentAssumption DEF TypeInv, TypeOK
<1> DEFINE known == IF SameHost(cached, host) THEN cached ELSE NewStatus(host)
<1>3. known \in DnsStatus /\ known.host = host
  BY DEF SameHost, NewStatus, DnsStatus, Health
<1>4. CASE answer.ok
  <2> DEFINE C == Candidates(family, zone[host])
  <2>1. /\ C # {} /\ answer.ttl \in Nat
        /\ d = AcceptAnswer(known, C, answer.ttl, now, jitter)
    BY <1>1, <1>4 DEF ResolveInitial, Lookup
  <2>2. C \in SUBSET Address
    BY <1>1, CandidatesPermitted
  <2>3. cached # NoDns /\ cached.host = host => known = cached
    BY DEF SameHost
  <2>4. \A a : a \in C <=> a \in zone[host] /\ Permitted(family, a)
    BY CandidatesAre
  <2> HIDE DEF known, C
  <2>5. /\ d.host = host /\ d.status = "healthy" /\ d.address \in C
        /\ d.address # known.address => known.address \notin C
    BY <1>2, <1>3, <2>1, <2>2, AcceptMoves
  <2>6. QED
    BY <2>3, <2>4, <2>5 DEF Moves, Confirmed
<1>5. CASE ~answer.ok
  <2>1. /\ SameHost(cached, host) /\ CanRestoreCache(cached, now)
        /\ d = [cached EXCEPT !.status = "degraded", !.next = now + MinRefresh]
    BY <1>5 DEF ResolveInitial
  <2>2. cached \in DnsStatus /\ cached # NoDns
    BY <2>1 DEF SameHost
  <2>3. d.host = cached.host /\ d.address = cached.address /\ d.written = cached.written
    BY <2>1, <2>2 DEF DnsStatus
  <2>4. now - cached.written <= MaxCacheAge
    BY <1>2, <2>1, <2>2, TimingAssumption DEF CanRestoreCache, CacheAge, Greater, DnsStatus
  <2>5. QED
    BY <2>2, <2>3, <2>4 DEF Moves, Confirmed
<1>6. QED
  BY <1>4, <1>5

\* One due target of refresh_due_dns.
LEMMA RefreshOutage ==
    ASSUME TypeInv, NEW d \in DnsStatus, NEW family \in Family,
           NEW answer \in Lookups(d.host), NEW e, e = RefreshStatus(d, family, answer, now)
    PROVE  Moves(d, e, family, zone) /\ Confirmed(d, e, now, FALSE)
<1>1. d.host \in Host /\ d # NoDns
  BY SentinelAssumption DEF DnsStatus
<1>2. /\ answer \in Lookup /\ zone \in Zone /\ zone[d.host] \in SUBSET Address
      /\ answer.ok => answer.addresses = zone[d.host]
  BY <1>1, LookupsFromZone DEF TypeInv
<1>3. now \in Nat /\ answer.ttl \in Nat /\ 0 \in Nat
  BY <1>2, EnvironmentAssumption DEF TypeInv, TypeOK, Lookup
<1> DEFINE C == Candidates(family, zone[d.host])
<1>4. C \in SUBSET Address
  BY <1>2, CandidatesPermitted
<1>5. \A a : a \in C <=> a \in zone[d.host] /\ Permitted(family, a)
  BY CandidatesAre
<1>6. e = IF answer.ok /\ C # {} THEN AcceptAnswer(d, C, answer.ttl, now, 0)
          ELSE RecordFailure(d, now)
  BY <1>2 DEF RefreshStatus
<1> HIDE DEF C
<1>7. CASE answer.ok /\ C # {}
  <2>1. e = AcceptAnswer(d, C, answer.ttl, now, 0)
    BY <1>6, <1>7
  <2>2. C # {}
    BY <1>7
  <2>3. e.host = d.host /\ e.address \in C /\ (e.address # d.address => d.address \notin C)
    <3>1. answer.ttl \in Nat /\ now \in Nat /\ 0 \in Nat
      BY <1>3
    <3>2. e.host = d.host
      BY <2>1 DEF AcceptAnswer, DnsStatus
    <3>3. e.address \in C
      BY <1>4, <2>1, <2>2, <3>1, AcceptType
    <3>4. d.address \in C => e.address = d.address
      BY <2>1 DEF AcceptAnswer, DnsStatus
    <3>5. QED
      BY <3>2, <3>3, <3>4
  <2>4. e.status = "healthy"
    BY <2>1 DEF AcceptAnswer, DnsStatus
  <2>5. QED
    BY <1>5, <2>3, <2>4 DEF Moves, Confirmed
<1>8. CASE ~ (answer.ok /\ C # {})
  <2>1. e.host = d.host /\ e.address = d.address /\ e.written = d.written
    BY <1>3, <1>6, <1>8, FailureKeeps
  <2>2. QED
    BY <1>1, <2>1 DEF Moves, Confirmed
<1>9. QED
  BY <1>7, <1>8

--------------------------------------------------------------------------
(* What memory remembers                                                    *)

LEMMA RememberedInit == Init => Remembered
BY DEF Init, Remembered, NoTxn

\* Saving writes statuses and active profiles together.
LEMMA SavedTogether ==
    ASSUME TypeInv, NEW active, NEW m,
           \/ m = [state |-> NextState, active |-> txn.candidates]
           \/ m = [state |-> [txn.prior.state EXCEPT !.dns = Statuses(active)],
                   active |-> active]
    PROVE  m.state.dns = Statuses(m.active)
BY DEF TypeInv, TypeOK, Transaction, Memory, State, NextState

LEMMA ErrorRemembers ==
    ASSUME TypeInv, NEW m, txn.kind = "apply" => m.state.dns = Statuses(m.active),
           txn.kind = "refresh" => m.state.dns = Statuses(m.active), EndWithError(m)
    PROVE  Remembered'
<1>1. CASE txn.kind = "startup" /\ pc' = "down" /\ txn' = NoTxn
  BY <1>1 DEF Remembered, NoTxn
<1>2. CASE txn.kind \in {"apply", "refresh"} /\ mem' = m
  BY <1>2 DEF Remembered
<1>3. QED
  BY <1>1, <1>2 DEF EndWithError

LEMMA RememberedStep ==
    ASSUME TypeInv, Remembered, [Next]_vars
    PROVE  Remembered'
<1>1. CASE Start
  BY <1>1 DEF Start, Begin, NoTxn, Remembered
<1>2. CASE ReceiveApply \/ Refresh
  BY <1>2 DEF ReceiveApply, Refresh, Remembered
<1>3. CASE Abort
  BY <1>3, ErrorRemembers DEF Abort, Remembered
<1>4. CASE LoadConfig /\ ~Abort
  <2>1. UNCHANGED mem /\ pc' = "hooks" /\ txn'.kind = txn.kind
    BY <1>4 DEF LoadConfig, TypeInv, TypeOK, Transaction
  <2>2. QED
    BY <2>1 DEF Remembered
<1>5. CASE Commit /\ ~Abort /\ ~Save
  <2>1. UNCHANGED mem /\ pc' # "idle"
    BY <1>5 DEF Commit, CheckHooks, PrepareBatch, NetworkPreflight, NftCheck, EnableOne,
                EnableFails, Apply, RollbackOne, RollbackEnds, RestoreOne, RestoreFails
  <2>2. \/ UNCHANGED txn
        \/ txn' = [txn EXCEPT !.managed = (nft # NoTables)]
        \/ txn' = [txn EXCEPT !.adjusted = Adjusted, !.found = Found]
        \/ \E s : txn' = [txn EXCEPT !.todo = s]
    BY <1>5 DEF Commit, CheckHooks, PrepareBatch, NetworkPreflight, NftCheck, EnableOne,
                EnableFails, Apply, RollbackOne, RollbackEnds, RestoreOne, RestoreFails
  <2>3. txn'.kind = txn.kind
    BY <2>2 DEF TypeInv, TypeOK, Transaction
  <2>4. QED
    BY <2>1, <2>3 DEF Remembered
<1>6. CASE Save
  <2> DEFINE next == [state |-> NextState, active |-> txn.candidates]
  <2>1. next.state.dns = Statuses(next.active)
    BY SavedTogether
  <2>2. EndWithError(next) \/ mem' = next
    BY <1>6 DEF Save
  <2> HIDE DEF next
  <2>3. QED
    BY <2>1, <2>2, ErrorRemembers DEF Remembered
<1>7. CASE Reread
  BY <1>7 DEF Reread, Remembered, TypeInv, Shape
<1>8. CASE NoteStatuses \/ Degrade
  <2>1. txn.kind = "refresh"
    BY <1>8 DEF NoteStatuses, Degrade, TypeInv, Shape
  <2>2. PICK active : SaveRefreshOnly(active)
    BY <1>8 DEF NoteStatuses, Degrade
  <2> DEFINE next == [txn.prior.state EXCEPT !.dns = Statuses(active)]
  <2>3. mem' = [state |-> next, active |-> active] \/ UNCHANGED mem
    BY <2>2 DEF SaveRefreshOnly
  <2>4. mem'.state.dns = Statuses(mem'.active)
    BY <2>1, <2>3, SavedTogether DEF Remembered
  <2>5. QED
    BY <2>4 DEF Remembered
<1>9. CASE Stop \/ Reboot
  BY <1>9 DEF Stop, Reboot, Remembered, NoTxn
<1>10. CASE FlushRuleset \/ LoseStateFile \/ Environment \/ UNCHANGED vars
  BY <1>10 DEF FlushRuleset, LoseStateFile, Environment, EditConfig, MoveAddresses,
               ForeignChains, ChangeZone, Tick, vars, Remembered
<1>11. QED
  BY <1>1, <1>2, <1>3, <1>4, <1>5, <1>6, <1>7, <1>8, <1>9, <1>10
     DEF Next, Reload, Commit, RefreshCycle, Failure

--------------------------------------------------------------------------
(* Steps that resolve targets                                               *)

\* The status a transaction began with.
Before(memory, n) == IF n \in DOMAIN memory.state.dns THEN memory.state.dns[n] ELSE NoDns

Resolving == txn.candidates = Nothing /\ txn'.candidates # Nothing

\* What LoadConfig and Refresh establish of every target they resolve.
Outage ==
    \A n \in DOMAIN txn'.candidates :
        LET old == Before(txn'.prior, n)
            new == txn'.candidates[n]
        IN  /\ Moves(old, new.dns, new.profile.family, zone)
            /\ Confirmed(old, new.dns, now, txn'.kind # "refresh")

\* A profile without a host makes no promise.
LEMMA NoDnsOutage ==
    ASSUME NEW old, NEW family, NEW z, NEW t, NEW limit
    PROVE  Moves(old, NoDns, family, z) /\ Confirmed(old, NoDns, t, limit)
BY DEF Moves, Confirmed

LEMMA ResolutionOutage ==
    ASSUME TypeInv, NEW n \in Name, NEW p \in Profile, WellFormed(p),
           NEW r \in Resolutions(n, p), NEW limit \in BOOLEAN
    PROVE  /\ Moves(Cached(n), r.dns, r.profile.family, zone)
           /\ Confirmed(Cached(n), r.dns, now, limit)
<1>1. CASE p.kind = "fqdn"
  <2>1. p.host \in Host /\ p.family \in Family
    BY <1>1 DEF WellFormed, Profile
  <2>2. Cached(n) \in DnsStatus \cup {NoDns}
    <3>1. txn.prior.state.dns \in PartialFunctions(Name, DnsStatus \cup {NoDns})
      BY DEF TypeInv, TypeOK, Transaction, Memory, State
    <3>2. QED
      BY <3>1, PartialElim DEF Cached
  <2>3. PICK answer \in Lookups(p.host), j \in Jitter :
          \E d \in ResolveInitial(p.host, p.family, Cached(n), answer, now, j) :
            r = [profile |-> p, destination |-> d.address, dns |-> d]
    BY <1>1 DEF Resolutions
  <2>4. PICK d \in ResolveInitial(p.host, p.family, Cached(n), answer, now, j) :
          r = [profile |-> p, destination |-> d.address, dns |-> d]
    BY <2>3
  <2>5. j \in Nat
    BY EnvironmentAssumption
  <2>6. Moves(Cached(n), d, p.family, zone) /\ Confirmed(Cached(n), d, now, TRUE)
    BY <2>1, <2>2, <2>5, ResolveOutage
  <2>7. r.dns = d /\ r.profile = p
    BY <2>4
  <2>8. QED
    BY <2>6, <2>7 DEF Confirmed
<1>2. CASE p.kind # "fqdn"
  <2>1. r.dns = NoDns
    BY <1>2 DEF Resolutions
  <2>2. QED
    BY <2>1, NoDnsOutage
<1>3. QED
  BY <1>1, <1>2

LEMMA LoadConfigOutage ==
    ASSUME TypeInv, LoadConfig, ~Abort
    PROVE  Outage
<1>1. file # Unreadable
  BY DEF LoadConfig
<1>2. PICK candidates \in [DOMAIN file.profiles ->
                             UNION {Resolutions(n, file.profiles[n]) :
                                      n \in DOMAIN file.profiles}] :
        /\ \A n \in DOMAIN file.profiles :
             candidates[n] \in Resolutions(n, file.profiles[n])
        /\ txn' = [txn EXCEPT !.candidates = candidates,
                              !.allow = file.allowExternal]
  BY DEF LoadConfig
<1>3. file \in Config
  BY <1>1, Zenon DEF TypeInv, TypeOK, Content
<1>4. /\ file.profiles \in PartialFunctions(Name, Profile)
      /\ \A n \in DOMAIN file.profiles : WellFormed(file.profiles[n])
  BY <1>3, ConfigAssumption
<1>5. \A n \in DOMAIN file.profiles : n \in Name /\ file.profiles[n] \in Profile
  BY <1>4, PartialElim
<1>6. txn'.prior = txn.prior /\ txn'.candidates = candidates
  BY <1>2 DEF TypeInv, TypeOK, Transaction
<1>7. \A n : Before(txn'.prior, n) = Cached(n)
  BY <1>6 DEF Before, Cached
<1>8. ASSUME NEW n \in DOMAIN file.profiles
      PROVE  /\ Moves(Cached(n), candidates[n].dns, candidates[n].profile.family, zone)
             /\ Confirmed(Cached(n), candidates[n].dns, now, txn'.kind # "refresh")
  <2>1. candidates[n] \in Resolutions(n, file.profiles[n])
    BY <1>2
  <2>2. (txn'.kind # "refresh") \in BOOLEAN
    OBVIOUS
  <2>3. QED
    BY <1>4, <1>5, <2>1, <2>2, ResolutionOutage
<1>9. DOMAIN txn'.candidates = DOMAIN file.profiles
  BY <1>2, <1>6
<1>10. QED
  BY <1>6, <1>7, <1>8, <1>9 DEF Outage

LEMMA RefreshStepOutage ==
    ASSUME TypeInv, Remembered, Refresh
    PROVE  Outage
<1>1. /\ mem \in Memory /\ mem.active \in Actives /\ now \in Nat
      /\ DOMAIN mem.active \in SUBSET Name
      /\ mem.active \in [DOMAIN mem.active -> Active]
  BY PartialElim, EnvironmentAssumption DEF TypeInv, TypeOK, Memory, Actives
<1>2. PICK answer \in [Due -> UNION {Lookups(mem.active[n].dns.host) : n \in Due}] :
        LET candidates == [n \in DOMAIN mem.active |->
                             IF n \in Due THEN Refreshed(mem.active[n], answer[n])
                             ELSE mem.active[n]]
        IN  /\ \A n \in Due : answer[n] \in Lookups(mem.active[n].dns.host)
            /\ txn' = [Begin("refresh", mem) EXCEPT !.candidates = candidates]
  BY DEF Refresh
<1> DEFINE candidates == [n \in DOMAIN mem.active |->
                            IF n \in Due THEN Refreshed(mem.active[n], answer[n])
                            ELSE mem.active[n]]
<1>3. txn' = [Begin("refresh", mem) EXCEPT !.candidates = candidates]
  BY <1>2
<1>4. DOMAIN candidates = DOMAIN mem.active
  OBVIOUS
<1>5. txn'.prior = mem /\ txn'.candidates = candidates /\ txn'.kind = "refresh"
  <2> HIDE DEF candidates
  <2>1. Begin("refresh", mem) \in Transaction /\ Begin("refresh", mem).prior = mem
        /\ Begin("refresh", mem).kind = "refresh"
    BY <1>1, BeginType DEF TypeInv, Kind
  <2>2. QED
    BY <1>3, <2>1 DEF Transaction
<1>6. mem.state.dns = Statuses(mem.active)
  BY DEF Refresh, Remembered
<1>7. ASSUME NEW n \in DOMAIN mem.active
      PROVE  /\ Before(mem, n) = mem.active[n].dns /\ mem.active[n] \in Active
             /\ Moves(mem.active[n].dns, candidates[n].dns,
                       candidates[n].profile.family, zone)
             /\ Confirmed(mem.active[n].dns, candidates[n].dns, now, FALSE)
  <2>1. Before(mem, n) = mem.active[n].dns /\ mem.active[n] \in Active
    BY <1>1, <1>6 DEF Before, Statuses
  <2>2. CASE n \in Due
    <3> DEFINE old == mem.active[n].dns
               e == RefreshStatus(old, mem.active[n].profile.family, answer[n], now)
    <3>1. /\ old \in DnsStatus /\ mem.active[n].profile.family \in Family
          /\ answer[n] \in Lookups(old.host)
      BY <1>2, <2>1, <2>2 DEF Due, Active, Profile
    <3>2. /\ Moves(old, e, mem.active[n].profile.family, zone)
          /\ Confirmed(old, e, now, FALSE)
      BY <3>1, RefreshOutage
    <3>3. candidates[n] = [mem.active[n] EXCEPT !.destination = e.address, !.dns = e]
      BY <2>2 DEF Refreshed
    <3> HIDE DEF e, candidates
    <3>4. candidates[n].dns = e /\ candidates[n].profile = mem.active[n].profile
      BY <2>1, <3>3 DEF Active
    <3>5. QED
      BY <2>1, <3>2, <3>4
  <2>3. CASE n \notin Due
    BY <2>1, <2>3 DEF Moves, Confirmed
  <2>4. QED
    BY <2>1, <2>2, <2>3
<1> HIDE DEF candidates
<1>8. QED
  BY <1>4, <1>5, <1>7 DEF Outage

\* No other step resolves a target.
LEMMA ResolvingOutage ==
    ASSUME TypeInv, Remembered, [Next]_vars, Resolving
    PROVE  Outage
<1>1. ~Abort
  BY EmptySound DEF Abort, EndWithError, Resolving, TypeInv, TypeOK, Transaction
<1>2. ~ (Start \/ ReceiveApply \/ Stop \/ Reboot \/ NoteStatuses \/ Degrade)
  BY EmptySound DEF Start, ReceiveApply, Stop, Reboot, NoteStatuses, Degrade, Begin, NoTxn, Resolving
<1>3. ~Save
  <2>1. ASSUME NEW m PROVE ~EndWithError(m)
    BY EmptySound DEF EndWithError, Resolving, TypeInv, TypeOK, Transaction
  <2>2. QED
    BY <2>1, EmptySound DEF Save, Resolving
<1>4. ~Reread
  BY EmptySound DEF Reread, Resolving, TypeInv, TypeOK, Transaction
<1>5. ~Commit
  <2>1. SUFFICES ASSUME Commit PROVE FALSE
    OBVIOUS
  <2>2. \/ UNCHANGED txn
        \/ txn' = [txn EXCEPT !.managed = (nft # NoTables)]
        \/ txn' = [txn EXCEPT !.adjusted = Adjusted, !.found = Found]
        \/ \E s : txn' = [txn EXCEPT !.todo = s]
    BY <1>1, <1>3, <2>1
       DEF Commit, CheckHooks, PrepareBatch, NetworkPreflight, NftCheck, EnableOne,
           EnableFails, Apply, RollbackOne, RollbackEnds, RestoreOne, RestoreFails
  <2>3. txn'.candidates = txn.candidates
    BY <2>2 DEF TypeInv, TypeOK, Transaction
  <2>4. QED
    BY <2>3 DEF Resolving
<1>6. ~ (FlushRuleset \/ LoseStateFile \/ Environment \/ UNCHANGED vars)
  BY DEF FlushRuleset, LoseStateFile, Environment, EditConfig, MoveAddresses,
         ForeignChains, ChangeZone, Tick, vars, Resolving
<1>7. LoadConfig \/ Refresh
  BY <1>2, <1>4, <1>5, <1>6 DEF Next, Reload, RefreshCycle, Failure
<1>8. QED
  BY <1>1, <1>7, LoadConfigOutage, RefreshStepOutage

\* Memory's statuses are those of its active profiles, and every step that resolves
\* targets keeps both promises.
THEOREM RememberedInvariant == Spec => []Remembered
BY RememberedInit, RememberedStep, TypeInvariant, PTL DEF Spec

\* A profile that keeps its host leaves its address only for one answered now, and
\* only when its own is not: for any resolver, file, restart and fault.
THEOREM TargetsStay == Spec => TargetMovesOnlyWhenGone
<1>1. TypeInv /\ Remembered /\ [Next]_vars =>
        [(txn.candidates = Nothing /\ txn'.candidates # Nothing) =>
          \A n \in DOMAIN txn'.candidates \cap DOMAIN txn'.prior.state.dns :
              LET old == txn'.prior.state.dns[n]
                  new == txn'.candidates[n].dns
              IN  (/\ old # NoDns /\ new # NoDns /\ old.host = new.host
                   /\ new.address # old.address) =>
                      /\ new.address \in zone[new.host]
                      /\ ~ /\ old.address \in zone[new.host]
                           /\ Permitted(txn'.candidates[n].profile.family, old.address)]_vars
  BY ResolvingOutage DEF Resolving, Outage, Before, Moves
<1>2. QED
  BY <1>1, TypeInvariant, RememberedInvariant, PTL DEF Spec, TargetMovesOnlyWhenGone

\* An address used without a fresh answer was confirmed earlier for the same host and
\* keeps its age; a reload takes it only up to MaxCacheAge, however often it restarts.
THEOREM OutageConfirmed == Spec => OutageUsesConfirmedAddress
<1>1. TypeInv /\ Remembered /\ [Next]_vars =>
        [(txn.candidates = Nothing /\ txn'.candidates # Nothing) =>
          \A n \in DOMAIN txn'.candidates :
              LET new == txn'.candidates[n].dns
                  old == IF n \in DOMAIN txn'.prior.state.dns
                           THEN txn'.prior.state.dns[n] ELSE NoDns
              IN  (new # NoDns /\ new.status # "healthy") =>
                      /\ old # NoDns /\ old.host = new.host
                      /\ old.address = new.address /\ old.written = new.written
                      /\ txn'.kind # "refresh" => now - old.written <= MaxCacheAge]_vars
  BY ResolvingOutage DEF Resolving, Outage, Before, Confirmed
<1>2. QED
  BY <1>1, TypeInvariant, RememberedInvariant, PTL DEF Spec, OutageUsesConfirmedAddress

--------------------------------------------------------------------------
(* state.json                                                               *)

\* Saves succeed, no commit is cut short, and the rules stay in the kernel.
Steady == Undisturbed /\ ~Fault("crash") /\ ~Fault("reboot")

\* Except between nft -f and the save, state.json and the kernel have both been made
\* of the same profiles.
DiskInv ==
    (pc # "restore" /\ disk \notin {Absent, Corrupt}) =>
        \E active \in Actives :
            /\ AllAimed(active)
            /\ disk.dns = Statuses(active) /\ nft = Rules(active)

\* The status the CLI makes of it.
LEMMA DiskTells == ASSUME TypeInv, DiskInv PROVE StatusTellsTheRules
<1> SUFFICES ASSUME pc \in {"idle", "down"}, disk \notin {Absent, Corrupt}
             PROVE  /\ nft # NoTables /\ DOMAIN Shown = DOMAIN nft
                    /\ \A n \in DOMAIN Shown : Shown[n] # NoDns =>
                          /\ Shown[n].address = nft[n].destination
                          /\ Shown[n].status = "healthy" => now < Shown[n].next
  BY DEF StatusTellsTheRules
<1>1. PICK active \in Actives :
        AllAimed(active) /\ disk.dns = Statuses(active) /\ nft = Rules(active)
  BY DEF DiskInv
<1>2. nft # NoTables
  BY <1>1, RulesType, SentinelAssumption
<1>3. DOMAIN disk.dns = DOMAIN active /\ DOMAIN nft = DOMAIN active
      /\ DOMAIN Shown = DOMAIN active
  BY <1>1 DEF Statuses, Rules, Shown
<1>4. ASSUME NEW n \in DOMAIN active, Shown[n] # NoDns
      PROVE  /\ Shown[n].address = nft[n].destination
             /\ Shown[n].status = "healthy" => now < Shown[n].next
  <2> DEFINE d == active[n].dns
  <2>1. active[n] \in Active /\ Aimed(active[n])
    BY <1>1, PartialElim DEF Actives, AllAimed
  <2>2. Shown[n] = MarkRefreshExpired(d) /\ nft[n].destination = active[n].destination
    BY <1>1, <1>3 DEF Shown, Statuses, Rules
  <2>3. d # NoDns /\ d \in DnsStatus
    BY <1>4, <2>1, <2>2 DEF MarkRefreshExpired, Active
  <2>4. d.address = active[n].destination
    BY <2>1, <2>3 DEF Aimed
  <2>5. d.next \in Nat /\ now \in Nat
    BY <2>3, EnvironmentAssumption DEF DnsStatus, TypeInv, TypeOK
  <2> HIDE DEF d
  <2>6. CASE d.next <= now
    <3>1. Shown[n] = [d EXCEPT !.status = "degraded"]
      BY <2>2, <2>3, <2>6 DEF MarkRefreshExpired
    <3>2. Shown[n].address = d.address /\ Shown[n].status = "degraded"
      BY <2>3, <3>1 DEF DnsStatus
    <3>3. QED
      BY <2>2, <2>4, <3>2
  <2>7. CASE ~ (d.next <= now)
    <3>1. Shown[n] = d
      BY <2>2, <2>7 DEF MarkRefreshExpired
    <3>2. QED
      BY <2>2, <2>4, <2>5, <2>7, <3>1
  <2>8. QED
    BY <2>6, <2>7
<1>5. QED
  BY <1>2, <1>3, <1>4

LEMMA DiskStep ==
    ASSUME Steady, TypeInv, AgreeInv, DestinationInv, DiskInv, [Next]_vars
    PROVE  DiskInv'
<1>1. CASE Save
  <2>1. disk' = NextState /\ nft' = Rules(txn.candidates)
    BY <1>1 DEF Save, Steady, Undisturbed, AgreeInv, kernel
  <2>2. disk'.dns = Statuses(txn.candidates)
    BY <2>1 DEF NextState
  <2>3. txn.candidates \in Actives /\ AllAimed(txn.candidates)
    BY DEF TypeInv, TypeOK, Transaction, DestinationInv
  <2>4. QED
    BY <2>1, <2>2, <2>3 DEF DiskInv
<1>2. CASE NoteStatuses \/ Degrade
  <2>1. txn.kind = "refresh" /\ nft = Rules(txn.prior.active) /\ UNCHANGED nft
    BY <1>2 DEF NoteStatuses, Degrade, TypeInv, Shape, AgreeInv, kernel
  <2>2. PICK active \in Actives :
          AllAimed(active) /\ Rules(active) = nft /\ SaveRefreshOnly(active)
    <3>1. CASE NoteStatuses
      BY <2>1, <3>1 DEF NoteStatuses, AgreeInv, TypeInv, TypeOK, Transaction, DestinationInv
    <3>2. CASE Degrade
      BY <2>1, <3>2, DegradedAimed, DegradedType, DegradedRules DEF Degrade
    <3>3. QED
      BY <1>2, <3>1, <3>2
  <2>3. disk' = [txn.prior.state EXCEPT !.dns = Statuses(active)]
    BY <2>2 DEF SaveRefreshOnly, Steady, Undisturbed
  <2>4. disk'.dns = Statuses(active)
    BY <2>3 DEF TypeInv, TypeOK, Transaction, Memory, State
  <2>5. QED
    BY <2>1, <2>2, <2>4 DEF DiskInv
<1>3. CASE Apply
  BY <1>3 DEF Apply, DiskInv
<1>4. CASE LoseStateFile
  BY <1>4 DEF LoseStateFile, DiskInv
<1>5. CASE UNCHANGED <<disk, nft>> /\ (pc = "restore" => pc' = "restore")
  BY <1>5 DEF DiskInv
<1>6. ~ (Reboot \/ FlushRuleset) /\ (Stop => pc = "idle")
  BY DEF Steady, Undisturbed, Reboot, FlushRuleset, Stop
<1>7. CASE Reload \/ CheckHooks \/ PrepareBatch \/ NetworkPreflight \/ NftCheck
           \/ EnableOne \/ EnableFails \/ RollbackOne \/ RollbackEnds
  <2>1. pc # "restore" /\ UNCHANGED nft
    BY <1>7 DEF Reload, Start, ReceiveApply, LoadConfig, CheckHooks, PrepareBatch,
                NetworkPreflight, NftCheck, EnableOne, EnableFails, RollbackOne, RollbackEnds,
                kernel
  <2>2. UNCHANGED disk
    BY <1>7 DEF Reload, Start, ReceiveApply, LoadConfig, CheckHooks, PrepareBatch,
                NetworkPreflight, NftCheck, EnableOne, EnableFails, RollbackOne, RollbackEnds,
                Abort, EndWithError
  <2>3. QED
    BY <1>5, <2>1, <2>2
<1>8. CASE RestoreOne \/ RestoreFails \/ Refresh \/ Reread
  BY <1>5, <1>8 DEF RestoreOne, RestoreFails, Refresh, Reread, kernel
<1>9. CASE Stop \/ Environment \/ UNCHANGED vars
  BY <1>5, <1>6, <1>9 DEF Stop, Environment, EditConfig, MoveAddresses, ForeignChains,
                           ChangeZone, Tick, vars, kernel
<1>10. QED
  BY <1>1, <1>2, <1>3, <1>4, <1>6, <1>7, <1>8, <1>9
     DEF Next, Commit, RefreshCycle, Failure

\* The status made of state.json names the profiles in the kernel with the addresses
\* they are sent to, whether the daemon runs between transactions or was stopped, and
\* calls no overdue target healthy; commands, lookups, sysctl writes and reloads may
\* fail and the file may be lost.
THEOREM StatusHonest == ASSUME Steady PROVE Spec => []StatusTellsTheRules
<1>1. Undisturbed
  BY DEF Steady
<1>2. Spec => []AgreeInv
  BY <1>1, AgreeInvariant
<1>3. Init => DiskInv
  BY DEF Init, DiskInv
<1>4. TypeInv /\ AgreeInv /\ DestinationInv /\ DiskInv /\ [Next]_vars => DiskInv'
  BY DiskStep
<1>5. TypeInv /\ DiskInv => StatusTellsTheRules
  BY DiskTells
<1>6. QED
  BY <1>2, <1>3, <1>4, <1>5, TypeInvariant, DestinationInvariant, PTL DEF Spec
--------------------------------------------------------------------------
(* Failed switches                                                          *)

\* Saves succeed and the file stays readable: a switch that fails reaches Degrade.
SwitchesEnd == ~Fault("save") /\ ~Fault("config")

\* No transaction outlives its last step.
Quiescent == pc = "idle" => txn.kind = "none"

LEMMA QuiescentStep ==
    ASSUME TypeInv, Quiescent, [Next]_vars
    PROVE  Quiescent'
<1>1. ASSUME NEW m, EndWithError(m) PROVE Quiescent'
  BY <1>1 DEF EndWithError, Quiescent, NoTxn
<1>2. CASE Reload
  BY <1>1, <1>2 DEF Reload, Start, ReceiveApply, LoadConfig, Abort, Quiescent
<1>3. CASE CheckHooks \/ PrepareBatch \/ NetworkPreflight \/ NftCheck
  BY <1>1, <1>3 DEF CheckHooks, PrepareBatch, NetworkPreflight, NftCheck, Abort, Quiescent
<1>4. CASE EnableOne \/ EnableFails \/ Apply \/ RollbackOne \/ RollbackEnds
           \/ RestoreOne \/ RestoreFails
  BY <1>1, <1>4 DEF EnableOne, EnableFails, Apply, RollbackOne, RollbackEnds, RestoreOne,
                    RestoreFails, Abort, Quiescent
<1>5. CASE Save
  BY <1>1, <1>5 DEF Save, Quiescent, NoTxn
<1>6. CASE RefreshCycle
  BY <1>6 DEF RefreshCycle, Refresh, Reread, NoteStatuses, Degrade, Quiescent, NoTxn
<1>7. CASE Failure \/ Environment \/ UNCHANGED vars
  BY <1>7 DEF Failure, Stop, Reboot, FlushRuleset, LoseStateFile, Environment, EditConfig,
              MoveAddresses, ForeignChains, ChangeZone, Tick, vars, Quiescent
<1>8. QED
  BY <1>2, <1>3, <1>4, <1>5, <1>6, <1>7 DEF Next, Commit

\* A target marked degraded keeps an address, and is not due again at once.
LEMMA DegradedReported ==
    ASSUME TypeInv, DestinationInv, Degrade,
           NEW n \in Switched(txn.prior.active, txn.candidates)
    PROVE  /\ Degraded[n].dns.status = "degraded"
           /\ Degraded[n].dns.next > txn.candidates[n].dns.written
<1> DEFINE a == txn.prior.active[n]
           t == txn.candidates[n].dns.written
<1>1. Refreshing /\ txn.prior.active \in Actives /\ n \in DOMAIN txn.prior.active
  BY DEF Degrade, TypeInv, TypeOK, Shape, Transaction, Memory, Switched
<1>2. a \in Active /\ Aimed(a) /\ a.dns \in DnsStatus /\ t \in Nat
  BY <1>1, PartialElim DEF Actives, Refreshing, DnsStatus, DestinationInv, Sound, AllAimed
<1>3. a.dns.address # NoAddress
  BY <1>2, SentinelAssumption DEF Aimed
<1>4. Degraded[n].dns = RecordFailure(a.dns, t)
  BY <1>1, <1>2 DEF Degraded, Active
<1> HIDE DEF a, t
<1>5. RecordFailure(a.dns, t) =
        [a.dns EXCEPT !.status = "degraded", !.next = t + MinRefresh]
  BY <1>3 DEF RecordFailure
<1>6. Degraded[n].dns.status = "degraded" /\ Degraded[n].dns.next = t + MinRefresh
  BY <1>2, <1>4, <1>5 DEF DnsStatus
<1>7. QED
  BY <1>2, <1>6, TimingAssumption DEF t

LEMMA RefreshEnds ==
    ASSUME SwitchesEnd, TypeInv, DestinationInv, Quiescent, [Next]_vars,
           txn.kind = "refresh", pc' = "idle",
           NEW n \in Switched(txn.prior.active, txn.candidates)
    PROVE  \/ mem'.active[n].destination = txn.candidates[n].destination
           \/ /\ mem'.active[n].dns.status = "degraded"
              /\ mem'.active[n].dns.next > txn.candidates[n].dns.written
<1>1. pc # "idle" /\ \A m : ~EndWithError(m)
  BY DEF Quiescent, EndWithError
<1>2. file # Unreadable
  BY ConfigAssumption, Zenon DEF TypeInv, TypeOK, Content, SwitchesEnd
<1>3. CASE Save
  BY <1>1, <1>3 DEF Save
<1>4. CASE NoteStatuses
  BY <1>4 DEF NoteStatuses, SaveRefreshOnly, SwitchesEnd
<1>5. CASE Degrade
  <2>1. mem'.active = Degraded
    BY <1>5 DEF Degrade, SaveRefreshOnly, SwitchesEnd
  <2>2. QED
    BY <1>5, <2>1, DegradedReported
<1>6. ~ (Reload \/ Refresh \/ Reread)
  BY <1>1, <1>2 DEF Reload, Start, ReceiveApply, LoadConfig, Abort, Refresh, Reread
<1>7. Commit => Save
  BY <1>1 DEF Commit, CheckHooks, PrepareBatch, NetworkPreflight, NftCheck, EnableOne,
              EnableFails, Apply, RollbackOne, RollbackEnds, RestoreOne, RestoreFails, Abort
<1>8. ~ (Failure \/ Environment \/ UNCHANGED vars)
  BY <1>1 DEF Failure, Stop, Reboot, FlushRuleset, LoseStateFile, Environment, EditConfig,
              MoveAddresses, ForeignChains, ChangeZone, Tick, vars
<1>9. QED
  BY <1>3, <1>4, <1>5, <1>6, <1>7, <1>8 DEF Next, RefreshCycle

\* A refresh that wanted to move a target ends with the target moved, or with the old
\* one reported degraded and not due again at once; commands, lookups, sysctl writes
\* and the rules themselves may fail, and the daemon may crash and reboot.
THEOREM FailedSwitchReported == ASSUME SwitchesEnd PROVE Spec => RefreshFailureIsReported
<1>1. Init => Quiescent
  BY DEF Init, Quiescent
<1>2. TypeInv /\ Quiescent /\ [Next]_vars => Quiescent'
  BY QuiescentStep
<1>3. TypeInv /\ DestinationInv /\ Quiescent /\ [Next]_vars =>
        [(txn.kind = "refresh" /\ pc' = "idle") =>
          \A n \in Switched(txn.prior.active, txn.candidates) :
              \/ mem'.active[n].destination = txn.candidates[n].destination
              \/ /\ mem'.active[n].dns.status = "degraded"
                 /\ mem'.active[n].dns.next > txn.candidates[n].dns.written]_vars
  BY RefreshEnds
<1>4. QED
  BY <1>1, <1>2, <1>3, TypeInvariant, DestinationInvariant, PTL
     DEF Spec, RefreshFailureIsReported

--------------------------------------------------------------------------
(* The pace of lookups                                                      *)

InPace(d, t) ==
    d # NoDns =>
      /\ d.next <= t + MaxRefresh
      /\ d.status = "healthy" => d.written + MinRefresh <= d.next

AllInPace(actives, t) == \A n \in DOMAIN actives : InPace(actives[n].dns, t)

\* Whatever memory may become is in pace, and the clock a failed switch is dated by
\* was read in the past.
PaceInv ==
    /\ AllInPace(mem.active, now)
    /\ AllInPace(txn.prior.active, now)
    /\ AllInPace(txn.candidates, now)
    /\ txn.kind = "refresh" =>
          \A n \in Switched(txn.prior.active, txn.candidates) :
              txn.candidates[n].dns.written <= now

LEMMA EmptyInPace ==
    ASSUME NEW t
    PROVE  /\ AllInPace(NoMemory.active, t) /\ AllInPace(Nothing, t)
           /\ AllInPace(NoTxn.prior.active, t) /\ AllInPace(NoTxn.candidates, t)
           /\ NoTxn.kind = "none"
BY DEF AllInPace, NoMemory, NoTxn, Nothing

\* Time makes nothing overdue by more.
LEMMA PaceLasts ==
    ASSUME NEW actives \in Actives, NEW t \in Nat, AllInPace(actives, t)
    PROVE  AllInPace(actives, t + 1)
<1>1. ASSUME NEW n \in DOMAIN actives PROVE InPace(actives[n].dns, t + 1)
  <2>1. actives[n] \in Active /\ InPace(actives[n].dns, t)
    BY PartialElim DEF Actives, AllInPace
  <2>2. actives[n].dns = NoDns \/ actives[n].dns.next \in Nat
    BY <2>1 DEF Active, DnsStatus
  <2>3. QED
    BY <2>1, <2>2, TimingAssumption DEF InPace
<1>2. QED
  BY <1>1 DEF AllInPace

LEMMA AcceptInPace ==
    ASSUME NEW d \in DnsStatus, NEW C \in SUBSET Address, C # {},
           NEW ttl \in Nat, NEW t \in Nat, NEW jitter \in Nat
    PROVE  /\ InPace(AcceptAnswer(d, C, ttl, t, jitter), t)
           /\ AcceptAnswer(d, C, ttl, t, jitter).written = t
<1> DEFINE delay == RefreshDelay(ttl, jitter)
           chosen == IF d.address \in C THEN d.address ELSE First(C)
           e == AcceptAnswer(d, C, ttl, t, jitter)
<1>1. delay \in Nat /\ MinRefresh <= delay /\ delay <= MaxRefresh
  BY RefreshDelayBounds
<1>2. e = [d EXCEPT !.address = chosen, !.written = t, !.next = t + delay,
                    !.status = "healthy"]
  BY DEF AcceptAnswer
<1> HIDE DEF delay, chosen, e
<1>3. e.written = t /\ e.next = t + delay
  BY <1>2 DEF DnsStatus
<1>4. QED
  BY <1>1, <1>3, TimingAssumption DEF InPace, e

LEMMA FailureInPace ==
    ASSUME NEW d \in DnsStatus, NEW t \in Nat, NEW u \in Nat, t <= u
    PROVE  InPace(RecordFailure(d, t), u)
<1> DEFINE status == IF d.address # NoAddress THEN "degraded" ELSE "failed"
           e == RecordFailure(d, t)
<1>1. e = [d EXCEPT !.status = status, !.next = t + MinRefresh]
  BY DEF RecordFailure
<1>2. status # "healthy"
  OBVIOUS
<1> HIDE DEF status, e
<1>3. e.status = status /\ e.next = t + MinRefresh
  BY <1>1 DEF DnsStatus
<1>4. QED
  BY <1>2, <1>3, TimingAssumption DEF InPace, e

LEMMA ResolvedInPace ==
    ASSUME TypeInv, NEW n \in Name, NEW p \in Profile, WellFormed(p),
           NEW r \in Resolutions(n, p)
    PROVE  InPace(r.dns, now)
<1>1. CASE p.kind = "fqdn"
  <2>1. p.host \in Host /\ p.family \in Family /\ now \in Nat
    BY <1>1, EnvironmentAssumption DEF WellFormed, Profile, TypeInv, TypeOK
  <2>2. PICK answer \in Lookups(p.host), j \in Jitter :
          r.dns \in ResolveInitial(p.host, p.family, Cached(n), answer, now, j)
    BY <1>1 DEF Resolutions
  <2>3. answer \in Lookup /\ j \in Nat
    BY <2>1, LookupsType, EnvironmentAssumption DEF TypeInv
  <2>4. Cached(n) \in DnsStatus \cup {NoDns}
    BY PartialElim DEF TypeInv, TypeOK, Transaction, Memory, State, Cached
  <2> DEFINE known == IF SameHost(Cached(n), p.host) THEN Cached(n) ELSE NewStatus(p.host)
             C == Candidates(p.family, answer.addresses)
             d == r.dns
  <2>5. known \in DnsStatus
    BY <2>1, <2>4 DEF SameHost, NewStatus, DnsStatus, Health
  <2>6. C \in SUBSET Address /\ answer.ttl \in Nat
    BY <2>3 DEF Candidates, Lookup
  <2>7. \/ C # {} /\ d = AcceptAnswer(known, C, answer.ttl, now, j)
        \/ /\ Cached(n) # NoDns
           /\ d = [Cached(n) EXCEPT !.status = "degraded", !.next = now + MinRefresh]
    BY <2>2 DEF ResolveInitial, SameHost
  <2> HIDE DEF known, C, d
  <2>8. CASE C # {} /\ d = AcceptAnswer(known, C, answer.ttl, now, j)
    BY <2>1, <2>2, <2>3, <2>5, <2>6, <2>8, AcceptInPace DEF d
  <2>9. CASE /\ Cached(n) # NoDns
             /\ d = [Cached(n) EXCEPT !.status = "degraded", !.next = now + MinRefresh]
    <3>1. d.status = "degraded" /\ d.next = now + MinRefresh
      BY <2>4, <2>9 DEF DnsStatus
    <3>2. QED
      BY <2>1, <2>2, <3>1, TimingAssumption DEF InPace, d
  <2>10. QED
    BY <2>7, <2>8, <2>9
<1>2. CASE p.kind # "fqdn"
  BY <1>2 DEF Resolutions, InPace
<1>3. QED
  BY <1>1, <1>2

\* A looked-up target is in pace, and has just been answered if it moves.
LEMMA RefreshedInPace ==
    ASSUME TypeInv, DestinationInv, NEW n \in Due,
           NEW answer \in Lookups(mem.active[n].dns.host)
    PROVE  LET new == Refreshed(mem.active[n], answer)
           IN  /\ InPace(new.dns, now)
               /\ mem.active[n].destination # new.destination => new.dns.written = now
<1> DEFINE a == mem.active[n]
           C == Candidates(a.profile.family, answer.addresses)
           e == RefreshStatus(a.dns, a.profile.family, answer, now)
<1>1. /\ a \in Active /\ a.dns \in DnsStatus /\ a.profile.family \in Family
      /\ now \in Nat /\ Aimed(a)
  <2>1. n \in DOMAIN mem.active /\ a \in Active /\ a.dns # NoDns
    BY PartialElim DEF TypeInv, TypeOK, Memory, Actives, Due
  <2>2. Aimed(a)
    BY <2>1 DEF DestinationInv, Sound, AllAimed
  <2>3. now \in Nat
    BY EnvironmentAssumption DEF TypeInv, TypeOK
  <2>4. QED
    BY <2>1, <2>2, <2>3 DEF Active, Profile
<1>2. a.dns.host \in Host
  BY <1>1 DEF DnsStatus
<1>3. a.destination = a.dns.address
  BY <1>1 DEF Aimed, Due
<1>4. answer \in Lookup
  BY <1>2, LookupsType DEF TypeInv
<1>5. C \in SUBSET Address /\ answer.ttl \in Nat
  BY <1>4 DEF Candidates, Lookup
<1>6. \/ C # {} /\ e = AcceptAnswer(a.dns, C, answer.ttl, now, 0)
      \/ e = RecordFailure(a.dns, now)
  BY DEF RefreshStatus
<1>7. Refreshed(a, answer) = [a EXCEPT !.destination = e.address, !.dns = e]
  BY DEF Refreshed
<1> HIDE DEF a, C, e
<1>8. Refreshed(a, answer).dns = e /\ Refreshed(a, answer).destination = e.address
  BY <1>1, <1>7 DEF Active
<1>9. CASE C # {} /\ e = AcceptAnswer(a.dns, C, answer.ttl, now, 0)
  BY <1>1, <1>5, <1>8, <1>9, AcceptInPace DEF a
<1>10. CASE e = RecordFailure(a.dns, now)
  <2>1. e.address = a.dns.address
    BY <1>1, <1>10, FailureType
  <2>2. InPace(e, now)
    BY <1>1, <1>10, FailureInPace
  <2>3. QED
    BY <1>3, <1>8, <2>1, <2>2 DEF a
<1>11. QED
  BY <1>6, <1>9, <1>10

LEMMA DegradedInPace ==
    ASSUME TypeInv, PaceInv, Degrade
    PROVE  AllInPace(Degraded, now)
<1>1. /\ Refreshing /\ txn.kind = "refresh" /\ txn.prior.active \in Actives
      /\ now \in Nat
  BY EnvironmentAssumption DEF Degrade, TypeInv, TypeOK, Shape, Transaction, Memory
<1>2. ASSUME NEW n \in DOMAIN txn.prior.active
      PROVE  InPace(Degraded[n].dns, now)
  <2> DEFINE a == txn.prior.active[n]
             t == txn.candidates[n].dns.written
  <2>1. a \in Active /\ InPace(a.dns, now)
    BY <1>1, PartialElim DEF Actives, PaceInv, AllInPace
  <2>2. CASE n \in Switched(txn.prior.active, txn.candidates)
    <3>1. a.dns \in DnsStatus /\ t \in Nat /\ t <= now
      BY <1>1, <2>2 DEF Refreshing, DnsStatus, PaceInv
    <3>2. Degraded[n] = [a EXCEPT !.dns = RecordFailure(a.dns, t)]
      BY <2>2 DEF Degraded
    <3> HIDE DEF a, t
    <3>3. Degraded[n].dns = RecordFailure(a.dns, t)
      BY <2>1, <3>2 DEF Active
    <3>4. QED
      BY <1>1, <3>1, <3>3, FailureInPace
  <2>3. CASE n \notin Switched(txn.prior.active, txn.candidates)
    BY <2>1, <2>3 DEF Degraded
  <2>4. QED
    BY <2>2, <2>3
<1>3. QED
  BY <1>2 DEF AllInPace, Degraded

LEMMA LoadConfigPace ==
    ASSUME TypeInv, PaceInv, LoadConfig, ~Abort
    PROVE  PaceInv'
<1>1. file # Unreadable /\ UNCHANGED <<mem, now>> /\ pc = "reload"
  BY DEF LoadConfig, environment
<1>2. PICK candidates \in [DOMAIN file.profiles ->
                             UNION {Resolutions(n, file.profiles[n]) :
                                      n \in DOMAIN file.profiles}] :
        /\ \A n \in DOMAIN file.profiles :
             candidates[n] \in Resolutions(n, file.profiles[n])
        /\ txn' = [txn EXCEPT !.candidates = candidates,
                              !.allow = file.allowExternal]
  BY DEF LoadConfig
<1>3. file \in Config
  BY <1>1, Zenon DEF TypeInv, TypeOK, Content
<1>4. /\ file.profiles \in PartialFunctions(Name, Profile)
      /\ \A n \in DOMAIN file.profiles : WellFormed(file.profiles[n])
  BY <1>3, ConfigAssumption
<1>5. \A n \in DOMAIN file.profiles : n \in Name /\ file.profiles[n] \in Profile
  BY <1>4, PartialElim
<1>6. txn'.prior = txn.prior /\ txn'.candidates = candidates /\ txn'.kind # "refresh"
  BY <1>1, <1>2 DEF TypeInv, TypeOK, Shape, Transaction
<1>7. ASSUME NEW n \in DOMAIN candidates PROVE InPace(candidates[n].dns, now)
  BY <1>2, <1>4, <1>5, ResolvedInPace
<1>8. QED
  BY <1>1, <1>6, <1>7 DEF PaceInv, AllInPace

LEMMA RefreshPace == ASSUME TypeInv, DestinationInv, PaceInv, Refresh PROVE PaceInv'
<1>1. UNCHANGED <<mem, now>> /\ mem \in Memory /\ now \in Nat
  BY EnvironmentAssumption DEF Refresh, environment, TypeInv, TypeOK
<1>2. PICK answer \in [Due -> UNION {Lookups(mem.active[n].dns.host) : n \in Due}] :
        LET candidates == [n \in DOMAIN mem.active |->
                             IF n \in Due THEN Refreshed(mem.active[n], answer[n])
                             ELSE mem.active[n]]
        IN  /\ \A n \in Due : answer[n] \in Lookups(mem.active[n].dns.host)
            /\ txn' = [Begin("refresh", mem) EXCEPT !.candidates = candidates]
  BY DEF Refresh
<1> DEFINE candidates == [n \in DOMAIN mem.active |->
                            IF n \in Due THEN Refreshed(mem.active[n], answer[n])
                            ELSE mem.active[n]]
<1>3. txn' = [Begin("refresh", mem) EXCEPT !.candidates = candidates]
  BY <1>2
<1>4. ASSUME NEW n \in DOMAIN mem.active
      PROVE  /\ InPace(candidates[n].dns, now)
             /\ mem.active[n].destination # candidates[n].destination =>
                   candidates[n].dns.written = now
  <2>1. CASE n \in Due
    BY <1>2, <2>1, RefreshedInPace
  <2>2. CASE n \notin Due
    BY <2>2 DEF PaceInv, AllInPace
  <2>3. QED
    BY <2>1, <2>2
<1>5. DOMAIN candidates = DOMAIN mem.active
  OBVIOUS
<1> HIDE DEF candidates
<1>6. txn'.prior = mem /\ txn'.candidates = candidates
  <2>1. Begin("refresh", mem) \in Transaction /\ Begin("refresh", mem).prior = mem
    BY <1>1, BeginType DEF TypeInv, Kind
  <2>2. QED
    BY <1>3, <2>1 DEF Transaction
<1>7. \A n \in Switched(mem.active, candidates) : candidates[n].dns.written <= now
  BY <1>1, <1>4 DEF Switched
<1>8. QED
  BY <1>1, <1>4, <1>5, <1>6, <1>7 DEF PaceInv, AllInPace

\* Steps that only move statuses about.
LEMMA MovingPace ==
    ASSUME TypeInv, PaceInv, UNCHANGED now,
           \/ mem' = mem \/ mem' = NoMemory \/ mem'.active = Nothing
           \/ mem'.active = txn.candidates,
           \/ txn' = NoTxn
           \/ /\ txn'.prior = txn.prior /\ txn'.candidates = txn.candidates
              /\ txn'.kind = txn.kind
           \/ /\ txn'.prior = mem' /\ txn'.candidates = Nothing /\ txn'.kind # "refresh"
    PROVE  PaceInv'
<1>1. AllInPace(mem'.active, now)
  BY EmptyInPace DEF PaceInv
<1>2. CASE txn' = NoTxn
  BY <1>1, <1>2, EmptyInPace DEF PaceInv
<1>3. CASE /\ txn'.prior = txn.prior /\ txn'.candidates = txn.candidates
           /\ txn'.kind = txn.kind
  BY <1>1, <1>3 DEF PaceInv
<1>4. CASE txn'.prior = mem' /\ txn'.candidates = Nothing /\ txn'.kind # "refresh"
  BY <1>1, <1>4, EmptyInPace DEF PaceInv
<1>5. QED
  BY <1>2, <1>3, <1>4

LEMMA CommitPace == ASSUME TypeInv, PaceInv, Commit PROVE PaceInv'
<1>1. UNCHANGED now
  BY DEF Commit, CheckHooks, PrepareBatch, NetworkPreflight, NftCheck, EnableOne,
         EnableFails, Apply, RollbackOne, RollbackEnds, RestoreOne, RestoreFails, Save,
         environment
<1>2. /\ \/ mem' = mem \/ mem' = NoMemory \/ mem'.active = txn.candidates
      /\ \/ UNCHANGED txn \/ txn' = NoTxn
         \/ txn' = [txn EXCEPT !.managed = (nft # NoTables)]
         \/ txn' = [txn EXCEPT !.adjusted = Adjusted, !.found = Found]
         \/ \E s : txn' = [txn EXCEPT !.todo = s]
  <2>1. ASSUME NEW m, EndWithError(m), m = mem \/ m.active = txn.candidates
        PROVE  /\ mem' = mem \/ mem' = NoMemory \/ mem'.active = txn.candidates
               /\ txn' = NoTxn \/ \E s : txn' = [txn EXCEPT !.todo = s]
    BY <2>1 DEF EndWithError
  <2>2. CASE Save
    <3> DEFINE next == [state |-> NextState, active |-> txn.candidates]
    <3>1. next.active = txn.candidates
      OBVIOUS
    <3>2. (mem' = next /\ txn' = NoTxn) \/ EndWithError(next)
      BY <2>2 DEF Save
    <3> HIDE DEF next
    <3>3. QED
      BY <2>1, <3>1, <3>2
  <2>3. CASE ~Save
    BY <2>1, <2>3
       DEF Commit, CheckHooks, PrepareBatch, NetworkPreflight, NftCheck, EnableOne,
           EnableFails, Apply, RollbackOne, RollbackEnds, RestoreOne, RestoreFails, Abort
  <2>4. QED
    BY <2>2, <2>3
<1>3. \/ txn' = NoTxn
      \/ /\ txn'.prior = txn.prior /\ txn'.candidates = txn.candidates
         /\ txn'.kind = txn.kind
  BY <1>2 DEF TypeInv, TypeOK, Transaction
<1>4. QED
  BY <1>1, <1>2, <1>3, MovingPace

LEMMA CyclePace ==
    ASSUME TypeInv, PaceInv, Reread \/ NoteStatuses \/ Degrade
    PROVE  PaceInv'
<1>1. UNCHANGED now
  BY DEF Reread, NoteStatuses, Degrade, environment
<1>2. CASE Reread
  <2>1. UNCHANGED mem /\ (txn' = NoTxn \/ txn' = [txn EXCEPT !.allow = file.allowExternal])
    BY <1>2 DEF Reread
  <2>2. \/ txn' = NoTxn
        \/ /\ txn'.prior = txn.prior /\ txn'.candidates = txn.candidates
           /\ txn'.kind = txn.kind
    BY <2>1 DEF TypeInv, TypeOK, Transaction
  <2>3. QED
    BY <1>1, <2>1, <2>2, MovingPace
<1>3. CASE NoteStatuses
  BY <1>1, <1>3, MovingPace DEF NoteStatuses, SaveRefreshOnly
<1>4. CASE Degrade
  <2>1. AllInPace(mem'.active, now)
    BY <1>4, DegradedInPace DEF Degrade, SaveRefreshOnly, PaceInv
  <2>2. QED
    BY <1>1, <1>4, <2>1, EmptyInPace DEF Degrade, PaceInv
<1>5. QED
  BY <1>2, <1>3, <1>4

LEMMA PaceStep ==
    ASSUME TypeInv, DestinationInv, PaceInv, [Next]_vars
    PROVE  PaceInv'
<1>1. CASE Start
  <2>1. mem'.active = Nothing /\ txn' = Begin("startup", mem') /\ UNCHANGED now
    BY <1>1 DEF Start, environment
  <2>2. txn'.prior = mem' /\ txn'.candidates = Nothing /\ txn'.kind # "refresh"
    BY <2>1 DEF Begin, NoTxn
  <2>3. QED
    BY <2>1, <2>2, MovingPace
<1>2. CASE ReceiveApply
  <2>1. mem' = mem /\ txn' = Begin("apply", mem) /\ UNCHANGED now
    BY <1>2 DEF ReceiveApply, environment
  <2>2. txn'.prior = mem' /\ txn'.candidates = Nothing /\ txn'.kind # "refresh"
    BY <2>1 DEF Begin, NoTxn
  <2>3. QED
    BY <2>1, <2>2, MovingPace
<1>3. CASE LoadConfig /\ Abort
  <2>1. mem' = mem \/ mem' = NoMemory
    BY <1>3 DEF Abort, EndWithError
  <2>2. txn' = NoTxn \/ txn' = [txn EXCEPT !.todo = {}]
    BY <1>3 DEF Abort, EndWithError
  <2>3. \/ txn' = NoTxn
        \/ /\ txn'.prior = txn.prior /\ txn'.candidates = txn.candidates
           /\ txn'.kind = txn.kind
    BY <2>2 DEF TypeInv, TypeOK, Transaction
  <2>4. QED
    BY <1>3, <2>1, <2>3, MovingPace DEF LoadConfig, environment
<1>4. CASE LoadConfig /\ ~Abort
  BY <1>4, LoadConfigPace
<1>5. CASE Commit
  BY <1>5, CommitPace
<1>6. CASE RefreshCycle
  BY <1>6, RefreshPace, CyclePace DEF RefreshCycle
<1>7. CASE Stop \/ Reboot
  BY <1>7, MovingPace DEF Stop, Reboot, environment
<1>8. CASE Tick
  <2>1. now \in Nat /\ now' = now + 1 /\ UNCHANGED <<mem, txn>>
    BY <1>8, EnvironmentAssumption DEF Tick, TypeInv, TypeOK
  <2>2. mem.active \in Actives /\ txn.prior.active \in Actives /\ txn.candidates \in Actives
    BY DEF TypeInv, TypeOK, Memory, Transaction
  <2>3. txn.kind = "refresh" =>
          \A n \in Switched(txn.prior.active, txn.candidates) :
              txn.candidates[n].dns.written \in Nat
    BY DEF TypeInv, Shape, Refreshing, DnsStatus
  <2>4. QED
    BY <2>1, <2>2, <2>3, PaceLasts DEF PaceInv
<1>9. CASE FlushRuleset \/ LoseStateFile \/ EditConfig \/ MoveAddresses
           \/ ForeignChains \/ ChangeZone \/ UNCHANGED vars
  <2>1. UNCHANGED <<mem, txn, now>>
    BY <1>9 DEF FlushRuleset, LoseStateFile, EditConfig, MoveAddresses, ForeignChains,
                ChangeZone, vars, environment
  <2>2. QED
    BY <2>1 DEF PaceInv
<1>10. QED
  BY <1>1, <1>2, <1>3, <1>4, <1>5, <1>6, <1>7, <1>8, <1>9
     DEF Next, Reload, Failure, Environment

\* No target is forgotten and none is hurried, under every fault: what memory holds,
\* what a refresh would put back and what a commit would publish are all in pace.
THEOREM TargetsLookedUpInPace == Spec => []LookupsInPace
<1>1. Init => PaceInv
  BY EmptyInPace DEF Init, PaceInv
<1>2. TypeInv /\ DestinationInv /\ PaceInv /\ [Next]_vars => PaceInv'
  BY PaceStep
<1>3. PaceInv => LookupsInPace
  BY DEF PaceInv, AllInPace, InPace, LookupsInPace
<1>4. QED
  BY <1>1, <1>2, <1>3, TypeInvariant, DestinationInvariant, PTL DEF Spec
=============================================================================
