------------------------- MODULE DestinationProofs -------------------------
(* That port-forwardd never installs a destination nobody answered:            *)
(* InstalledDestinationsMatch for any configurations, resolver answers, edits, *)
(* crashes, lost files and failing commands.  A restored cache entry is        *)
(* compared with the host alone (resolve_initial), so the address owes the     *)
(* first half to how entries get into the cache and the second to nft.         *)
EXTENDS DaemonProofs

\* An address remembered for a host is no forbidden one and was answered for it.
Honest(d) ==
    (d # NoDns /\ d.address # NoAddress) =>
        d.address \notin Forbidden /\ \E z \in Zone : d.address \in z[d.host]

\* An active profile sends packets where it says, or where its own host is.
Aimed(a) ==
    /\ WellFormed(a.profile)
    /\ a.profile.kind = "literal" => a.destination = a.profile.address
    /\ a.profile.kind = "fqdn" =>
          /\ a.dns # NoDns /\ a.dns.host = a.profile.host /\ Honest(a.dns)
          /\ a.destination = a.dns.address /\ a.destination # NoAddress
    /\ a.profile.kind # "fqdn" => a.dns = NoDns

AllHonest(statuses) == \A n \in DOMAIN statuses : Honest(statuses[n])
AllAimed(actives) == \A n \in DOMAIN actives : Aimed(actives[n])
Sound(memory) == AllHonest(memory.state.dns) /\ AllAimed(memory.active)

\* Every place an address may later be taken from, the disk included.
DestinationInv ==
    /\ AllHonest(Loaded.dns)
    /\ Sound(mem) /\ Sound(txn.prior) /\ AllAimed(txn.candidates)
    /\ InstalledDestinationsMatch

--------------------------------------------------------------------------
(* Answers                                                                  *)

\* An accepted answer is honest about the host it was asked for.
LEMMA AcceptHonest ==
    ASSUME NEW d \in DnsStatus, NEW z \in Zone, NEW C \in SUBSET Address, C # {},
           \A a \in C : a \in z[d.host] /\ a \notin Forbidden,
           NEW ttl \in Nat, NEW t \in Nat, NEW jitter \in Nat
    PROVE  LET e == AcceptAnswer(d, C, ttl, t, jitter)
           IN  e.host = d.host /\ e.address # NoAddress /\ e # NoDns /\ Honest(e)
<1> DEFINE e == AcceptAnswer(d, C, ttl, t, jitter)
<1>1. e.host = d.host
  BY DEF AcceptAnswer, DnsStatus
<1>2. e \in DnsStatus /\ e.address \in C
  BY AcceptType
<1> HIDE DEF e
<1>3. e.address \in z[e.host] /\ e.address \notin Forbidden
  BY <1>1, <1>2
<1>4. e.address # NoAddress
  BY <1>2, AddressAssumption
<1>5. e # NoDns
  BY <1>2, SentinelAssumption
<1>6. QED
  BY <1>1, <1>3, <1>4, <1>5 DEF Honest, e

\* The candidates of an answer are permitted addresses of it.
LEMMA CandidatesPermitted ==
    ASSUME NEW family, NEW addresses \in SUBSET Address
    PROVE  /\ Candidates(family, addresses) \in SUBSET Address
           /\ \A a \in Candidates(family, addresses) : a \in addresses /\ a \notin Forbidden
BY DEF Candidates, Permitted

\* A recorded failure changes neither host nor address.
LEMMA FailureHonest ==
    ASSUME NEW d \in DnsStatus, NEW t \in Nat, Honest(d)
    PROVE  /\ RecordFailure(d, t).host = d.host
           /\ RecordFailure(d, t).address = d.address
           /\ RecordFailure(d, t) # NoDns /\ Honest(RecordFailure(d, t))
<1>1. RecordFailure(d, t).host = d.host
  BY DEF RecordFailure, DnsStatus
<1>2. RecordFailure(d, t) \in DnsStatus /\ RecordFailure(d, t).address = d.address
  BY FailureType
<1>3. RecordFailure(d, t) # NoDns /\ d # NoDns
  BY <1>2, SentinelAssumption
<1>4. QED
  BY <1>1, <1>2, <1>3 DEF Honest

\* What a lookup of a host returns comes from the zone.
LEMMA LookupsFromZone ==
    ASSUME TypeOK, NEW host \in Host, NEW answer \in Lookups(host)
    PROVE  /\ answer \in Lookup /\ zone \in Zone /\ zone[host] \in SUBSET Address
           /\ answer.ok => answer.addresses = zone[host]
<1>1. answer \in Lookup /\ zone \in Zone /\ zone[host] \in SUBSET Address
  BY LookupsType, EnvironmentAssumption DEF TypeOK
<1>2. answer = LookupFailed \/ \E ttl \in Ttl : answer = Answer(zone[host], ttl)
  BY Zenon DEF Lookups
<1>3. answer.ok => answer.addresses = zone[host]
  BY <1>2 DEF LookupFailed, Answer
<1>4. QED
  BY <1>1, <1>3

\* resolve_initial: a fresh answer for the host, or the host's own cache entry.
LEMMA ResolveHonest ==
    ASSUME TypeInv, NEW host \in Host, NEW family \in Family,
           NEW cached \in DnsStatus \cup {NoDns}, Honest(cached),
           NEW answer \in Lookups(host), NEW jitter \in Nat,
           NEW d \in ResolveInitial(host, family, cached, answer, now, jitter)
    PROVE  d # NoDns /\ d.host = host /\ d.address # NoAddress /\ Honest(d)
<1>1. /\ answer \in Lookup /\ zone \in Zone /\ zone[host] \in SUBSET Address
      /\ answer.ok => answer.addresses = zone[host]
  BY LookupsFromZone DEF TypeInv
<1>2. now \in Nat
  BY EnvironmentAssumption DEF TypeInv, TypeOK
<1> DEFINE known == IF SameHost(cached, host) THEN cached ELSE NewStatus(host)
<1>3. known \in DnsStatus /\ known.host = host
  BY DEF SameHost, NewStatus, DnsStatus, Health
<1>4. CASE answer.ok
  <2> DEFINE C == Candidates(family, zone[host])
  <2>1. /\ C # {} /\ answer.ttl \in Nat
        /\ d = AcceptAnswer(known, C, answer.ttl, now, jitter)
    BY <1>1, <1>4 DEF ResolveInitial, Lookup
  <2>2. C \in SUBSET Address /\ \A a \in C : a \in zone[host] /\ a \notin Forbidden
    BY <1>1, CandidatesPermitted
  <2> HIDE DEF known, C
  <2>3. QED
    BY <1>1, <1>2, <1>3, <2>1, <2>2, AcceptHonest
<1>5. CASE ~answer.ok
  <2>1. /\ SameHost(cached, host) /\ CanRestoreCache(cached, now)
        /\ d = [cached EXCEPT !.status = "degraded", !.next = now + MinRefresh]
    BY <1>5 DEF ResolveInitial
  <2>2. cached \in DnsStatus /\ cached.host = host /\ cached.address # NoAddress
    BY <2>1 DEF SameHost, CanRestoreCache
  <2>3. d.host = host /\ d.address = cached.address
    BY <2>1, <2>2 DEF DnsStatus
  <2>4. d \in DnsStatus /\ d # NoDns
    BY <1>1, <1>2, InitialType, SentinelAssumption
  <2>5. QED
    BY <2>2, <2>3, <2>4, SentinelAssumption DEF Honest
<1>6. QED
  BY <1>4, <1>5

\* One due target of refresh_due_dns.
LEMMA RefreshHonest ==
    ASSUME TypeInv, NEW d \in DnsStatus, Honest(d), d.address # NoAddress,
           NEW family \in Family, NEW answer \in Lookups(d.host),
           NEW e, e = RefreshStatus(d, family, answer, now)
    PROVE  e # NoDns /\ e.host = d.host /\ e.address # NoAddress /\ Honest(e)
<1>1. d.host \in Host
  BY DEF DnsStatus
<1>2. /\ answer \in Lookup /\ zone \in Zone /\ zone[d.host] \in SUBSET Address
      /\ answer.ok => answer.addresses = zone[d.host]
  BY <1>1, LookupsFromZone DEF TypeInv
<1>3. now \in Nat /\ answer.ttl \in Nat /\ 0 \in Nat
  BY <1>2, EnvironmentAssumption DEF TypeInv, TypeOK, Lookup
<1> DEFINE C == Candidates(family, zone[d.host])
<1>4. C \in SUBSET Address /\ \A a \in C : a \in zone[d.host] /\ a \notin Forbidden
  BY <1>2, CandidatesPermitted
<1>5. e = IF answer.ok /\ C # {} THEN AcceptAnswer(d, C, answer.ttl, now, 0)
          ELSE RecordFailure(d, now)
  BY <1>2 DEF RefreshStatus
<1> HIDE DEF C
<1>6. CASE answer.ok /\ C # {}
  BY <1>2, <1>3, <1>4, <1>5, <1>6, AcceptHonest
<1>7. CASE ~ (answer.ok /\ C # {})
  BY <1>3, <1>5, <1>7, FailureHonest
<1>8. QED
  BY <1>6, <1>7

--------------------------------------------------------------------------
(* Active profiles                                                          *)

\* What aimed profiles leave in state.json is honest.
LEMMA StatusesHonest ==
    ASSUME NEW actives, AllAimed(actives)
    PROVE  AllHonest(Statuses(actives))
BY DEF AllAimed, Aimed, AllHonest, Statuses, Honest

\* The initial contents of memory and of a transaction.
LEMMA EmptySound ==
    /\ Sound(NoMemory) /\ AllAimed(Nothing) /\ AllHonest(EmptyState.dns)
    /\ NoTxn.prior = NoMemory /\ NoTxn.candidates = Nothing
BY DEF Sound, NoMemory, EmptyState, Nothing, AllAimed, AllHonest, NoTxn

\* build_active_profiles aims every profile.
LEMMA ResolutionAimed ==
    ASSUME TypeInv, DestinationInv, NEW n \in Name, NEW p \in Profile, WellFormed(p),
           NEW r \in Resolutions(n, p)
    PROVE  Aimed(r)
<1>1. CASE p.kind = "fqdn"
  <2>1. p.host \in Host /\ p.family \in Family
    BY <1>1 DEF WellFormed, Profile
  <2>2. Cached(n) \in DnsStatus \cup {NoDns} /\ Honest(Cached(n))
    <3>1. /\ txn.prior.state.dns \in PartialFunctions(Name, DnsStatus \cup {NoDns})
          /\ AllHonest(txn.prior.state.dns)
      BY DEF TypeInv, TypeOK, Transaction, Memory, State, DestinationInv, Sound
    <3>2. Honest(NoDns)
      BY DEF Honest
    <3>3. QED
      BY <3>1, <3>2, PartialElim DEF Cached, AllHonest
  <2>3. PICK answer \in Lookups(p.host), j \in Jitter :
          \E d \in ResolveInitial(p.host, p.family, Cached(n), answer, now, j) :
            r = [profile |-> p, destination |-> d.address, dns |-> d]
    BY <1>1 DEF Resolutions
  <2>4. PICK d \in ResolveInitial(p.host, p.family, Cached(n), answer, now, j) :
          r = [profile |-> p, destination |-> d.address, dns |-> d]
    BY <2>3
  <2>5. j \in Nat
    BY EnvironmentAssumption
  <2>6. d # NoDns /\ d.host = p.host /\ d.address # NoAddress /\ Honest(d)
    BY <2>1, <2>2, <2>5, ResolveHonest
  <2>7. QED
    BY <1>1, <2>4, <2>6 DEF Aimed
<1>2. CASE p.kind # "fqdn"
  BY <1>2 DEF Resolutions, Aimed
<1>3. QED
  BY <1>1, <1>2

\* A refreshed target stays aimed at its host.
LEMMA RefreshedAimed ==
    ASSUME TypeInv, DestinationInv, NEW n \in Due,
           NEW answer \in Lookups(mem.active[n].dns.host)
    PROVE  Aimed(Refreshed(mem.active[n], answer))
<1>1. n \in DOMAIN mem.active /\ mem.active[n] \in Active /\ mem.active[n].dns # NoDns
  BY PartialElim DEF TypeInv, TypeOK, Memory, Actives, Due
<1>2. Aimed(mem.active[n])
  BY <1>1 DEF DestinationInv, Sound, AllAimed
<1>3. /\ mem.active[n].profile.kind = "fqdn" /\ mem.active[n].dns \in DnsStatus
      /\ mem.active[n].profile.family \in Family
      /\ Honest(mem.active[n].dns) /\ mem.active[n].dns.address # NoAddress
  BY <1>1, <1>2 DEF Aimed, Active, Profile
<1> DEFINE e == RefreshStatus(mem.active[n].dns, mem.active[n].profile.family, answer, now)
<1>4. e # NoDns /\ e.host = mem.active[n].dns.host /\ e.address # NoAddress /\ Honest(e)
  BY <1>3, RefreshHonest
<1>5. Refreshed(mem.active[n], answer) =
        [mem.active[n] EXCEPT !.destination = e.address, !.dns = e]
  BY DEF Refreshed
<1> HIDE DEF e
<1>6. QED
  BY <1>1, <1>2, <1>3, <1>4, <1>5 DEF Aimed, Active

\* And a degraded one where it was.
LEMMA DegradedAimed ==
    ASSUME TypeInv, DestinationInv, Degrade
    PROVE  AllAimed(Degraded)
<1>1. Refreshing /\ txn.prior.active \in Actives
  BY DEF Degrade, TypeInv, TypeOK, Shape, Transaction, Memory
<1>2. \A n \in DOMAIN txn.prior.active :
        txn.prior.active[n] \in Active /\ Aimed(txn.prior.active[n])
  BY <1>1, PartialElim DEF Actives, DestinationInv, Sound, AllAimed
<1>3. ASSUME NEW n \in Switched(txn.prior.active, txn.candidates)
      PROVE  Aimed([txn.prior.active[n] EXCEPT
                      !.dns = RecordFailure(@, txn.candidates[n].dns.written)])
  <2> DEFINE a == txn.prior.active[n]
             e == RecordFailure(a.dns, txn.candidates[n].dns.written)
  <2>1. a \in Active /\ Aimed(a) /\ a.dns \in DnsStatus
        /\ txn.candidates[n].dns.written \in Nat
    BY <1>1, <1>2 DEF Refreshing, DnsStatus, Switched
  <2>2. a.profile.kind = "fqdn" /\ Honest(a.dns)
    BY <2>1, SentinelAssumption DEF Aimed
  <2>3. e.host = a.dns.host /\ e.address = a.dns.address /\ e # NoDns /\ Honest(e)
    BY <2>1, <2>2, FailureHonest
  <2> HIDE DEF e
  <2>4. Aimed([a EXCEPT !.dns = e])
    BY <2>1, <2>2, <2>3 DEF Aimed, Active
  <2>5. QED
    BY <2>4 DEF e
<1>4. \A n \in DOMAIN Degraded : Aimed(Degraded[n])
  BY <1>2, <1>3 DEF Degraded
<1>5. QED
  BY <1>4 DEF AllAimed

--------------------------------------------------------------------------
(* Steps                                                                    *)

\* A step that leaves rules and disk alone needs a look at memory only.
LEMMA QuietSound ==
    ASSUME DestinationInv, UNCHANGED <<nft, disk>>,
           Sound(mem'), Sound(txn'.prior), AllAimed(txn'.candidates)
    PROVE  DestinationInv'
<1>1. Loaded' = Loaded
  BY DEF Loaded
<1>2. InstalledDestinationsMatch'
  BY DEF DestinationInv, InstalledDestinationsMatch
<1>3. QED
  BY <1>1, <1>2 DEF DestinationInv, Sound, AllHonest, AllAimed

\* A transaction that changes other local variables than these two.
LEMMA LocalSound ==
    ASSUME DestinationInv, UNCHANGED <<nft, disk, mem>>,
           txn'.prior = txn.prior, txn'.candidates = txn.candidates
    PROVE  DestinationInv'
BY QuietSound DEF DestinationInv

\* An error ends the transaction with a memory that may be old or new.
LEMMA ErrorSound ==
    ASSUME TypeInv, DestinationInv, NEW m, Sound(m), EndWithError(m), UNCHANGED nft
    PROVE  DestinationInv'
<1>1. UNCHANGED disk /\ (mem' = m \/ mem' = NoMemory)
      /\ (txn' = NoTxn \/ txn' = [txn EXCEPT !.todo = {}])
  BY DEF EndWithError
<1>2. \/ txn'.prior = NoMemory /\ txn'.candidates = Nothing
      \/ txn'.prior = txn.prior /\ txn'.candidates = txn.candidates
  BY <1>1, EmptySound DEF TypeInv, TypeOK, Transaction
<1>3. QED
  BY <1>1, <1>2, EmptySound, QuietSound DEF DestinationInv

LEMMA StartSound == ASSUME TypeInv, DestinationInv, Start PROVE DestinationInv'
<1>1. mem' = [state |-> Loaded, active |-> Nothing] /\ txn' = Begin("startup", mem')
      /\ UNCHANGED <<nft, disk>>
  BY DEF Start, kernel
<1>2. Sound(mem')
  BY <1>1, EmptySound DEF Sound, DestinationInv
<1>3. txn'.prior = mem' /\ txn'.candidates = Nothing
  BY <1>1 DEF Begin, NoTxn
<1>4. QED
  BY <1>1, <1>2, <1>3, EmptySound, QuietSound

LEMMA ReceiveApplySound == ASSUME TypeInv, DestinationInv, ReceiveApply PROVE DestinationInv'
<1>1. txn' = Begin("apply", mem) /\ UNCHANGED <<nft, disk, mem>>
  BY DEF ReceiveApply, kernel
<1>2. txn'.prior = mem /\ txn'.candidates = Nothing
  BY <1>1 DEF Begin, NoTxn
<1>3. QED
  BY <1>1, <1>2, EmptySound, QuietSound DEF DestinationInv

LEMMA LoadConfigSound == ASSUME TypeInv, DestinationInv, LoadConfig PROVE DestinationInv'
<1>1. CASE Abort
  BY <1>1, ErrorSound DEF Abort, LoadConfig, kernel, DestinationInv
<1>2. CASE ~Abort
  <2>1. file # Unreadable /\ UNCHANGED <<nft, disk, mem>>
    BY <1>2 DEF LoadConfig, kernel
  <2>2. PICK candidates \in [DOMAIN file.profiles ->
                               UNION {Resolutions(n, file.profiles[n]) :
                                        n \in DOMAIN file.profiles}] :
          /\ \A n \in DOMAIN file.profiles :
               candidates[n] \in Resolutions(n, file.profiles[n])
          /\ txn' = [txn EXCEPT !.candidates = candidates,
                                !.allow = file.allowExternal]
    BY <1>2 DEF LoadConfig
  <2>3. file \in Config
    BY <2>1, Zenon DEF TypeInv, TypeOK, Content
  <2>4. /\ file.profiles \in PartialFunctions(Name, Profile)
        /\ \A n \in DOMAIN file.profiles : WellFormed(file.profiles[n])
    BY <2>3, ConfigAssumption
  <2>5. \A n \in DOMAIN file.profiles : n \in Name /\ file.profiles[n] \in Profile
    BY <2>4, PartialElim
  <2>6. AllAimed(candidates)
    BY <2>2, <2>4, <2>5, ResolutionAimed DEF AllAimed
  <2>7. txn'.prior = txn.prior /\ txn'.candidates = candidates
    BY <2>2 DEF TypeInv, TypeOK, Transaction
  <2>8. QED
    BY <2>1, <2>6, <2>7, QuietSound DEF DestinationInv
<1>3. QED
  BY <1>1, <1>2

\* Steps of the commit that change no more than sysctls and local variables.
LEMMA CommitStepSound ==
    ASSUME TypeInv, DestinationInv,
           \/ CheckHooks \/ PrepareBatch \/ NetworkPreflight \/ NftCheck
           \/ EnableOne \/ EnableFails \/ RollbackOne \/ RollbackEnds
           \/ RestoreOne \/ RestoreFails
    PROVE  DestinationInv'
<1>1. UNCHANGED nft
  BY DEF CheckHooks, PrepareBatch, NetworkPreflight, NftCheck, EnableOne,
         EnableFails, RollbackOne, RollbackEnds, RestoreOne, RestoreFails, kernel
<1>2. CASE Abort
  BY <1>1, <1>2, ErrorSound DEF Abort, DestinationInv
<1>3. CASE ~Abort
  <2>1. UNCHANGED <<disk, mem>>
    BY <1>3 DEF CheckHooks, PrepareBatch, NetworkPreflight, NftCheck, EnableOne,
                EnableFails, RollbackOne, RollbackEnds, RestoreOne, RestoreFails
  <2>2. \/ UNCHANGED txn
        \/ txn' = [txn EXCEPT !.managed = (nft # NoTables)]
        \/ txn' = [txn EXCEPT !.adjusted = Adjusted, !.found = Found]
        \/ \E s : txn' = [txn EXCEPT !.todo = s]
    BY <1>3 DEF CheckHooks, PrepareBatch, NetworkPreflight, NftCheck, EnableOne,
                EnableFails, RollbackOne, RollbackEnds, RestoreOne, RestoreFails
  <2>3. txn'.prior = txn.prior /\ txn'.candidates = txn.candidates
    BY <2>2 DEF TypeInv, TypeOK, Transaction
  <2>4. QED
    BY <1>1, <2>1, <2>3, LocalSound
<1>4. QED
  BY <1>2, <1>3

\* nft -f: the candidates are aimed, and nft accepts only their tables' family.
LEMMA ApplySound == ASSUME TypeInv, DestinationInv, Apply PROVE DestinationInv'
<1>1. UNCHANGED <<disk, mem>> /\ \E s : txn' = [txn EXCEPT !.todo = s]
  BY DEF Apply
<1>2. txn'.prior = txn.prior /\ txn'.candidates = txn.candidates
  BY <1>1 DEF TypeInv, TypeOK, Transaction
<1>3. CASE UNCHANGED nft
  BY <1>1, <1>2, <1>3, LocalSound
<1>4. CASE Loadable /\ nft' = Rules(txn.candidates)
  <2>1. txn.candidates \in Actives /\ AllAimed(txn.candidates)
    BY DEF TypeInv, TypeOK, Transaction, DestinationInv
  <2>2. ASSUME NEW n \in DOMAIN txn.candidates
        PROVE  LET p == txn.candidates[n].profile  d == txn.candidates[n].destination IN
               /\ p.kind \in {"literal", "fqdn"} => d # NoAddress /\ Permitted(p.family, d)
               /\ p.kind = "fqdn" => \E z \in Zone : d \in z[p.host]
    <3> DEFINE a == txn.candidates[n]
    <3>1. a \in Active /\ Aimed(a) /\ a \in Candidate
      BY <2>1, PartialElim DEF Actives, AllAimed, Candidate
    <3>2. a.destination # NoAddress => FamilyOf[a.destination] = a.profile.family
      BY <1>4, <3>1 DEF Loadable
    <3> HIDE DEF a
    <3>3. CASE a.profile.kind = "literal"
      BY <3>1, <3>3 DEF Aimed, WellFormed, a
    <3>4. CASE a.profile.kind = "fqdn"
      BY <3>1, <3>2, <3>4 DEF Aimed, Honest, Permitted, a
    <3>5. QED
      BY <3>3, <3>4 DEF a
  <2>3. InstalledDestinationsMatch'
    BY <1>4, <2>2 DEF InstalledDestinationsMatch, Rules
  <2>4. QED
    BY <1>1, <1>2, <2>3 DEF DestinationInv, Loaded, Sound, AllHonest, AllAimed
<1>5. QED
  BY <1>3, <1>4 DEF Apply

LEMMA SaveSound == ASSUME TypeInv, DestinationInv, Save PROVE DestinationInv'
<1> DEFINE next == [state |-> NextState, active |-> txn.candidates]
<1>1. AllHonest(NextState.dns)
  BY StatusesHonest DEF NextState, DestinationInv
<1>2. Sound(next)
  BY <1>1 DEF Sound, DestinationInv
<1>3. UNCHANGED nft
  BY DEF Save, kernel
<1>4. CASE EndWithError(next)
  BY <1>2, <1>3, <1>4, ErrorSound
<1>5. CASE disk' = NextState /\ mem' = next /\ txn' = NoTxn
  <2>1. AllHonest(Loaded'.dns)
    BY <1>1, <1>5, EmptySound DEF Loaded
  <2>2. InstalledDestinationsMatch'
    BY <1>3 DEF DestinationInv, InstalledDestinationsMatch
  <2>3. Sound(mem') /\ Sound(txn'.prior) /\ AllAimed(txn'.candidates)
    BY <1>2, <1>5, EmptySound
  <2>4. QED
    BY <2>1, <2>2, <2>3 DEF DestinationInv, Sound, AllHonest, AllAimed
<1>6. QED
  BY <1>4, <1>5 DEF Save

LEMMA RefreshSound == ASSUME TypeInv, DestinationInv, Refresh PROVE DestinationInv'
<1>1. UNCHANGED <<nft, disk, mem>>
  BY DEF Refresh, kernel
<1>2. PICK answer \in [Due -> UNION {Lookups(mem.active[n].dns.host) : n \in Due}] :
        LET candidates == [n \in DOMAIN mem.active |->
                             IF n \in Due THEN Refreshed(mem.active[n], answer[n])
                             ELSE mem.active[n]]
        IN  /\ \A n \in Due : answer[n] \in Lookups(mem.active[n].dns.host)
            /\ txn' = [Begin("refresh", mem) EXCEPT !.candidates = candidates]
  BY DEF Refresh
<1> DEFINE candidates == [n \in DOMAIN mem.active |->
                            IF n \in Due THEN Refreshed(mem.active[n], answer[n])
                            ELSE mem.active[n]]
<1>3. \A n \in Due : Aimed(Refreshed(mem.active[n], answer[n]))
  BY <1>2, RefreshedAimed
<1>4. AllAimed(mem.active)
  BY DEF DestinationInv, Sound
<1>5. AllAimed(candidates)
  BY <1>3, <1>4 DEF AllAimed
<1>6. txn' = [Begin("refresh", mem) EXCEPT !.candidates = candidates]
  BY <1>2
<1> HIDE DEF candidates
<1>7. txn'.prior = mem /\ txn'.candidates = candidates
  <2>1. Begin("refresh", mem) \in Transaction /\ Begin("refresh", mem).prior = mem
    BY BeginType DEF TypeInv, TypeOK, Kind
  <2>2. QED
    BY <1>6, <2>1 DEF Transaction
<1>8. QED
  BY <1>1, <1>5, <1>7, QuietSound DEF DestinationInv

LEMMA RereadSound == ASSUME TypeInv, DestinationInv, Reread PROVE DestinationInv'
<1>1. UNCHANGED <<nft, disk, mem>>
      /\ (txn' = NoTxn \/ txn' = [txn EXCEPT !.allow = file.allowExternal])
  BY DEF Reread, kernel
<1>2. \/ txn'.prior = NoMemory /\ txn'.candidates = Nothing
      \/ txn'.prior = txn.prior /\ txn'.candidates = txn.candidates
  BY <1>1, EmptySound DEF TypeInv, TypeOK, Transaction
<1>3. QED
  BY <1>1, <1>2, EmptySound, QuietSound DEF DestinationInv

\* save_refresh_only, with the refreshed statuses or with the degraded ones.
LEMMA SaveRefreshSound ==
    ASSUME TypeInv, DestinationInv, NoteStatuses \/ Degrade
    PROVE  DestinationInv'
<1>1. PICK active : AllAimed(active) /\ SaveRefreshOnly(active)
  BY DegradedAimed DEF NoteStatuses, Degrade, DestinationInv
<1> DEFINE next == [txn.prior.state EXCEPT !.dns = Statuses(active)]
<1>2. next.dns = Statuses(active)
  BY DEF TypeInv, TypeOK, Transaction, Memory, State
<1>3. \/ disk' = next /\ mem' = [state |-> next, active |-> active]
      \/ UNCHANGED <<disk, mem>>
  BY <1>1 DEF SaveRefreshOnly
<1> HIDE DEF next
<1>4. AllHonest(next.dns) /\ Sound([state |-> next, active |-> active])
  BY <1>1, <1>2, StatusesHonest DEF Sound
<1>5. txn' = NoTxn /\ UNCHANGED nft
  BY DEF NoteStatuses, Degrade, kernel
<1>6. AllHonest(Loaded'.dns)
  BY <1>3, <1>4, EmptySound DEF Loaded, DestinationInv
<1>7. Sound(mem') /\ Sound(txn'.prior) /\ AllAimed(txn'.candidates)
  BY <1>3, <1>4, <1>5, EmptySound DEF DestinationInv
<1>8. InstalledDestinationsMatch'
  BY <1>5 DEF DestinationInv, InstalledDestinationsMatch
<1>9. QED
  BY <1>6, <1>7, <1>8 DEF DestinationInv, Sound, AllHonest, AllAimed

\* Crashes, reboots, lost files and the environment add no address anywhere.
LEMMA AroundSound ==
    ASSUME TypeInv, DestinationInv, Failure \/ Environment \/ UNCHANGED vars
    PROVE  DestinationInv'
<1>1. CASE Stop \/ Reboot
  <2>1. mem' = NoMemory /\ txn' = NoTxn /\ UNCHANGED disk
        /\ (UNCHANGED nft \/ nft' = NoTables)
    BY <1>1 DEF Stop, Reboot, kernel
  <2>2. InstalledDestinationsMatch'
    BY <2>1 DEF DestinationInv, InstalledDestinationsMatch
  <2>3. Loaded' = Loaded
    BY <2>1 DEF Loaded
  <2>4. QED
    BY <2>1, <2>2, <2>3, EmptySound DEF DestinationInv, Sound, AllHonest, AllAimed
<1>2. CASE LoseStateFile
  <2>1. disk' \in {Absent, Corrupt} /\ UNCHANGED <<nft, mem, txn>>
    BY <1>2 DEF LoseStateFile, kernel
  <2>2. AllHonest(Loaded'.dns)
    BY <2>1, EmptySound DEF Loaded
  <2>3. QED
    BY <2>1, <2>2 DEF DestinationInv, Sound, AllHonest, AllAimed, InstalledDestinationsMatch
<1>3. CASE FlushRuleset \/ Environment \/ UNCHANGED vars
  <2>1. UNCHANGED <<disk, mem, txn>> /\ (UNCHANGED nft \/ nft' = NoTables)
    BY <1>3 DEF FlushRuleset, Environment, EditConfig, MoveAddresses, ForeignChains,
                ChangeZone, Tick, vars, kernel
  <2>2. InstalledDestinationsMatch'
    BY <2>1 DEF DestinationInv, InstalledDestinationsMatch
  <2>3. QED
    BY <2>1, <2>2 DEF DestinationInv, Loaded, Sound, AllHonest, AllAimed
<1>4. QED
  BY <1>1, <1>2, <1>3 DEF Failure

\* Addresses enter the daemon only as answers, wherever they are kept.
THEOREM DestinationInvariant == Spec => []DestinationInv
<1>1. Init => DestinationInv
  BY EmptySound
     DEF Init, DestinationInv, Loaded, InstalledDestinationsMatch
<1>2. TypeInv /\ DestinationInv /\ [Next]_vars => DestinationInv'
  BY StartSound, ReceiveApplySound, LoadConfigSound, CommitStepSound, ApplySound, SaveSound,
     RefreshSound, RereadSound, SaveRefreshSound, AroundSound
     DEF Next, Reload, Commit, RefreshCycle
<1>3. QED
  BY <1>1, <1>2, TypeInvariant, PTL DEF Spec

\* Installed destinations have their listener's family, are not forbidden and were
\* answered for that profile's own host, under every fault of the model and
\* whatever names, families and hosts are exchanged in the file.
THEOREM DestinationsMatch == Spec => []InstalledDestinationsMatch
<1>1. DestinationInv => InstalledDestinationsMatch
  BY DEF DestinationInv
<1>2. QED
  BY <1>1, DestinationInvariant, PTL
=============================================================================
