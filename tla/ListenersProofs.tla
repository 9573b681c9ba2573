-------------------------- MODULE ListenersProofs --------------------------
(* Proofs about Listeners, for every set of ports, profiles, networks and     *)
(* clients: typing, that deployed profiles never share a packet, and that the *)
(* rules in the kernel treat every packet as the deployed file says.  The     *)
(* invariant behind both is that what is deployed was validated as a whole    *)
(* and that the rules were made of it.                                        *)
EXTENDS Listeners, PortsProofs

(* --- Profiles ------------------------------------------------------------- *)

\* Every variable is typed; what is deployed was accepted, and the kernel has the
\* rules made of it.
ConfigType == TypeOK /\ config \in Seq(Profile)
DeployedSound ==
    deployed \in Seq(Profile) /\ Valid(deployed) /\ rules = GenerateBatch(deployed)

\* Nothing is deployed: nothing matches.
LEMMA EmptySound == Valid(<<>>) /\ GenerateBatch(<<>>) = NoRules
  <1>1. DOMAIN <<>> = {}
    OBVIOUS
  <1>2. Valid(<<>>)
    BY <1>1 DEF Valid
  <1>3. (DOMAIN <<>>) \X Protocol = {}
    BY <1>1
  <1>4. MasqueradedProfiles(<<>>) = {}
    BY <1>1 DEF MasqueradedProfiles
  <1>5. GenerateBatch(<<>>).prerouting = {} /\ GenerateBatch(<<>>).postrouting = {}
    BY <1>3, <1>4 DEF GenerateBatch
  <1>6. QED
    BY <1>2, <1>5 DEF GenerateBatch, NoRules

\* profile_wizard builds a profile the file may hold.
LEMMA WizardProfileType ==
    ASSUME NEW name \in ProfileName, NEW address \in Own,
           NEW protocols \in {<<"tcp">>, <<"udp">>, <<"tcp", "udp">>},
           NEW source \in Network, NEW target \in WizardTarget(FamilyOf[address]),
           listen \in ListenPorts
    PROVE  WizardProfile(name, address, protocols, source, target) \in Profile
  <1>1. FamilyOf[address] \in {Inet4, Inet6}
    BY ListenersAssumption DEF Literal
  <1>2. protocols \in Seq(Protocol)
    <2>1. \A a, b \in Protocol : <<a>> \in Seq(Protocol) /\ <<a, b>> \in Seq(Protocol)
      OBVIOUS
    <2>2. "tcp" \in Protocol /\ "udp" \in Protocol
      BY DEF Protocol
    <2>3. QED
      BY <2>1, <2>2
  <1>3. <<source>> \in Seq(Network \cup {Malformed})
    OBVIOUS
  <1>4. target \in Target
    <2>1. CASE target \in {LoopbackDnat, Redirect}
      BY <2>1 DEF Target
    <2>2. CASE target \notin {LoopbackDnat, Redirect}
      <3> DEFINE modes == IF FamilyOf[address] = Inet4
                            THEN {"masquerade", "preserve"} ELSE {Unset}
      <3>1. target \in [kind : {"remote"}, host : DnsName \cup Remote, mode : modes]
        BY <2>2 DEF WizardTarget
      <3>2. modes \subseteq {"masquerade", "preserve", Unset}
        OBVIOUS
      <3> HIDE DEF modes
      <3>3. target \in [kind : {"remote"}, host : Literal \cup DnsName \cup {Localhost},
                        mode : {"masquerade", "preserve", Unset}]
        BY <3>1, <3>2 DEF Literal
      <3>4. QED
        BY <3>3 DEF Target
    <2>3. QED
      BY <2>1, <2>2
  <1>5. (target = LoopbackDnat) \in BOOLEAN
    OBVIOUS
  <1>6. QED
    BY <1>1, <1>2, <1>3, <1>4, <1>5 DEF WizardProfile, Profile

\* Every operation leaves a file of profiles.
LEMMA ConfigStep ==
    ASSUME ConfigType, [Step]_all
    PROVE  ConfigType'
  <1> USE DEF ConfigType
  <1>1. CASE Prompt
    <2>1. TypeOK'
      BY <1>1, PromptType DEF Prompt
    <2>2. QED
      BY <1>1, <2>1 DEF Prompt
  <1>2. ASSUME NEW candidate \in Seq(Profile), Close(candidate)
        PROVE  ConfigType'
    BY <1>2 DEF Close, TypeOK, Validated
  <1>3. CASE AddProfile
    <2>1. listen \in ListenPorts
      BY <1>3 DEF AddProfile, TypeOK
    <2>2. PICK name \in ProfileName \ Unfinished, address \in Own \ Unfinished,
               protocols \in {<<"tcp">>, <<"udp">>, <<"tcp", "udp">>}, source \in Network :
            \E target \in WizardTarget(FamilyOf[address]) :
               Close(Append(config, WizardProfile(name, address, protocols, source, target)))
      BY <1>3 DEF AddProfile
    <2>3. PICK target \in WizardTarget(FamilyOf[address]) :
            Close(Append(config, WizardProfile(name, address, protocols, source, target)))
      BY <2>2
    <2>4. WizardProfile(name, address, protocols, source, target) \in Profile
      BY <2>1, WizardProfileType
    <2>5. Append(config, WizardProfile(name, address, protocols, source, target))
            \in Seq(Profile)
      BY <2>4
    <2>6. QED
      BY <2>3, <2>5, <1>2
  <1>4. CASE RemoveProfile
    <2>1. PICK i \in DOMAIN config : Close(RemoveAt(config, i))
      BY <1>4 DEF RemoveProfile
    <2>2. /\ SubSeq(config, 1, i - 1) \in Seq(Profile)
          /\ SubSeq(config, i + 1, Len(config)) \in Seq(Profile)
      OBVIOUS
    <2>3. RemoveAt(config, i) \in Seq(Profile)
      BY <2>2 DEF RemoveAt
    <2>4. QED
      BY <2>1, <2>3, <1>2
  <1>5. CASE WriteByHand
    <2>1. listen \in ListenPorts
      BY <1>5 DEF WriteByHand, TypeOK
    <2>2. PICK p \in ByHand : Close(Append(config, [p EXCEPT !.listen = listen]))
      BY <1>5 DEF WriteByHand
    <2>3. p \in Profile
      BY ListenersAssumption
    <2>4. [p EXCEPT !.listen = listen] \in Profile
      BY <2>1, <2>3 DEF Profile
    <2>5. Append(config, [p EXCEPT !.listen = listen]) \in Seq(Profile)
      BY <2>4
    <2>6. QED
      BY <2>2, <2>5, <1>2
  <1>6. CASE Migrate
    <2>1. \A p \in Profile : Migrated(p) \in Profile
      BY DEF Migrated, Profile, Target
    <2>2. MigrateLegacyLocalTargets(config) \in Seq(Profile)
      <3>1. /\ DOMAIN config = 1..Len(config) /\ Len(config) \in Nat
            /\ \A i \in 1..Len(config) : config[i] \in Profile
        OBVIOUS
      <3>2. QED
        BY <2>1, <3>1 DEF MigrateLegacyLocalTargets
    <2>3. QED
      BY <1>6, <2>2, <1>2 DEF Migrate
  <1>7. CASE Deploy
    BY <1>7 DEF Deploy, listener, TypeOK, Validated
  <1>8. CASE UNCHANGED all
    BY <1>8 DEF all, listener, TypeOK, Validated
  <1>9. QED
    BY <1>1, <1>3, <1>4, <1>5, <1>6, <1>7, <1>8 DEF Step

LEMMA DeployedStep ==
    ASSUME ConfigType, DeployedSound, [Step]_all
    PROVE  DeployedSound'
  <1>1. CASE Deploy
    BY <1>1 DEF Deploy, Deployable, DeployedSound, ConfigType
  <1>2. CASE UNCHANGED <<rules, deployed>>
    BY <1>2 DEF DeployedSound
  <1>3. Deploy \/ UNCHANGED <<rules, deployed>>
    BY DEF Step, all, Prompt, AddProfile, RemoveProfile, WriteByHand, Migrate, Close
  <1>4. QED
    BY <1>1, <1>2, <1>3

\* The variables keep their types, and every deployed file was validated as a whole
\* before the rules were made of it (ListenPorts::project, Config::validate).
THEOREM ListenersSound == Configuring => [](ConfigType /\ DeployedSound)
  <1>1. Begin => ConfigType /\ DeployedSound
    <2> SUFFICES ASSUME Begin
                 PROVE  ConfigType /\ DeployedSound
      OBVIOUS
    <2>1. TypeOK
      BY DEF Begin, Init, TypeOK, Validated
    <2>2. config \in Seq(Profile)
      BY ListenersAssumption DEF Begin
    <2>3. QED
      BY <2>1, <2>2, EmptySound DEF Begin, ConfigType, DeployedSound
  <1>2. ConfigType /\ DeployedSound /\ [Step]_all => (ConfigType /\ DeployedSound)'
    BY ConfigStep, DeployedStep
  <1>3. QED
    BY <1>1, <1>2, PTL DEF Configuring

(* --- Packets -------------------------------------------------------------- *)

\* Two profiles of an accepted file never ask for the same packet.
LEMMA AcceptedApart ==
    ASSUME NEW profiles, Valid(profiles), NEW i \in DOMAIN profiles,
           NEW j \in DOMAIN profiles, i # j, NEW packet \in Packet
    PROVE  ~ (Asks(profiles[i], packet) /\ Asks(profiles[j], packet))
  <1> SUFFICES ASSUME Asks(profiles[i], packet), Asks(profiles[j], packet)
               PROVE  FALSE
    OBVIOUS
  <1> DEFINE use == <<packet.protocol, packet.address, packet.port>>
  <1>1. use \in Occupied(profiles[i])
    BY DEF Asks, Occupied
  <1>2. use \in Occupied(profiles[j])
    BY DEF Asks, Occupied
  <1>3. Occupied(profiles[i]) \cap Occupied(profiles[j]) = {}
    BY DEF Valid, Disjoint
  <1>4. QED
    BY <1>1, <1>2, <1>3

\* A rule matches the packets of its protocol that its profile asks for.
LEMMA RuleMatches ==
    ASSUME NEW profiles, Valid(profiles), NEW i \in DOMAIN profiles,
           NEW protocol \in Range(profiles[i].protocols), NEW packet \in Packet
    PROVE  Matches(RuleOf(profiles, i, protocol), packet)
             <=> packet.protocol = protocol /\ Asks(profiles[i], packet)
  <1> DEFINE p == profiles[i]
             r == RuleOf(profiles, i, protocol)
             nets == IF p.sources = <<>> THEN {AnySource[p.family]} ELSE Range(p.sources)
  <1>1. /\ r.family = p.family /\ r.protocol = protocol /\ r.address = p.address
        /\ r.sources = nets /\ r.ports = Project(p.listen)
    BY DEF RuleOf
  <1>2. FamilyOf[p.address] = p.family
    BY DEF Valid, ValidProfile
  <1>3. Asks(p, packet) <=> /\ packet.address = p.address
                            /\ packet.protocol \in Range(p.protocols)
                            /\ packet.port \in Project(p.listen)
                            /\ \E n \in nets : packet.client \in Members[n]
    BY DEF Asks
  <1> HIDE DEF r, nets, p
  <1>4. Matches(r, packet) <=> /\ packet.protocol = protocol /\ packet.address = p.address
                               /\ packet.port \in Project(p.listen)
                               /\ \E n \in nets : packet.client \in Members[n]
    BY <1>1, <1>2 DEF Matches
  <1>5. protocol \in Range(p.protocols)
    BY DEF p
  <1>6. QED
    BY <1>3, <1>4, <1>5 DEF p, r

\* The rules a packet hits are those of the profile that asks for it.
LEMMA Hits ==
    ASSUME NEW profiles \in Seq(Profile), Valid(profiles), NEW packet \in Packet,
           NEW r \in GenerateBatch(profiles).prerouting, Matches(r, packet)
    PROVE  \E i \in DOMAIN profiles :
              Asks(profiles[i], packet) /\ r = RuleOf(profiles, i, packet.protocol)
  <1>1. PICK i \in DOMAIN profiles, protocol \in Protocol :
          protocol \in Range(profiles[i].protocols) /\ r = RuleOf(profiles, i, protocol)
    BY DEF GenerateBatch
  <1>2. packet.protocol = protocol /\ Asks(profiles[i], packet)
    BY <1>1, RuleMatches
  <1>3. QED
    BY <1>1, <1>2

\* Only the profiles' places are marks, never the mark of other connections.
LEMMA Marks ==
    ASSUME NEW profiles \in Seq(Profile)
    PROVE  /\ 0 \notin GenerateBatch(profiles).postrouting
           /\ \A i \in DOMAIN profiles :
                i \in GenerateBatch(profiles).postrouting
                  <=> profiles[i].family = Inet4 /\ profiles[i].target.mode = "masquerade"
  <1>1. GenerateBatch(profiles).postrouting = MasqueradedProfiles(profiles)
    BY DEF GenerateBatch, Mark
  <1>2. DOMAIN profiles = 1..Len(profiles) /\ Len(profiles) \in Nat
    OBVIOUS
  <1>3. QED
    BY <1>1, <1>2 DEF MasqueradedProfiles

\* What the kernel does with a packet one profile asks for.
LEMMA AskedOutcome ==
    ASSUME NEW profiles \in Seq(Profile), Valid(profiles), NEW packet \in Packet,
           NEW i \in DOMAIN profiles, Asks(profiles[i], packet)
    PROVE  Outcome(GenerateBatch(profiles), packet) =
             [to |-> profiles[i].target,
              masqueraded |-> profiles[i].family = Inet4
                              /\ profiles[i].target.mode = "masquerade"]
  <1> DEFINE p == profiles[i]
             batch == GenerateBatch(profiles)
             rule == RuleOf(profiles, i, packet.protocol)
             hits == {r \in batch.prerouting : Matches(r, packet)}
             first == CHOOSE r \in hits : \A s \in hits : r.place <= s.place
  <1>1. rule \in hits
    <2>1. packet.protocol \in Range(p.protocols) /\ packet.protocol \in Protocol
      BY DEF Asks, Packet
    <2> DEFINE x == <<i, packet.protocol>>
    <2>2. /\ x \in (DOMAIN profiles) \X Protocol
          /\ x[1] = i /\ x[2] = packet.protocol
      BY <2>1
    <2>3. rule = RuleOf(profiles, x[1], x[2]) /\ x[2] \in Range(profiles[x[1]].protocols)
      BY <2>1, <2>2
    <2>4. rule \in batch.prerouting
      <3> HIDE DEF x, rule
      <3> QED
        BY <2>2, <2>3 DEF GenerateBatch
    <2>5. QED
      BY <2>1, <2>4, RuleMatches
  <1>2. hits = {rule}
    <2>1. ASSUME NEW r \in hits
          PROVE  r = rule
      <3>1. PICK k \in DOMAIN profiles :
              Asks(profiles[k], packet) /\ r = RuleOf(profiles, k, packet.protocol)
        BY <2>1, Hits
      <3>2. k = i
        BY <3>1, AcceptedApart
      <3>3. QED
        BY <3>1, <3>2
    <2>2. QED
      BY <1>1, <2>1
  <1>3. rule.place = i /\ i \in Int
    BY DEF RuleOf
  <1>4. first = rule
    <2> HIDE DEF hits, rule
    <2>1. \A s \in hits : rule.place <= s.place
      BY <1>2, <1>3
    <2>2. QED
      BY <1>2, <2>1
  <1>5. p \in Profile /\ packet.address = p.address /\ FamilyOf[p.address] = p.family
    BY DEF Asks, Valid, ValidProfile
  <1>6. /\ rule.to = p.target
        /\ rule.mark = IF p.target.kind = "redirect" THEN 0 ELSE i
    BY DEF RuleOf, Mark
  <1>7. p.target.kind = "redirect" => p.target.mode # "masquerade"
    <2>1. p.target \in Target
      BY <1>5 DEF Profile
    <2>2. QED
      BY <2>1, ListenersAssumption DEF Target, Redirect, LoopbackDnat
  <1>8. rule.mark \in batch.postrouting
          <=> p.family = Inet4 /\ p.target.mode = "masquerade"
    BY <1>6, <1>7, Marks
  <1>9. Outcome(batch, packet) =
          [to |-> first.to,
           masqueraded |-> FamilyOf[packet.address] = Inet4 /\ first.mark \in batch.postrouting]
    BY <1>2 DEF Outcome
  <1>10. (FamilyOf[packet.address] = Inet4 /\ rule.mark \in batch.postrouting)
            = (p.family = Inet4 /\ p.target.mode = "masquerade")
    BY <1>5, <1>8
  <1>11. Outcome(batch, packet) =
           [to |-> rule.to,
            masqueraded |-> FamilyOf[packet.address] = Inet4 /\ rule.mark \in batch.postrouting]
    <2> HIDE DEF first, rule, batch
    <2> QED
      BY <1>4, <1>9
  <1>12. QED
    <2> HIDE DEF rule
    <2> QED
      BY <1>6, <1>10, <1>11

\* A packet no profile asks for keeps mark 0 and its destination.
LEMMA OtherOutcome ==
    ASSUME NEW profiles \in Seq(Profile), Valid(profiles), NEW packet \in Packet,
           \A i \in DOMAIN profiles : ~ Asks(profiles[i], packet)
    PROVE  Outcome(GenerateBatch(profiles), packet) = Untouched
  <1> DEFINE hits == {r \in GenerateBatch(profiles).prerouting : Matches(r, packet)}
  <1>1. hits = {}
    BY Hits
  <1>2. Outcome(GenerateBatch(profiles), packet) =
          [to |-> Unset,
           masqueraded |-> FamilyOf[packet.address] = Inet4
                           /\ 0 \in GenerateBatch(profiles).postrouting]
    BY <1>1 DEF Outcome
  <1>3. QED
    BY <1>2, Marks DEF Untouched

\* No packet belongs to two deployed profiles (the occupied set of Config::validate).
THEOREM PacketsBelongToOneProfile == Configuring => []OneProfilePerPacket
  <1>1. DeployedSound => OneProfilePerPacket
    BY AcceptedApart DEF DeployedSound, OneProfilePerPacket
  <1>2. QED
    BY <1>1, ListenersSound, PTL

\* The kernel treats every packet as the deployed file says (generate_batch).
THEOREM PacketsGoWhereTheFileSays == Configuring => []RulesMeanTheFile
  <1>1. ASSUME DeployedSound
        PROVE  RulesMeanTheFile
    <2> SUFFICES ASSUME NEW packet \in Packet
                 PROVE  LET asking == {i \in DOMAIN deployed : Asks(deployed[i], packet)} IN
                        IF asking = {} THEN Outcome(rules, packet) = Untouched
                        ELSE \A i \in asking : Outcome(rules, packet) =
                               [to |-> deployed[i].target,
                                masqueraded |-> deployed[i].family = Inet4
                                                /\ deployed[i].target.mode = "masquerade"]
      BY DEF RulesMeanTheFile
    <2>1. deployed \in Seq(Profile) /\ Valid(deployed) /\ rules = GenerateBatch(deployed)
      BY <1>1 DEF DeployedSound
    <2>2. QED
      BY <2>1, AskedOutcome, OtherOutcome
  <1>2. QED
    BY <1>1, ListenersSound, PTL

(* --- Migration ------------------------------------------------------------ *)

\* No accepted profile has the old form of a local target.
LEMMA ValidNotLegacy ==
    ASSUME NEW p, ValidProfile(p)
    PROVE  ~Legacy(p)
  BY DEF ValidProfile, ValidTarget, Legacy, Literal

\* Migration touches neither name nor what the profile occupies, and what it makes of
\* a profile whose only fault is the old form is accepted.
LEMMA MigratedProfile ==
    ASSUME NEW p \in Profile
    PROVE  /\ Migrated(p).name = p.name /\ Occupied(Migrated(p)) = Occupied(p)
           /\ Repairable(p) \/ ValidProfile(p) => ValidProfile(Migrated(p))
  <1>1. \/ Migrated(p) = p
        \/ Migrated(p) = [p EXCEPT !.target = LoopbackDnat, !.localnet = TRUE]
        \/ Migrated(p) = [p EXCEPT !.target = Redirect]
    BY DEF Migrated
  <1>2. /\ Migrated(p).name = p.name /\ Migrated(p).address = p.address
        /\ Migrated(p).family = p.family /\ Migrated(p).protocols = p.protocols
        /\ Migrated(p).sources = p.sources /\ Migrated(p).listen = p.listen
    BY <1>1 DEF Profile
  <1>3. Occupied(Migrated(p)) = Occupied(p)
    BY <1>2 DEF Occupied
  <1>4. ASSUME ValidProfile(p)
        PROVE  ValidProfile(Migrated(p))
    BY <1>4, ValidNotLegacy DEF Migrated
  <1>5. ASSUME Repairable(p)
        PROVE  ValidProfile(Migrated(p))
    <2> DEFINE q == [p EXCEPT !.target = Redirect]
    <2>1. /\ q.address = p.address /\ q.family = p.family /\ q.protocols = p.protocols
          /\ q.sources = p.sources /\ q.listen = p.listen
      BY DEF Profile
    <2>2. ValidProfile(q)
      BY <1>5 DEF Repairable
    <2>3. ValidTarget(Migrated(p))
      <3>1. CASE LegacyFamily(p) = Inet4
        <4>1. Migrated(p) = [p EXCEPT !.target = LoopbackDnat, !.localnet = TRUE]
          BY <1>5, <3>1 DEF Repairable, Migrated
        <4>2. Migrated(p).target = LoopbackDnat /\ Migrated(p).localnet
          BY <4>1 DEF Profile
        <4>3. Migrated(p).family = Inet4
          BY <1>2, <1>5, <3>1 DEF Repairable
        <4>4. QED
          BY <4>2, <4>3 DEF ValidTarget, LoopbackDnat
      <3>2. CASE LegacyFamily(p) # Inet4
        <4>1. Migrated(p) = q
          BY <1>5, <3>2 DEF Repairable, Migrated
        <4>2. QED
          BY <2>2, <4>1 DEF ValidProfile
      <3>3. QED
        BY <3>1, <3>2
    <2> HIDE DEF q
    <2>4. QED
      BY <1>2, <2>1, <2>2, <2>3 DEF ValidProfile, ValidSources
  <1>6. QED
    BY <1>2, <1>3, <1>4, <1>5

\* migrate leaves an accepted file alone, and makes a file acceptable whose only faults
\* are old local targets (migrate_legacy_local_targets, against Config::validate).
THEOREM MigrationMends == Configuring => []MigrationRepairs
  <1>1. ASSUME ConfigType
        PROVE  MigrationRepairs
    <2> DEFINE migrated == MigrateLegacyLocalTargets(config)
    <2>1. /\ DOMAIN migrated = DOMAIN config
          /\ \A i \in DOMAIN config : config[i] \in Profile /\ migrated[i] = Migrated(config[i])
      BY <1>1 DEF ConfigType, MigrateLegacyLocalTargets
    <2>2. ASSUME Valid(config)
          PROVE  migrated = config
      <3>1. \A i \in DOMAIN config : Migrated(config[i]) = config[i]
        BY <2>2, ValidNotLegacy DEF Valid, Migrated
      <3>2. config = [i \in DOMAIN config |-> config[i]]
        BY <1>1 DEF ConfigType
      <3>3. QED
        BY <3>1, <3>2 DEF MigrateLegacyLocalTargets
    <2> HIDE DEF migrated
    <2>3. ASSUME \A i \in DOMAIN config : Repairable(config[i]) \/ ValidProfile(config[i]),
                 \A i, j \in DOMAIN config :
                    i # j => /\ config[i].name # config[j].name
                             /\ Disjoint(config[i], config[j])
          PROVE  Valid(migrated)
      <3>1. \A i \in DOMAIN migrated : ValidProfile(migrated[i])
        BY <2>1, <2>3, MigratedProfile
      <3>2. \A i \in DOMAIN migrated : /\ migrated[i].name = config[i].name
                                       /\ Occupied(migrated[i]) = Occupied(config[i])
        BY <2>1, MigratedProfile
      <3>3. QED
        BY <2>1, <2>3, <3>1, <3>2 DEF Valid, Disjoint
    <2>4. QED
      BY <2>2, <2>3 DEF MigrationRepairs, migrated
  <1>2. QED
    BY <1>1, ListenersSound, PTL

(* --- Listeners ------------------------------------------------------------ *)

\* Also when the listener is typed for a file that is being edited: range listeners
\* stand for the ports written with their suffix, and the wizard adds nothing.
THEOREM ListenersMeanWhatIsAsked ==
    Configuring => [](ProjectionEndsInSuffix /\ WizardAddsNothing)
  <1>1. Begin => ListenerInv
    BY DEF Begin, Init, ListenerInv
  <1>2. ConfigType /\ ListenerInv /\ [Step]_all => ListenerInv'
    <2> SUFFICES ASSUME ConfigType, ListenerInv, [Step]_all
                 PROVE  ListenerInv'
      OBVIOUS
    <2>1. CASE Prompt
      BY <2>1, PromptListener DEF Prompt, ConfigType
    <2>2. CASE \E candidate : Close(candidate)
      BY <2>2 DEF Close, ListenerInv
    <2>3. CASE UNCHANGED listener
      BY <2>3 DEF listener, ListenerInv
    <2>4. QED
      BY <2>1, <2>2, <2>3
         DEF Step, all, AddProfile, RemoveProfile, WriteByHand, Migrate, Deploy
  <1>3. ConfigType /\ ListenerInv => ProjectionEndsInSuffix /\ WizardAddsNothing
    BY ListenerPromises DEF ConfigType
  <1>4. QED
    BY <1>1, <1>2, <1>3, ListenersSound, PTL DEF Configuring
=============================================================================
