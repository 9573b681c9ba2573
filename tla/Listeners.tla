------------------------------ MODULE Listeners ------------------------------
(* The profiles of config.toml: what Config::validate accepts of several      *)
(* profiles together, what the wizard adds, what migrate repairs, and the     *)
(* nftables rules generate_batch makes of them (src/src/config.rs,            *)
(* src/src/nft.rs and the wizard in src/src/bin/port-forward.rs).  Ports has  *)
(* the wizard's listener, on which one update of the file is built.           *)
(*                                                                            *)
(* Simplifications                                                            *)
(*  - A source network is the clients it holds; target ports are left out.    *)
(*  - A remote name stands for what it resolves to (Dns has the addresses).   *)
(*  - Packets carry no ct mark of another tool.                               *)
(*  - schema_version, blank names and blank hosts, which validation refuses,   *)
(*    are left out.                                                           *)
(*  - The forward chain only accepts what its policy accepts too, and is left *)
(*    out.                                                                    *)
EXTENDS Ports

CONSTANTS
    Own, Remote, Loopback,  \* addresses of this host's interfaces, elsewhere, loopback
    DnsName, Localhost,     \* other target hosts
    Unfinished,             \* documentation-reserved addresses and TODO values
    Inet4, Inet6, FamilyOf, \* FamilyOf: of addresses, networks and clients
    Network, AnySource, Malformed,    \* source networks; 0.0.0.0/0 and ::/0; no network
    Client, Members,        \* clients, and those of each network
    ProfileName,
    Existing,               \* files before the update
    ByHand                  \* profiles, without listener, people write themselves

Literal == Own \cup Remote \cup Loopback
Protocol == {"tcp", "udp"}

RemoteTarget(host, mode) == [kind |-> "remote", host |-> host, mode |-> mode]
Redirect == [kind |-> "redirect", host |-> Unset, mode |-> Unset]
LoopbackDnat == [kind |-> "loopback-dnat", host |-> Unset, mode |-> Unset]

Target == {Redirect, LoopbackDnat} \cup
          [kind : {"remote"}, host : Literal \cup DnsName \cup {Localhost},
           mode : {"masquerade", "preserve", Unset}]

Profile == [name : ProfileName, family : {Inet4, Inet6}, address : Own,
            protocols : Seq(Protocol), sources : Seq(Network \cup {Malformed}),
            localnet : BOOLEAN, listen : ListenPorts, target : Target]

ASSUME ListenersAssumption ==
    /\ Existing \subseteq Seq(Profile) /\ ByHand \subseteq Profile
    /\ Inet4 # Inet6 /\ AnySource \in [{Inet4, Inet6} -> Network]
    /\ \A p \in Literal \cup Network \cup Client : FamilyOf[p] \in {Inet4, Inet6}
    /\ \A n \in Network : Members[n] \subseteq Client
    /\ Localhost \notin Literal \cup DnsName /\ DnsName \cap Literal = {}
    /\ Malformed \notin Network /\ Unset \notin {"masquerade", "preserve"}

--------------------------------------------------------------------------
(* Config::validate and validate_deployable                                 *)

ValidSources(p) ==
    /\ \A n \in Range(p.sources) : n # Malformed /\ FamilyOf[n] = p.family
    /\ IsInjective(p.sources)

ValidTarget(p) ==
    /\ p.target.kind = "remote" =>
          /\ p.target.host # Localhost
          /\ p.family = Inet4 <=> p.target.mode # Unset
          /\ p.target.host \in Literal =>
                p.target.host \notin Loopback /\ FamilyOf[p.target.host] = p.family
    /\ p.target.kind = "loopback-dnat" => p.family = Inet4 /\ p.localnet

ValidProfile(p) ==
    /\ FamilyOf[p.address] = p.family
    /\ p.protocols # <<>> /\ IsInjective(p.protocols)
    /\ Project(p.listen) # Rejected
    /\ ValidSources(p) /\ ValidTarget(p)

\* What a profile occupies: the family goes with the address.
Occupied(p) == Range(p.protocols) \X {p.address} \X Project(p.listen)

\* Mutant: listeners are compared as written.
DisjointAsWritten(p, q) ==
    p.address # q.address \/ p.listen # q.listen
        \/ Range(p.protocols) \cap Range(q.protocols) = {}

Disjoint(p, q) == Occupied(p) \cap Occupied(q) = {}

Valid(profiles) ==
    /\ \A i \in DOMAIN profiles : ValidProfile(profiles[i])
    /\ \A i, j \in DOMAIN profiles :
         i # j => /\ profiles[i].name # profiles[j].name
                  /\ Disjoint(profiles[i], profiles[j])

Deployable(profiles) ==
    /\ Valid(profiles) /\ profiles # <<>>
    /\ \A i \in DOMAIN profiles : LET p == profiles[i] IN
         ({p.name, p.address, p.target.host} \cup Range(p.sources)) \cap Unfinished = {}

--------------------------------------------------------------------------
(* migrate_legacy_local_targets                                             *)
Legacy(p) == p.target.kind = "remote" /\ p.target.host \in Loopback \cup {Localhost}

\* The family the old form stood for.
LegacyFamily(p) == IF p.target.host = Localhost THEN p.family ELSE FamilyOf[p.target.host]

\* Mutant: the flag a loopback target requires is forgotten.
MigratedWithoutFlag(p) ==
    IF ~Legacy(p) THEN p
    ELSE [p EXCEPT !.target = IF LegacyFamily(p) = Inet4 THEN LoopbackDnat ELSE Redirect]

Migrated(p) ==
    IF ~Legacy(p) THEN p
    ELSE IF LegacyFamily(p) = Inet4
      THEN [p EXCEPT !.target = LoopbackDnat, !.localnet = TRUE]
      ELSE [p EXCEPT !.target = Redirect]

MigrateLegacyLocalTargets(profiles) == [i \in DOMAIN profiles |-> Migrated(profiles[i])]

--------------------------------------------------------------------------
(* The wizard                                                               *)

\* wizard_target: local services by address or name, remote ones outside this host.
WizardTarget(family) ==
    (IF family = Inet4 THEN {LoopbackDnat} ELSE {})
    \cup {Redirect}
    \cup [kind : {"remote"}, host : DnsName \cup Remote,
          mode : IF family = Inet4 THEN {"masquerade", "preserve"} ELSE {Unset}]

\* profile_wizard, with the listener already typed.
WizardProfile(name, address, protocols, source, target) ==
    [name |-> name, family |-> FamilyOf[address], address |-> address,
     protocols |-> protocols, sources |-> <<source>>,
     localnet |-> (target = LoopbackDnat), listen |-> listen, target |-> target]

--------------------------------------------------------------------------
(* generate_batch                                                           *)

\* Mutant: marks count from zero, the mark of every other connection.
MarkFromZero(i) == i - 1
Mark(i) == i

\* rule_condition and the verdict of render_table; a redirect sets no mark.
RuleOf(profiles, i, protocol) ==
    LET p == profiles[i] IN
    [family  |-> p.family, place |-> i, protocol |-> protocol, address |-> p.address,
     sources |-> IF p.sources = <<>> THEN {AnySource[p.family]} ELSE Range(p.sources),
     ports   |-> Project(p.listen),
     mark    |-> IF p.target.kind = "redirect" THEN 0 ELSE Mark(i),
     to      |-> p.target]

MasqueradedProfiles(profiles) ==
    {i \in DOMAIN profiles : profiles[i].family = Inet4 /\ profiles[i].target.mode = "masquerade"}

GenerateBatch(profiles) ==
    [prerouting  |-> {RuleOf(profiles, x[1], x[2]) :
                        x \in {y \in (DOMAIN profiles) \X Protocol :
                                 y[2] \in Range(profiles[y[1]].protocols)}},
     postrouting |-> {Mark(i) : i \in MasqueradedProfiles(profiles)}]

NoRules == [prerouting |-> {}, postrouting |-> {}]

\* How the kernel reads them: the first rule that matches decides, and postrouting
\* masquerades IPv4 connections by their mark, which is 0 unless a rule set it.
Packet == [protocol : Protocol, address : Own, port : Port, client : Client]

Matches(rule, packet) ==
    /\ rule.family = FamilyOf[packet.address]
    /\ rule.protocol = packet.protocol /\ rule.address = packet.address
    /\ packet.port \in rule.ports
    /\ \E n \in rule.sources : packet.client \in Members[n]

Untouched == [to |-> Unset, masqueraded |-> FALSE]

Outcome(batch, packet) ==
    LET hits  == {r \in batch.prerouting : Matches(r, packet)}
        first == CHOOSE r \in hits : \A s \in hits : r.place <= s.place
        mark  == IF hits = {} THEN 0 ELSE first.mark
    IN  [to          |-> IF hits = {} THEN Unset ELSE first.to,
         masqueraded |-> FamilyOf[packet.address] = Inet4 /\ mark \in batch.postrouting]

--------------------------------------------------------------------------
VARIABLES
    config,     \* the profiles in config.toml
    session,    \* the update of the file: "open", then "closed"
    rules,      \* the tables in the kernel
    deployed    \* history: the profiles they were made of

listener == <<entry, listen, ports>>
all == <<listener, config, session, rules, deployed>>

\* The terminal: the listener of a new rule.
Prompt == session = "open" /\ Next /\ UNCHANGED <<config, session, rules, deployed>>

Close(profiles) ==
    /\ session = "open" /\ session' = "closed"
    /\ config' = profiles
    /\ entry' = Unset /\ listen' = Rejected /\ ports' = Pending
    /\ UNCHANGED <<rules, deployed>>

\* add: preview, confirmation and commit_config_update's own validation.
AddProfile ==
    /\ entry # Unset /\ listen # Rejected /\ Validated
    /\ \E name \in ProfileName \ Unfinished, address \in Own \ Unfinished,
          protocols \in {<<"tcp">>, <<"udp">>, <<"tcp", "udp">>}, source \in Network :
         \E target \in WizardTarget(FamilyOf[address]) :
            LET candidate ==
                  Append(config, WizardProfile(name, address, protocols, source, target))
            IN  Deployable(candidate) /\ Close(candidate)

\* remove: the names of an accepted file are distinct; the last profile stays.
RemoveProfile ==
    \E i \in DOMAIN config :
        LET candidate == RemoveAt(config, i) IN
        Valid(config) /\ Deployable(candidate) /\ Close(candidate)

\* An editor writes what it likes.
WriteByHand ==
    /\ entry = Unset /\ listen # Rejected
    /\ \E p \in ByHand : Close(Append(config, [p EXCEPT !.listen = listen]))

\* migrate parses the file without validating it, before or after.
Migrate ==
    LET candidate == MigrateLegacyLocalTargets(config) IN
    candidate # config /\ Close(candidate)

\* A reload: the daemon validates for itself.
Deploy ==
    /\ Deployable(config) /\ deployed # config
    /\ rules' = GenerateBatch(config)
    /\ deployed' = config
    /\ UNCHANGED <<listener, config, session>>

Begin ==
    /\ Init /\ config \in Existing /\ session = "open"
    /\ rules = NoRules /\ deployed = <<>>

Step == \/ Prompt \/ AddProfile \/ RemoveProfile \/ WriteByHand \/ Migrate \/ Deploy

Configuring == Begin /\ [][Step]_all

--------------------------------------------------------------------------
(* Properties                                                               *)

\* The profile asks for the packet, by its own words.
Asks(p, packet) ==
    /\ packet.address = p.address /\ packet.protocol \in Range(p.protocols)
    /\ packet.port \in Project(p.listen)
    /\ \E n \in IF p.sources = <<>> THEN {AnySource[p.family]} ELSE Range(p.sources) :
         packet.client \in Members[n]

\* No packet belongs to two of the deployed profiles, whatever listener notation,
\* protocols and sources they use: their order in the file does not matter
\* (the occupied set of Config::validate).
OneProfilePerPacket ==
    \A i, j \in DOMAIN deployed : i # j =>
        \A packet \in Packet : ~ (Asks(deployed[i], packet) /\ Asks(deployed[j], packet))

\* The tables treat every packet as the file says: one a profile asks for goes to
\* that profile's target and is masqueraded exactly if that profile wants it; any
\* other, redirected and foreign connections included, is left alone
\* (generate_batch: marks, sources and first match).
RulesMeanTheFile ==
    \A packet \in Packet :
        LET asking == {i \in DOMAIN deployed : Asks(deployed[i], packet)} IN
        IF asking = {} THEN Outcome(rules, packet) = Untouched
        ELSE \A i \in asking : LET p == deployed[i] IN
               Outcome(rules, packet) =
                 [to |-> p.target,
                  masqueraded |-> p.family = Inet4 /\ p.target.mode = "masquerade"]

\* A profile whose only fault is the old form of a local target.
Repairable(p) ==
    Legacy(p) /\ LegacyFamily(p) = p.family /\ ValidProfile([p EXCEPT !.target = Redirect])

\* migrate leaves an accepted file alone, and makes a file acceptable whose only
\* faults are old local targets (migrate_legacy_local_targets, against validate).
MigrationRepairs ==
    LET migrated == MigrateLegacyLocalTargets(config) IN
    /\ Valid(config) => migrated = config
    /\ (/\ \A i \in DOMAIN config : Repairable(config[i]) \/ ValidProfile(config[i])
        /\ \A i, j \in DOMAIN config :
             i # j => /\ config[i].name # config[j].name
                      /\ Disjoint(config[i], config[j])) => Valid(migrated)
=============================================================================
