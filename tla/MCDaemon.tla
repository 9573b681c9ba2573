----------------------------- MODULE MCDaemon -----------------------------
(* Instances of Daemon for TLC.  "Routes" has two interfaces and loopback      *)
(* listeners that appear, disappear and move between them; "Dns" has one       *)
(* listener whose target is looked up.                                        *)
EXTENDS Daemon

CONSTANTS a, b, eth0, eth1, lan, wan, v4, v6, www, api, x4, y4, z6, own4

RoutesProfile(kind, listen) ==
    [kind |-> kind, listen |-> listen, family |-> v4, host |-> NoHost,
     address |-> NoAddress]

RoutesConfig ==
    {[deployable |-> TRUE, allowExternal |-> FALSE,
      profiles |-> [n \in {a} |-> RoutesProfile("loopback", lan)]],
     [deployable |-> TRUE, allowExternal |-> TRUE,
      profiles |-> [n \in {a, b} |-> RoutesProfile("loopback", IF n = a THEN lan ELSE wan)]],
     [deployable |-> TRUE, allowExternal |-> TRUE,
      profiles |-> [n \in {b} |-> RoutesProfile("redirect", wan)]]}

RoutesPlacement ==
    {[l \in {lan, wan} |-> IF l = lan THEN {eth0} ELSE {eth1}],
     [l \in {lan, wan} |-> {eth1}],
     [l \in {lan, wan} |-> IF l = lan THEN {eth0, eth1} ELSE {}]}

NoZone == {[h \in {} |-> {}]}
NoFamilies == [x \in {} |-> v4]
NoRanks == [x \in {} |-> 0]

AllOff == [i \in {eth0, eth1} |-> FALSE]
OneOn == [i \in {eth0, eth1} |-> i = eth1]

--------------------------------------------------------------------------
DnsProfile(kind, family, host) ==
    [kind |-> kind, listen |-> lan, family |-> family, host |-> host,
     address |-> NoAddress]

\* Two targets; one of the names with another family, and with another host.
DnsConfig ==
    {[deployable |-> TRUE, allowExternal |-> TRUE,
      profiles |-> [n \in {a, b} |-> DnsProfile("fqdn", v4, IF n = a THEN www ELSE api)]],
     [deployable |-> TRUE, allowExternal |-> FALSE,
      profiles |-> [n \in {a} |-> DnsProfile("fqdn", v6, www)]],
     [deployable |-> TRUE, allowExternal |-> FALSE,
      profiles |-> [n \in {a} |-> DnsProfile("fqdn", v4, api)]]}

\* One target whose family and host change under its name.
OutageConfig ==
    {[deployable |-> TRUE, allowExternal |-> TRUE,
      profiles |-> [n \in {a} |-> DnsProfile("fqdn", IF h = api THEN v4 ELSE f, h)]] :
         f \in {v4, v6}, h \in {www, api}}

DnsPlacement == {[l \in {lan} |-> {eth0}]}

\* www is answered first with x4, then with x4 behind y4: it may move only one
\* way.  api moves both ways, and may be answered with a forbidden address.
DnsZone ==
    {[h \in {www, api} |-> IF h = www THEN {x4, z6} ELSE {y4}],
     [h \in {www, api} |-> IF h = www THEN {y4, x4} ELSE {x4, own4}]}

DnsFamilyOf == [x \in {x4, y4, z6, own4} |-> IF x = z6 THEN v6 ELSE v4]
DnsRank == [x \in {x4, y4, z6, own4} |->
              CASE x = own4 -> 0 [] x = y4 -> 1 [] x = x4 -> 2 [] x = z6 -> 3]
Eth0Off == [i \in {eth0} |-> FALSE]
=============================================================================
