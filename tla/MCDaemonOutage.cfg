SPECIFICATION Spec
CONSTANTS
  a = a
  b = b
  eth0 = eth0
  eth1 = eth1
  lan = lan
  wan = wan
  v4 = v4
  v6 = v6
  www = www
  api = api
  x4 = x4
  y4 = y4
  z6 = z6
  own4 = own4
  NoHost = NoHost
  NoTables = NoTables
  Absent = Absent
  Corrupt = Corrupt
  Unreadable = Unreadable
  NoAddress = NoAddress
  NoDns = NoDns
  Family = {v4, v6}
  Inet6 = v6
  MinRefresh = 1
  MaxRefresh = 2
  MaxCacheAge = 1
  JitterCap = 0
  Ttl = {2}
  Jitter = {0}
  Address = {x4, y4, z6, own4}
  Host = {www, api}
  FamilyOf <- DnsFamilyOf
  Rank <- DnsRank
  Forbidden = {own4}
  Name = {a}
  Iface = {eth0}
  Listen = {lan}
  Config <- OutageConfig
  Placement <- DnsPlacement
  Zone <- DnsZone
  Operator <- Eth0Off
  MaxVersion = 1
  MaxNow = 2
  Faults = {"lookup", "save", "config"}
INVARIANTS InstalledDestinationsMatch
PROPERTIES TargetMovesOnlyWhenGone OutageUsesConfirmedAddress
