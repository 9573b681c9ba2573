SPECIFICATION Spec
CONSTANTS
  a = a
  b = b
  eth0 = eth0
  eth1 = eth1
  lan = lan
  wan = wan
  v4 = v4
  v6 = v6
  www = www
  api = api
  x4 = x4
  y4 = y4
  z6 = z6
  own4 = own4
  NoHost = NoHost
  NoTables = NoTables
  Absent = Absent
  Corrupt = Corrupt
  Unreadable = Unreadable
  NoAddress = NoAddress
  NoDns = NoDns
  Family = {v4, v6}
  Inet6 = v6
  MinRefresh = 1
  MaxRefresh = 2
  MaxCacheAge = 1
  JitterCap = 0
  Ttl = {2}
  Jitter = {0}
  Address = {}
  Host = {}
  FamilyOf <- NoFamilies
  Rank <- NoRanks
  Forbidden = {}
  Name = {a, b}
  Iface = {eth0, eth1}
  Listen = {lan, wan}
  Config <- RoutesConfig
  Placement <- RoutesPlacement
  Zone <- NoZone
  Operator <- OneOn
  MaxVersion = 2
  MaxNow = 0
  Faults = {"config", "hooks", "command"}
INVARIANTS TypeOK OriginalsRetained
PROPERTIES RejectedReloadLeavesNoTrace ImplementsForwarding
