SPECIFICATION Configuring
CONSTANTS
  MaxPort = 12
  Base = 3
  WordSize = 50
  Unset = Unset
  Rejected = Rejected
  Typed <- SomeTyped
  HandWritten <- SomeHandWritten
  lan4 = lan4
  lan6 = lan6
  srv4 = srv4
  srv6 = srv6
  doc4 = doc4
  lo4 = lo4
  lo6 = lo6
  web = web
  any4 = any4
  any6 = any6
  net4 = net4
  near4 = near4
  far4 = far4
  near6 = near6
  x = x
  y = y
  todo = todo
  Own = {lan4, lan6}
  Remote = {srv4, srv6, doc4}
  Loopback = {lo4, lo6}
  DnsName = {web}
  Localhost = Localhost
  Unfinished = {doc4, todo}
  Inet4 = Inet4
  Inet6 = Inet6
  FamilyOf <- Families
  Network = {any4, any6, net4}
  AnySource <- Anywhere
  Malformed = Malformed
  Client = {near4, far4, near6}
  Members <- Clients
  ProfileName = {x, y, web, todo}
  Existing <- SomeFiles
  ByHand <- SomeProfiles
INVARIANTS TypeOK ProjectionEndsInSuffix WizardAddsNothing OneProfilePerPacket RulesMeanTheFile MigrationRepairs
CHECK_DEADLOCK FALSE
