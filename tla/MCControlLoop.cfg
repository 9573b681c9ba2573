SPECIFICATION Spec
CONSTANTS
  cli = cli
  guest = guest
  Peer = {cli, guest}
  Root = {cli}
  LogCap = 2
  Stamps = 3
  MaxEdits = 1
  Faults = {"reject", "save", "accept"}
INVARIANTS TypeOK LogsAreNewest
PROPERTIES AppliedCoversRequest InterruptsWaitTheirTurn DueTargetsRefreshed RequestsAnswered
