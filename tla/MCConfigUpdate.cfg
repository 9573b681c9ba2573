SPECIFICATION Spec
CONSTANTS
  c1 = c1
  c2 = c2
  r1 = r1
  r2 = r2
  Cli = {c1}
  Name = {r1, r2}
  Missing = Missing
  Template = Template
  Legacy = Legacy
  Faults = {"reject", "crash", "slow", "write", "overlap"}
INVARIANT TypeOK
PROPERTIES AppliedMeansInForce ReplacedFilesBackedUp CommandEnds
