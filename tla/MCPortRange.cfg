SPECIFICATION Spec
CONSTANTS
  MaxPort = 12
  Base = 3
  WordSize = 50
  Unset = Unset
  Rejected = Rejected
  Typed <- SomeTyped
  HandWritten <- SomeHandWritten
INVARIANT WizardCoversRange
CHECK_DEADLOCK FALSE
