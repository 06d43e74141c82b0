SPECIFICATION FairSpec
CONSTANTS
  None = None
  a = a
  b = b
  p = p
  q = q
  Order <- OneService
  Procs <- TwoProcs
  Sessions <- WithOthers
  MaxCommands = 3
  MaxFailures = 2
  MaxCrashes = 1
  MaxEdits = 0
PROPERTY
  OffIsNeverBlocked
