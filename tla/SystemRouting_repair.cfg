SPECIFICATION Spec
CONSTANTS
  None = None
  a = a
  b = b
  p = p
  q = q
  Order <- OneService
  Procs <- TwoProcs
  Sessions <- Repairs
  MaxCommands = 3
  MaxFailures = 0
  MaxCrashes = 0
  MaxEdits = 0
PROPERTY
  StopsOnlyWhenDirect
