SPECIFICATION Spec
CONSTANTS
  None = None
  a = a
  b = b
  p = p
  q = q
  Order <- TwoServices
  Procs <- TwoProcs
  Sessions <- Everyday
  MaxCommands = 3
  MaxFailures = 2
  MaxCrashes = 1
  MaxEdits = 1
INVARIANT
  NothingIsLost
PROPERTIES
  StopsOnlyWhenDirect
  ForeignIsLeftAlone
SYMMETRY Commands
