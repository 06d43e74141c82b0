SPECIFICATION Spec
CONSTANTS
  None = None
  Relevant <- AllButFirst
  RecordsPerTurn = 2
  ChildrenPerTurn = 1
  FailureLimit = 2
  MaxLines = 2
  MaxFailures = 2
  MaxStops = 1
  MaxRequests = 1
INVARIANTS
  ReplaySkipsNothing
  ReplayOwnsWhatFreshSkipped
  OneChildAtATime
PROPERTY
  ProgressIsNeverUndone
