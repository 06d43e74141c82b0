SPECIFICATION Spec
CONSTANTS
  None = None
  Relevant <- AllLines
  RecordsPerTurn = 2
  ChildrenPerTurn = 2
  FailureLimit = 3
  MaxLines = 2
  MaxFailures = 3
  MaxStops = 0
  MaxRequests = 0
PROPERTY
  SkippedAfterEnoughFailures
