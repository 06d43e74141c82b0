SPECIFICATION Spec
CONSTANTS
  None = None
  Relevant <- AllLines
  RecordsPerTurn = 2
  ChildrenPerTurn = 1
  FailureLimit = 3
  MaxLines = 1
  MaxFailures = 3
  MaxStops = 2
  MaxRequests = 1
PROPERTY
  SkippedIsOwned
