SPECIFICATION FairSpec
CONSTANTS
  None = None
  Relevant <- AllButFirst
  RecordsPerTurn = 2
  ChildrenPerTurn = 1
  FailureLimit = 2
  MaxLines = 2
  MaxFailures = 2
  MaxStops = 1
  MaxRequests = 0
PROPERTY
  EveryLineIsDelivered
