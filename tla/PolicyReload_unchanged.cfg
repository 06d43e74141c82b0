SPECIFICATION Spec
CONSTANTS
  Parts = {"policy"}
  None = None
  RuntimeOrder <- PythonThenBun
  Files <- OnlyBun
  Setups <- Updates
  AllOrigins = AllOrigins
  PackOrder <- PageThenTool
  Worlds <- Disks
  Here = "here"
  MaxChanges = 2
  MaxRestarts = 1
  MaxVisits = 1
  Commands = {"c1", "c2"}
  Requests = {"r1"}
  HubCommands = 2
  PageCommands = 1
  HubHandlers = 1
  PageRequests = 1
  MaxTries = 1
  MaxSockets = 3
  Runs <- Traffic
  Definitions <- Versions
  MaxFaults = 1
  MaxDeaths = 1
  MaxParked = 1
  Revisions = {"v1", "v2", "v3"}
  Unacceptable = {"v3"}
  Reloads = {"x", "y"}
  MaxEdits = 2
  MaxStops = 1
  TargetOrder <- TwoTargets
  WakeInterval = 1
  Expiry = 1
  ActiveWindow = 2
  ActiveInterval = 2
  IdleInterval = 3
  SafetyInterval = 5
  BackoffBase = 1
  BackoffCap = 4
  Window = 4
  Budget = 2
  MaxPerWake = 1
  Nights = {3, 4}
  MaxTime = 5
  MaxNews = 1
  MaxCuts = 1
  Packs = {"page", "tool"}
  HeaderOrder <- CookieThenAgent
  GrantRecords <- Records
  Capacity = 1
  MaxSeen = 3
  MaxRegrants = 1
  MaxDrops = 1
  ServiceOrder <- TwoServices
  MaxStarts = 1
  MaxServiceStarts = 2
  MaxHubFailures = 2
  MaxServiceFailures = 2
  MaxEvents = 2
  MaxKills = 1
  MaxCommands = 2
INVARIANT
  AppliedStands
CHECK_DEADLOCK FALSE
