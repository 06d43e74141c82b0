SPECIFICATION FairSpec
CONSTANTS
  None = None
  AllOrigins = AllOrigins
  PackOrder <- Order
  Versions <- Both
  Manifest <- Catalogue
  CoreRoots = {"where"}
  Profile <- Configured
  BodyLimit = 64
  Cli <- TwoClis
  Scenarios <- Safety
  Global = Global
  Scheduler = Scheduler
  Orphan = Orphan
  Threshold = 2
  p1 = p1
  p2 = p2
  v1 = v1
  v2 = v2
  c1 = c1
  c2 = c2
  here = here
  access = access
  job = job
INVARIANTS
  RegistryStaysUsable
  RunningCodeStays
  LiveBindingsStand
  LoadedWhenWanted
PROPERTIES
  OnlyAddReauthorizes
  EveryJobRuns
CHECK_DEADLOCK FALSE
