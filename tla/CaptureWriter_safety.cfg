SPECIFICATION JournalSpec
CONSTANTS
  Shapes <- AllShapes
  None = None
  QueueSlots = 2
  QueueBytes = 5
  SegmentBytes = 4
  KeepRolls = 1
  LineLimit = 6
  Clock = {1, 3}
  MaxRecords = 4
  MaxRestarts = 1
  Parts = {"hooks", "writer", "scan"}
  Keeps = {0, 1, 2}
  MaxScanLines = 3
  MaxStamp = 3
  MaxBody = 2
  MaxRecord = 5
  Lengths = {0, 1, 2, 3}
  Escaped = 3
INVARIANTS
  EachRecordCountedOnce
  TornOnlyAtTheEnd
  NothingFollowsAFailedAppend
  JournalOrder
  NoHoleInTheJournal
  RetentionBound
  NothingLeftBehind
  ScanLeavesNothingOut
  RecordsAreReadable
  NoBodyCostsTheLine
PROPERTIES
  KeepsTheJournal
  ShutdownEnds
