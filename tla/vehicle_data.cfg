\* Three registrations and two overlapping goroutines, four receipts.
CONSTANTS
  Papers = {"registration"}
  Uploaders = {u1}
  Pullers = {p1, p2}
  GloveboxLimit = 2
  CostLimit = 3
  PlateLimit = 2
  MaxEvents = 3
  MaxForeign = 0
\* DocumentLedger, for receipts
  GloveboxSize = 2
  Summarised = 3
  MaxReceipts = 4
  MaxOthers = 1
\* Locations
  Replicas = {"p", "q"}
  Readers = {"r"}
  Writers = {"w1", "w2"}
  Fleet = {"car"}
  Keep = 1
  Slow = 1
  Late = 1
  MaxFixes = 2
\* VehicleSync
  Runs = {"r1", "r2"}
  Tokens = {1, 2}
  MaxTruthChanges = 1
  MaxSyncFailures = 1
\* FleetReports
  Vehicles = {"car", "van"}
  Items = {"i", "j"}
  Amount <- MCAmount
  Tariffs <- MCTariffs
  Assets <- MCAssets
  MaxEdits = 2
\* Extraction
  MaxDepth = 2
  WrapperKeys <- MCWrapperKeys
  Answers <- MCAnswers
  Categories = {"registration", "invoice", "expense", "title"}
  Typed = {"", "9", "$9"}
SPECIFICATION SubjectSpec
INVARIANTS
  TypesOK
  PlateFollows
  ReportsAddUp
  RepliesAreRecent
PROPERTIES
  GloveboxIsAShelf
  RowsAreRecent
  OnlyRevokedLose
  SyncConverges
CHECK_DEADLOCK FALSE
