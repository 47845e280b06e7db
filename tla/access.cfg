\* Two requests of one wallet, two changes of what it may reach; any call may fail.
CONSTANTS
  Requests = {a, b}
  Vehicles = {car}
  Groups = {north}
  Synced = {car}
  TTL = 1
  FetchTime = 1
  MaxChanges = 2
\* FleetList
  Cars = {1, 2}
  Divisions = {"g", "h"}
  MaxListTurns = 2
\* GeofenceReads
  Tokens = {1, 2}
  Zones = {"g"}
  MaxScanVehicles = 1
  MaxScreenTurns = 1
\* TenantDoors
  Wallets = {"me", "her"}
  Me = "me"
  MaxDoorTurns = 1
\* VehicleReads
  Panels = {"left", "right"}
  Asks <- MCAsks
  Limit = 1
  behaviorMaxDays = 2
  LastDay = 2
  MaxReadTurns = 1
SPECIFICATION MCSpec
SYMMETRY MCSymmetry
INVARIANTS
  TypesOK
  RevocationTakesEffect
  OwnWritesShow
  RepliesHold
CHECK_DEADLOCK FALSE
