\* Two edits of one member at once, the console writing in between, and a failure.
CONSTANTS
  Editors = {a, b}
  GroupScopes = {north}
  Unrestricted = Unrestricted
  ConsoleCaps = {"onboard_vehicles"}
  MaxConsole = 1
  MaxFailures = 1
SPECIFICATION Spec
SYMMETRY MCSymmetry
INVARIANTS
  TypeOK
  CapabilitiesSurvive
  NobodyInUnlisted
  EditsReachBothStores
CHECK_DEADLOCK FALSE
