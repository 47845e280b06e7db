\* Two requests at once, every interleaving, overlapping windows.
CONSTANTS
  Scanners = {a, b}
  NoScanner = NoScanner
  Windows <- MCWindowsPair
  ChargePatterns <- MCPatternsPair
  Blips = {0}
  MergeGap = 1
  Lateness = 1
  Margin = 3
  MinDuration = 2
  MaxInstant = 9
  MaxClock = 9
  PageSize = 1
  MaxPages = 3
  MaxWindow = 7
  MaxFailures = 1
SPECIFICATION Spec
SYMMETRY MCSymmetry
INVARIANTS
  TypeOK
  OnlySettledStored
  CoverageIsFinal
  NoSplitCharge
  NoKeyCollision
PROPERTY
  ImplementsLedger
CHECK_DEADLOCK FALSE
