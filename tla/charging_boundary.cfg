\* One request at a time; a later window reaches further back than the first.
CONSTANTS
  Scanners = {a}
  NoScanner = NoScanner
  Windows <- MCWindowsBackwards
  ChargePatterns <- MCPatternsSingle
  Blips = {0, 5}
  MergeGap = 1
  Lateness = 1
  Margin = 3
  MinDuration = 2
  MaxInstant = 9
  MaxClock = 9
  PageSize = 1
  MaxPages = 3
  MaxWindow = 7
  MaxFailures = 0
SPECIFICATION Spec
INVARIANTS
  ExactlyOneCopy
CHECK_DEADLOCK FALSE
