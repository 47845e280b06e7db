\* One request at a time; a period asked for in growing windows.
CONSTANTS
  Scanners = {a}
  NoScanner = NoScanner
  Windows <- MCWindowsAligned
  ChargePatterns <- MCPatternsSingle
  Blips = {0, 5}
  MergeGap = 1
  Lateness = 1
  Margin = 3
  MinDuration = 2
  MaxInstant = 9
  MaxClock = 9
  PageSize = 1
  MaxPages = 3
  MaxWindow = 7
  MaxFailures = 1
SPECIFICATION FairSpec
INVARIANTS
  ExactlyOneCopy
  AnswerIsExact
  PagingFindsEverySegment
PROPERTY
  SettledChargesGetStored
CHECK_DEADLOCK FALSE
