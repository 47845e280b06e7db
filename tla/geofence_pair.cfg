\* Two requests at once; windows that are equal or touch; one late fix.
CONSTANTS
  Scanners = {a, b}
  TripWindows <- MCTrips
  ScanWindows <- MCScans
  Fixes = {0, 1, 2, 3, 4, 5}
  MaxInstant = 6
  Late = {1}
  Geometries <- MCGeometries
  MaxEdits = 1
  MaxFailures = 1
SPECIFICATION FairSpec
INVARIANTS
  TypeOK
  CoverageIsEarned
  NoPassLost
PROPERTY
  ScansComplete
CHECK_DEADLOCK FALSE
