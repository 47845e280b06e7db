\* Two requests at once; a window scan that contains the trip.
CONSTANTS
  Scanners = {a, b}
  TripWindows <- MCTrips
  ScanWindows <- MCScansNested
  Fixes = {0, 1, 2, 3, 4, 5}
  MaxInstant = 6
  Late = {}
  Geometries <- MCOneGeometry
  MaxEdits = 0
  MaxFailures = 0
SPECIFICATION Spec
INVARIANTS
  ExactlyOnePass
CHECK_DEADLOCK FALSE
