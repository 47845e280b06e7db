\* One request at a time; the polygon is edited.
CONSTANTS
  Scanners = {a}
  TripWindows <- MCTrips
  ScanWindows <- MCScans
  Fixes = {0, 1, 2, 3, 4, 5}
  MaxInstant = 6
  Late = {}
  Geometries <- MCGeometries
  MaxEdits = 1
  MaxFailures = 0
SPECIFICATION Spec
INVARIANTS
  PassesNeverGoStale
CHECK_DEADLOCK FALSE
