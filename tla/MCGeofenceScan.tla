--------------------------- MODULE MCGeofenceScan ---------------------------
(* Small instances of GeofenceScan for TLC. *)
EXTENDS GeofenceScan, TLC

Between(a, b) == [from |-> a, to |-> b]

(* A trip, and a scan window that touches it. *)
MCTrips == { Between(0, 3) }
MCScans == { Between(3, 6) }

(* A window scan over the trip and what follows it. *)
MCScansNested == { Between(3, 6), Between(0, 6) }

(* Two passes in the first window; the second geometry has one, and none in
   the second window.  No pass begins on the edge two windows share. *)
MCGeometries == { {0, 2, 4, 5}, {1, 2} }

MCOneGeometry == { {0, 2, 5} }

MCSymmetry == Permutations(Scanners)
=============================================================================
