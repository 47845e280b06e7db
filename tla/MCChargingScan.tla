--------------------------- MODULE MCChargingScan ---------------------------
(* Small instances of ChargingScan and RechargePaging for TLC. *)
EXTENDS RechargePaging, TLC

Between(a, b) == [from |-> a, to |-> b]

(* Windows that overlap, nest and cut charges at both ends. *)
MCWindowsPair == { Between(0, 5), Between(2, 8) }

(* Windows with one common start: a charge is only ever cut at its end. *)
MCWindowsAligned == { Between(0, 3), Between(0, 5), Between(0, 9) }

(* A later window that reaches further back than the first. *)
MCWindowsBackwards == { Between(3, 8), Between(0, 8) }

MCWindowsOne == { Between(0, 8) }

(* A pause within MergeGap, a pause beyond it, and a blip. *)
MCPatternsPair == { {1, 3, 4}, {0, 4, 5} }

MCPatternsSingle == { {0, 1, 4}, {1, 3, 4}, {0, 2, 4}, {2, 5, 6} }

MCSymmetry == Permutations(Scanners)
=============================================================================
