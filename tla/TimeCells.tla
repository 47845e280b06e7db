------------------------------ MODULE TimeCells ------------------------------
(***************************************************************************)
(* Time as the two scan ledgers (charging and geofence) use it.            *)
(*                                                                         *)
(* Time is cut into unit cells: cell c stands for [c, c + 1).  A Go        *)
(* timeInterval {from, to} is the record [from, to] of two instants, and   *)
(* it is worth the set of cells between them.  The ledgers only ever ask   *)
(* which time is scanned, so the modules that model them keep the scanned  *)
(* time as a set of cells; ScanIntervals checks that the row-and-slice     *)
(* code of coalesce and computeGaps computes exactly these sets.           *)
(***************************************************************************)
EXTENDS Integers

(* A timeInterval, or any record with the two instants. *)
CellsOf(iv) == iv.from .. (iv.to - 1)

(* Mutant: an empty stretch counts as a gap. *)
GapsWithEmpty(scanned, w) ==
  { g \in [from : w.from .. w.to, to : w.from .. w.to] :
      /\ g.from <= g.to
      /\ \A c \in CellsOf(g) : c \notin scanned
      /\ g.from = w.from \/ (g.from - 1) \in scanned
      /\ g.to = w.to \/ g.to \in scanned }

(***************************************************************************)
(* The maximal stretches of window w that are not scanned: what            *)
(* computeGaps returns when `scanned` is the time its intervals cover.     *)
(***************************************************************************)
Gaps(scanned, w) ==
  { g \in [from : w.from .. w.to, to : w.from .. w.to] :
      /\ g.from < g.to
      /\ \A c \in CellsOf(g) : c \notin scanned
      /\ g.from = w.from \/ (g.from - 1) \in scanned
      /\ g.to = w.to \/ g.to \in scanned }

=============================================================================
