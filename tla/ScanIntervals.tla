---------------------------- MODULE ScanIntervals ----------------------------
(***************************************************************************)
(* The interval arithmetic under both scan ledgers: coalesce and           *)
(* computeGaps of geofence_detection.go, which charging_detection_service  *)
(* shares.  A coverage table is a set of rows; the Go code sorts them,     *)
(* merges them in one pass, and walks the result with a cursor.  The two   *)
(* passes are folds here, and are compared with the set of time cells      *)
(* the rows stand for (TimeCells).                                         *)
(***************************************************************************)
EXTENDS TimeCells, Sequences, SequencesExt

CONSTANTS
  MaxInstant,   \* rows and windows lie in 0 .. MaxInstant
  MaxRows       \* rows of one coverage table

VARIABLE
  rows          \* scanned ranges of one coverage table, as stored

Intervals == { iv \in [from : 0 .. MaxInstant, to : 0 .. MaxInstant] : iv.from < iv.to }

ScannedTime(ivs) == UNION { CellsOf(iv) : iv \in ivs }

-----------------------------------------------------------------------------
(* coalesce: sort by start, then one pass that grows the last interval. *)

SortedByFrom(ivs) == SetToSortSeq(ivs, LAMBDA a, b : a.from < b.from)

(* Mutant: overlapping intervals merge, touching ones do not. *)
OverlapOnly(merged, iv) ==
  IF merged # <<>> /\ iv.from < Last(merged).to
    THEN IF iv.to > Last(merged).to
           THEN Append(Front(merged), [Last(merged) EXCEPT !.to = iv.to])
           ELSE merged
    ELSE Append(merged, iv)

AppendOrGrow(merged, iv) ==
  IF merged # <<>> /\ iv.from <= Last(merged).to
    THEN IF iv.to > Last(merged).to
           THEN Append(Front(merged), [Last(merged) EXCEPT !.to = iv.to])
           ELSE merged
    ELSE Append(merged, iv)

coalesce(ivs) == FoldLeft(AppendOrGrow, <<>>, SortedByFrom(ivs))

-----------------------------------------------------------------------------
(* computeGaps: a cursor over the coalesced intervals. *)

(* Mutant: the cursor does not move past an interval that began before it. *)
CursorStuck(walk, iv, to) ==
  IF walk.done \/ iv.to <= walk.cur THEN walk
  ELSE IF iv.from >= to THEN [walk EXCEPT !.done = TRUE]
  ELSE IF iv.from > walk.cur
         THEN [gaps |-> Append(walk.gaps, [from |-> walk.cur, to |-> iv.from]),
               cur  |-> iv.to,
               done |-> iv.to >= to]
         ELSE walk

WalkInterval(walk, iv, to) ==
  IF walk.done \/ iv.to <= walk.cur THEN walk
  ELSE IF iv.from >= to THEN [walk EXCEPT !.done = TRUE]
  ELSE [gaps |-> IF iv.from > walk.cur
                   THEN Append(walk.gaps, [from |-> walk.cur, to |-> iv.from])
                   ELSE walk.gaps,
        cur  |-> iv.to,
        done |-> iv.to >= to]

computeGaps(covered, w) ==
  LET start == [gaps |-> <<>>, cur |-> w.from, done |-> FALSE]
      walk  == FoldLeft(LAMBDA k, iv : WalkInterval(k, iv, w.to), start, covered)
  IN  IF walk.cur < w.to
        THEN Append(walk.gaps, [from |-> walk.cur, to |-> w.to])
        ELSE walk.gaps

-----------------------------------------------------------------------------
(***************************************************************************)
(* mergeCoverage: read the rows, coalesce them with the new range, and     *)
(* replace the table by the result.  recordCoverage, the other writer of   *)
(* the geofence table, upserts a row on (fence, vehicle, scanned_from) and *)
(* merges nothing.                                                         *)
(***************************************************************************)
recordCoverage(iv) ==
  rows' = { r \in rows : r.from # iv.from } \union {iv}

mergeCoverage(iv) == rows' = ToSet(coalesce(rows \union {iv}))

Init == rows = {}

Merge  == \E iv \in Intervals : mergeCoverage(iv)

Record ==
  /\ Cardinality(rows) < MaxRows
  /\ \E iv \in Intervals : recordCoverage(iv)

Next == Merge \/ Record

Spec == Init /\ [][Next]_rows

-----------------------------------------------------------------------------
(***************************************************************************)
(* coalesce returns the one canonical form of the scanned time: the same   *)
(* time, in order, with unscanned time between any two neighbours.  Every  *)
(* reader of the coverage tables (computeGaps, and the delete-and-reinsert *)
(* of mergeCoverage, whose key is scanned_from) depends on it.             *)
(***************************************************************************)
CoalesceIsCanonical ==
  LET merged == coalesce(rows)
  IN  /\ ScannedTime(ToSet(merged)) = ScannedTime(rows)
      /\ \A i \in 1 .. (Len(merged) - 1) : merged[i].to < merged[i + 1].from

(***************************************************************************)
(* computeGaps on the coalesced rows returns, in order, the maximal        *)
(* unscanned stretches of the window: no scanned time is fetched again     *)
(* and no unscanned time is left out.                                      *)
(***************************************************************************)
GapsAreTheUnscannedTime ==
  LET merged == coalesce(rows)
  IN  \A window \in Intervals :
        LET gaps == computeGaps(merged, window)
        IN  /\ ToSet(gaps) = Gaps(ScannedTime(rows), window)
            /\ \A i \in 1 .. (Len(gaps) - 1) : gaps[i].to < gaps[i + 1].from
=============================================================================
