--------------------------- MODULE RechargePaging ---------------------------
(***************************************************************************)
(* RechargeSegments of telemetry_api.go: a gap is cut into chunks that     *)
(* telemetry-api's range limit admits, and each chunk is read page by page *)
(* behind a cursor.  ChargingScan takes its result for what the detector   *)
(* sees in the whole gap; PagingFindsEverySegment is the condition under   *)
(* which that is right.                                                    *)
(***************************************************************************)
EXTENDS ChargingScan, Sequences, SequencesExt

CONSTANTS
  PageSize,    \* rechargeSegmentsPageSize
  MaxPages,    \* rechargeSegmentsMaxPages
  MaxWindow    \* rechargeSegmentsMaxWindow

ASSUME PagingAssumption ==
  PageSize \in Nat \ {0} /\ MaxPages \in Nat \ {0} /\ MaxWindow \in Nat \ {0}

OldestFirst(S) == SetToSortSeq(S, LAMBDA a, b : a.from < b.from)

(* No cursor yet: every instant of a chunk is after it. *)
NoCursor == -1

(***************************************************************************)
(* One query (external): at most PageSize of the oldest segments of the    *)
(* chunk.  A cursor moves the detection window itself, so a session the    *)
(* cursor lies in would come back as its tail.                             *)
(***************************************************************************)
rechargeSegmentsPage(readings, chunk, after) ==
  LET window == [chunk EXCEPT !.from = IF after > @ THEN after ELSE @]
      found  == OldestFirst(Detect(readings \intersect CellsOf(window)))
  IN  SubSeq(found, 1, IF Len(found) < PageSize THEN Len(found) ELSE PageSize)

(* Mutant: the cursor is the last segment's start, as telemetry-api's docs suggest. *)
CursorAtStart(segs) == Last(segs).from

Cursor(segs) == Last(segs).to

(***************************************************************************)
(* The paging loop: stop at a page that is not full or at a cursor that    *)
(* does not move.  Still paging after MaxPages pages is an error.          *)
(***************************************************************************)
TurnPage(read, readings, chunk) ==
  IF read.done THEN read
  ELSE LET segs == rechargeSegmentsPage(readings, chunk, read.after)
           full == Len(segs) = PageSize
       IN  [all   |-> read.all \o segs,
            after |-> IF full THEN Cursor(segs) ELSE read.after,
            done  |-> ~full \/ Cursor(segs) = read.after]

ReadChunk(readings, chunk) ==
  FoldLeft(LAMBDA read, page : TurnPage(read, readings, chunk),
           [all |-> <<>>, after |-> NoCursor, done |-> FALSE],
           [page \in 1 .. MaxPages |-> page])

Chunks(g) ==
  { c \in [from : g.from .. g.to, to : g.from .. g.to] :
      /\ c.from < c.to
      /\ (c.from - g.from) % MaxWindow = 0
      /\ c.to = IF c.from + MaxWindow < g.to THEN c.from + MaxWindow ELSE g.to }

-----------------------------------------------------------------------------
(***************************************************************************)
(* Whatever a vehicle has charged, paging returns each chunk's segments in *)
(* order, none of them missing, shortened or repeated, and the chunks miss *)
(* no time of the gap.  (The cursor is the last segment's END "not its     *)
(* start as telemetry-api's docs suggest", and a busy vehicle's newest     *)
(* sessions used to be "silently missing from a single query".)            *)
(***************************************************************************)
PagingFindsEverySegment ==
  \A w \in Windows :
    /\ UNION { CellsOf(chunk) : chunk \in Chunks(w) } = CellsOf(w)
    /\ \A chunk \in Chunks(w) :
         LET read     == ReadChunk(arrived, chunk)
             expected == OldestFirst(Detect(arrived \intersect CellsOf(chunk)))
         IN  /\ read.all = expected
             /\ Len(expected) < PageSize * MaxPages => read.done

=============================================================================
