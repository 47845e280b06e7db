------------------------- MODULE GeofenceScanProofs -------------------------
(***************************************************************************)
(* Proofs about GeofenceScan, for every set of concurrent requests, every  *)
(* set of trips and scan windows, every set of fixes, of late ones and of  *)
(* polygons.                                                               *)
(***************************************************************************)
EXTENDS GeofenceScan, TimeCellsProofs

-----------------------------------------------------------------------------
(***************************************************************************)
(* Types.  TypeOK is a reader's version: the inductive one knows what each *)
(* request is about at each stage, and what it will insert.                *)
(***************************************************************************)
Windows  == TripWindows \union ScanWindows
PassRows == { p \in [entered : Fixes, exited : Fixes] : p.entered <= p.exited }

Types ==
  /\ fence \in Geometries
  /\ arrived \subseteq Fixes
  /\ passes \subseteq PassRows
  /\ coverage \subseteq Span
  /\ pc \in [Scanners -> Stages]
  /\ kind \in [Scanners -> {"none", "trip", "window"}]
  /\ win \in [Scanners -> Windows \union {NoWindow}]
  /\ shape \in [Scanners -> Geometries \union {{}}]
  /\ todo \in [Scanners -> SUBSET Span]
  /\ gap \in [Scanners -> Span \union {NoWindow}]
  /\ samples \in [Scanners -> SUBSET arrived]
  /\ toInsert \in [Scanners -> SUBSET PassRows]
  /\ merged \in [Scanners -> SUBSET Span]
  /\ edits \in Nat

(* What a request holds at each stage. *)
StageFits ==
  \A s \in Scanners :
    /\ pc[s] # "idle" => win[s] \in Windows
    /\ todo[s] # {} => pc[s] \in {"fetch", "clear", "insert"}
    /\ IF pc[s] \in {"clear", "insert"} THEN gap[s] \in Span ELSE gap[s] = NoWindow
    /\ toInsert[s] # {} => pc[s] = "insert"

-----------------------------------------------------------------------------
(***************************************************************************)
(* Coverage.  A window is made up of what was scanned before, of the gaps  *)
(* its request has still to fetch and of the one it is at.                 *)
(***************************************************************************)
WindowAccounted ==
  \A s \in Scanners : pc[s] # "idle" =>
    CellsOf(win[s]) \subseteq scanned \union Scanned(todo[s]) \union CellsOf(gap[s])

MergedIsEarned == \A s \in Scanners : Scanned(merged[s]) \subseteq scanned

CoverageInv == StageFits /\ WindowAccounted /\ MergedIsEarned /\ CoverageIsEarned

-----------------------------------------------------------------------------
(***************************************************************************)
(* Passes.  Two windows are the same or do not overlap, as the trips of a  *)
(* vehicle are, and no fix inside the geofence lies on an edge two of them *)
(* share: the DELETE takes passes that begin on either end of its gap.     *)
(***************************************************************************)
WindowsApart ==
  \A w, v \in Windows :
    /\ w = v \/ w.to <= v.from \/ v.to <= w.from
    /\ w.to = v.from => \A G \in Geometries : v.from \notin Fixes \intersect G

(* A window a row covers in part, it covers whole. *)
Closed(r) ==
  \A w \in Windows : \A c \in CellsOf(w) : c \in CellsOf(r) => CellsOf(w) \subseteq CellsOf(r)

(* Rows, gaps and passes do not cut windows, and a request knows the polygon. *)
WholeWindows ==
  /\ \A r \in coverage : Closed(r)
  /\ \A s \in Scanners :
       /\ \A r \in merged[s] : Closed(r)
       /\ todo[s] \subseteq Windows
       /\ gap[s] \in Windows \union {NoWindow}
       /\ pc[s] # "idle" => shape[s] = fence

InWindow(p, w) == w.from <= p.entered /\ p.exited < w.to

PassesInWindows ==
  /\ \A p \in passes : p.entered \in fence /\ \E w \in Windows : InWindow(p, w)
  /\ \A s \in Scanners : \A p \in toInsert[s] : p.entered \in fence /\ InWindow(p, gap[s])

(* The fixes NoPassLost speaks of. *)
Good == (fence \intersect (Fixes \ Late)) \ torn

SamplesComplete ==
  \A s \in Scanners : pc[s] = "clear" =>
    /\ samples[s] \subseteq CellsOf(gap[s])
    /\ CellsOf(gap[s]) \intersect (Fixes \ Late) \subseteq samples[s]

(* What is left to insert are runs apart, and leaves out nothing from the first on. *)
LeftInOrder ==
  \A s \in Scanners : \A p \in toInsert[s] :
    /\ \A q \in toInsert[s] : q = p \/ q.exited < p.entered \/ p.exited < q.entered
    /\ \A c \in Good \intersect CellsOf(gap[s]) : p.entered <= c => InPass(c, toInsert[s])

(***************************************************************************)
(* The argument for key violations: from a stored pass on, every fix of    *)
(* its window is stored, or will be by a request that is past the pass and *)
(* so cannot be stopped by its key.                                        *)
(***************************************************************************)
HeldPast(c, q) == \E t \in Scanners : InPass(c, toInsert[t]) /\ \A p \in toInsert[t] : q.entered < p.entered

RestIsHeld ==
  \A q \in passes : \A w \in Windows : InWindow(q, w) =>
    \A c \in Good \intersect CellsOf(w) : q.entered <= c => InPass(c, passes) \/ HeldPast(c, q)

Held(c) == InPass(c, passes) \/ \E s \in Scanners : InPass(c, toInsert[s])

ScannedIsHeld == \A c \in Good \intersect scanned : Held(c)
GapIsHeld == \A s \in Scanners : pc[s] = "insert" => \A c \in Good \intersect CellsOf(gap[s]) : Held(c)

Lossless ==
  edits = 0 =>
    /\ WholeWindows /\ PassesInWindows /\ SamplesComplete
    /\ LeftInOrder /\ RestIsHeld /\ ScannedIsHeld /\ GapIsHeld

ArrivedOnTime == Fixes \ Late \subseteq arrived

IInv == Types /\ CoverageInv /\ ArrivedOnTime /\ Lossless

-----------------------------------------------------------------------------
(* What the helpers return. *)

LEMMA WindowsAreSpans == Windows \subseteq Span
BY GeofenceAssumption DEF Windows

LEMMA SpanEnds ==
  ASSUME NEW w \in Span
  PROVE  w.from \in Nat /\ w.to \in Nat /\ w.from < w.to /\ w.to <= MaxInstant
BY GeofenceAssumption DEF Span

LEMMA GapsAreSpans ==
  ASSUME NEW cells, NEW w \in Span
  PROVE  Gaps(cells, w) \subseteq Span
<1> SUFFICES ASSUME NEW g \in Gaps(cells, w)
             PROVE  g \in Span
  OBVIOUS
<1>1. /\ w.from \in Nat /\ w.to \in Nat /\ w.to <= MaxInstant
  BY SpanEnds
<1>2. /\ g.from \in Nat /\ g.to \in Nat /\ g.from < g.to /\ g.to <= w.to
      /\ g = [from |-> g.from, to |-> g.to]
  BY <1>1, GapsWithin
<1> QED
  BY <1>1, <1>2, GeofenceAssumption DEF Span

(* A merged row is an interval, and covers nothing that its rows did not. *)
LEMMA CoalesceWithin ==
  ASSUME NEW rows, NEW r \in coalesce(rows)
  PROVE  r \in Span /\ CellsOf(r) \subseteq Scanned(rows)
<1>1. Horizon.from = 0 /\ Horizon.to = MaxInstant /\ MaxInstant \in Nat
  BY GeofenceAssumption DEF Horizon
<1>2. /\ r.from \in Nat /\ r.to \in Nat /\ 0 <= r.from /\ r.from < r.to /\ r.to <= MaxInstant
      /\ r = [from |-> r.from, to |-> r.to]
      /\ CellsOf(r) \subseteq CellsOf(Horizon)
      /\ \A c \in CellsOf(r) : c \notin CellsOf(Horizon) \ Scanned(rows)
  BY <1>1, GapsWithin DEF coalesce
<1> QED
  BY <1>1, <1>2 DEF Span

LEMMA DetectedAreRows ==
  ASSUME NEW S \in SUBSET Fixes, NEW G
  PROVE  detectPasses(S, G) \in SUBSET PassRows
BY DEF detectPasses, PassRows, RunsOn

-----------------------------------------------------------------------------
(* Type correctness. *)

LEMMA InitTypes == Init => Types
BY DEF Init, Types, Stages, PassRows

LEMMA NextTypes == Types /\ StageFits /\ [Next]_vars => Types'
<1> SUFFICES ASSUME Types, StageFits, [Next]_vars
             PROVE  Types'
  OBVIOUS
<1> USE DEF Types, Stages, world, database, request, history
<1>1. CASE Arrive
  BY <1>1 DEF Arrive
<1>2. CASE EditGeometry
  BY <1>2 DEF EditGeometry
<1>3. ASSUME NEW s \in Scanners, NEW k \in {"trip", "window"}, NEW w \in Windows, NEW gaps \in SUBSET Span,
             Begin(s, k, w, gaps)
      PROVE  Types'
  BY <1>3 DEF Begin
<1>4. ASSUME NEW s \in Scanners, Ask(s)
      PROVE  Types'
  <2>1. ASSUME NEW w \in TripWindows, TripGeofences(s, w)
        PROVE  Types'
    <3>1. w \in Windows /\ w \in Span
      BY WindowsAreSpans DEF Windows
    <3>2. (IF TripUncovered(w) THEN {w} ELSE {}) \in SUBSET Span
      BY <3>1
    <3> QED
      BY <1>3, <2>1, <3>1, <3>2 DEF TripGeofences
  <2>2. ASSUME NEW w \in ScanWindows, WindowScan(s, w)
        PROVE  Types'
    <3>1. w \in Windows /\ w \in Span
      BY WindowsAreSpans DEF Windows
    <3> QED
      BY <1>3, <2>2, <3>1, GapsAreSpans DEF WindowScan
  <2> QED
    BY <1>4, <2>1, <2>2 DEF Ask
<1>5. ASSUME NEW s \in Scanners, Fetch(s)
      PROVE  Types'
  BY <1>5 DEF Fetch, GeofenceSamples
<1>6. ASSUME NEW s \in Scanners, Clear(s)
      PROVE  Types'
  <2>1. samples[s] \in SUBSET Fixes
    OBVIOUS
  <2>2. detectPasses(samples[s], shape[s]) \in SUBSET PassRows
    BY <2>1, DetectedAreRows
  <2>3. DeletePasses(gap[s]) \subseteq PassRows
    BY DEF DeletePasses
  <2> QED
    BY <1>6, <2>2, <2>3 DEF Clear
<1>7. ASSUME NEW s \in Scanners, InsertPass(s)
      PROVE  Types'
  BY <1>7 DEF InsertPass, InsertRow
<1>8. ASSUME NEW s \in Scanners, GapDone(s)
      PROVE  Types'
  BY <1>8 DEF GapDone, AfterGap
<1>9. ASSUME NEW s \in Scanners, RecordCoverage(s)
      PROVE  Types'
  <2>1. win[s] \in Span
    BY <1>9, WindowsAreSpans DEF RecordCoverage, StageFits
  <2>2. UpsertCoverage(win[s]) \subseteq Span
    BY <2>1 DEF UpsertCoverage
  <2> QED
    BY <1>9, <2>2 DEF RecordCoverage, Finish
<1>10. ASSUME NEW s \in Scanners, MergeRead(s)
       PROVE  Types'
  <2>1. coalesce(CoverageRows \union {win[s]}) \in SUBSET Span
    BY CoalesceWithin
  <2> QED
    BY <1>10, <2>1 DEF MergeRead
<1>11. ASSUME NEW s \in Scanners, MergeClear(s)
       PROVE  Types'
  BY <1>11 DEF MergeClear, DeleteCoverage
<1>12. ASSUME NEW s \in Scanners, MergeInsert(s)
       PROVE  Types'
  <2>1. PICK r \in merged[s] :
          /\ coverage' = InsertCoverage(r)
          /\ \/ Finish(s)
             \/ /\ merged' = [merged EXCEPT ![s] = @ \ {r}]
                /\ UNCHANGED <<pc, kind, win, shape, todo, gap, samples, toInsert>>
    BY <1>12 DEF MergeInsert
  <2>2. InsertCoverage(r) \subseteq Span
    BY <2>1 DEF InsertCoverage
  <2>3. UNCHANGED <<world, passes>>
    BY <1>12 DEF MergeInsert
  <2>4. CASE Finish(s)
    BY <2>1, <2>2, <2>3, <2>4 DEF Finish
  <2>5. CASE ~Finish(s)
    BY <2>1, <2>2, <2>3, <2>5
  <2> QED
    BY <2>4, <2>5
<1>13. ASSUME NEW s \in Scanners, InsertFails(s) \/ Fail(s)
       PROVE  Types'
  BY <1>13 DEF InsertFails, Fail, Finish
<1>14. CASE UNCHANGED vars
  BY <1>14 DEF vars
<1> QED
  BY <1>1, <1>2, <1>4, <1>5, <1>6, <1>7, <1>8, <1>9, <1>10, <1>11, <1>12, <1>13, <1>14 DEF Next, Progress

-----------------------------------------------------------------------------
(***************************************************************************)
(* What a step leaves alone: the other requests.  Every action of a        *)
(* request is one of these.                                                *)
(***************************************************************************)
Others(s) ==
  \A t \in Scanners \ {s} :
    /\ pc'[t] = pc[t] /\ win'[t] = win[t] /\ shape'[t] = shape[t] /\ todo'[t] = todo[t]
    /\ gap'[t] = gap[t] /\ samples'[t] = samples[t] /\ toInsert'[t] = toInsert[t]
    /\ merged'[t] = merged[t]

LEMMA OthersKept ==
  ASSUME Types, NEW s \in Scanners, Ask(s) \/ Progress(s) \/ Fail(s)
  PROVE  Others(s)
<1> USE DEF Types, Others, request, Finish
<1>1. ASSUME NEW k, NEW w, NEW gaps, Begin(s, k, w, gaps)
      PROVE  Others(s)
  BY <1>1 DEF Begin
<1>2. CASE Ask(s)
  BY <1>1, <1>2 DEF Ask, TripGeofences, WindowScan
<1>3. CASE Fetch(s) \/ Clear(s)
  BY <1>3 DEF Fetch, Clear
<1>4. CASE InsertPass(s) \/ GapDone(s)
  BY <1>4 DEF InsertPass, GapDone
<1>5. CASE MergeRead(s) \/ MergeClear(s)
  BY <1>5 DEF MergeRead, MergeClear
<1>6. CASE MergeInsert(s)
  BY <1>6 DEF MergeInsert
<1>7. CASE InsertFails(s) \/ RecordCoverage(s) \/ Fail(s)
  BY <1>7 DEF InsertFails, RecordCoverage, Fail
<1> QED
  BY <1>2, <1>3, <1>4, <1>5, <1>6, <1>7 DEF Progress

(* What ends a request leaves it with. *)
LEMMA FinishEmpties ==
  ASSUME Types, NEW s \in Scanners, Finish(s)
  PROVE  /\ pc'[s] = "idle" /\ win'[s] = NoWindow /\ todo'[s] = {} /\ gap'[s] = NoWindow
         /\ samples'[s] = {} /\ toInsert'[s] = {} /\ merged'[s] = {}
BY DEF Types, Finish

-----------------------------------------------------------------------------
(* CoverageIsEarned. *)

LEMMA InitCoverageInv == Init => CoverageInv
BY DEF Init, CoverageInv, StageFits, WindowAccounted, MergedIsEarned, CoverageIsEarned, Scanned

(* It is enough to look at the request that takes the step and at the table. *)
LEMMA CoverageOfOne ==
  ASSUME CoverageInv, NEW s \in Scanners, Others(s), scanned \subseteq scanned',
         /\ pc'[s] # "idle" => win'[s] \in Windows
         /\ todo'[s] # {} => pc'[s] \in {"fetch", "clear", "insert"}
         /\ IF pc'[s] \in {"clear", "insert"} THEN gap'[s] \in Span ELSE gap'[s] = NoWindow
         /\ toInsert'[s] # {} => pc'[s] = "insert",
         pc'[s] # "idle" => CellsOf(win'[s]) \subseteq scanned' \union Scanned(todo'[s]) \union CellsOf(gap'[s]),
         Scanned(merged'[s]) \subseteq scanned',
         Scanned(coverage') \subseteq scanned'
  PROVE  CoverageInv'
<1>1. \A t \in Scanners : t = s \/ t \in Scanners \ {s}
  OBVIOUS
<1>2. StageFits'
  BY <1>1 DEF CoverageInv, StageFits, Others
<1>3. WindowAccounted'
  BY <1>1 DEF CoverageInv, WindowAccounted, Others
<1>4. MergedIsEarned'
  BY <1>1 DEF CoverageInv, MergedIsEarned, Others
<1> QED
  BY <1>2, <1>3, <1>4 DEF CoverageInv, CoverageIsEarned

LEMMA ScannedOfFewer ==
  ASSUME NEW rows, NEW fewer \in SUBSET rows
  PROVE  Scanned(fewer) \subseteq Scanned(rows)
BY DEF Scanned

LEMMA NextCoverageInv == Types /\ CoverageInv /\ [Next]_vars => CoverageInv'
<1> SUFFICES ASSUME Types, CoverageInv, [Next]_vars
             PROVE  CoverageInv'
  OBVIOUS
<1> USE DEF world, database, request, history
<1>1. CASE Arrive \/ EditGeometry \/ UNCHANGED vars
  <2>1. UNCHANGED <<coverage, request, scanned>>
    BY <1>1 DEF Arrive, EditGeometry, vars
  <2> QED
    BY <2>1 DEF CoverageInv, StageFits, WindowAccounted, MergedIsEarned, CoverageIsEarned
<1>2. ASSUME NEW s \in Scanners, Ask(s) \/ Progress(s) \/ Fail(s), UNCHANGED <<coverage, scanned>>,
             Finish(s)
      PROVE  CoverageInv'
  <2>1. /\ pc'[s] = "idle" /\ todo'[s] = {} /\ gap'[s] = NoWindow /\ toInsert'[s] = {} /\ merged'[s] = {}
    BY <1>2, FinishEmpties
  <2>2. Scanned(merged'[s]) = {}
    BY <2>1 DEF Scanned
  <2>3. Scanned(coverage') \subseteq scanned'
    BY <1>2 DEF CoverageInv, CoverageIsEarned
  <2> QED
    BY <1>2, <2>1, <2>2, <2>3, OthersKept, CoverageOfOne
<1>3. ASSUME NEW s \in Scanners, NEW k, NEW w \in Windows, NEW gaps, Begin(s, k, w, gaps), Ask(s),
             CellsOf(w) \subseteq scanned \union Scanned(gaps)
      PROVE  CoverageInv'
  <2>1. /\ pc[s] = "idle" /\ pc'[s] = "fetch" /\ win'[s] = w /\ todo'[s] = gaps
        /\ gap'[s] = gap[s] /\ toInsert'[s] = toInsert[s] /\ merged'[s] = merged[s]
        /\ UNCHANGED <<coverage, scanned>>
    BY <1>3 DEF Begin, Types
  <2>2. /\ gap[s] = NoWindow /\ toInsert[s] = {} /\ Scanned(merged[s]) \subseteq scanned
        /\ Scanned(coverage) \subseteq scanned
    BY <2>1 DEF CoverageInv, StageFits, MergedIsEarned, CoverageIsEarned
  <2> QED
    BY <1>3, <2>1, <2>2, OthersKept, CoverageOfOne
<1>4. ASSUME NEW s \in Scanners, Ask(s)
      PROVE  CoverageInv'
  <2>1. ASSUME NEW w \in TripWindows, TripGeofences(s, w)
        PROVE  CoverageInv'
    <3>1. Begin(s, "trip", w, {w})
      BY <2>1 DEF TripGeofences, Begin
    <3>2. CellsOf(w) \subseteq Scanned({w})
      BY DEF Scanned
    <3> QED
      BY <1>3, <1>4, <3>1, <3>2 DEF Windows
  <2>2. ASSUME NEW w \in ScanWindows, WindowScan(s, w)
        PROVE  CoverageInv'
    <3>1. w \in Windows /\ w.from \in Nat /\ w.to \in Nat
      BY WindowsAreSpans, SpanEnds DEF Windows
    <3>2. \A c \in CellsOf(w) : c \in Scanned(coverage) \/ c \in Scanned(Gaps(Scanned(coverage), w))
      BY <3>1, GapsOverlookNothing DEF Scanned
    <3>3. CellsOf(w) \subseteq scanned \union Scanned(Gaps(Scanned(coverage), w))
      BY <3>2 DEF CoverageInv, CoverageIsEarned
    <3> QED
      BY <1>3, <1>4, <2>2, <3>1, <3>3 DEF WindowScan
  <2> QED
    BY <1>4, <2>1, <2>2 DEF Ask
<1>5. ASSUME NEW s \in Scanners, Fetch(s)
      PROVE  CoverageInv'
  <2>1. PICK g \in todo[s] : gap'[s] = g /\ todo'[s] = todo[s] \ {g}
    BY <1>5 DEF Fetch, Types
  <2>2. /\ pc[s] = "fetch" /\ pc'[s] = "clear" /\ win'[s] = win[s] /\ toInsert'[s] = toInsert[s]
        /\ merged'[s] = merged[s] /\ UNCHANGED <<coverage, scanned>>
    BY <1>5 DEF Fetch, Types
  <2>3. /\ win[s] \in Windows /\ g \in Span /\ toInsert[s] = {}
        /\ gap[s] = NoWindow
        /\ CellsOf(win[s]) \subseteq scanned \union Scanned(todo[s]) \union CellsOf(gap[s])
        /\ Scanned(merged[s]) \subseteq scanned /\ Scanned(coverage) \subseteq scanned
    BY <2>1, <2>2 DEF CoverageInv, StageFits, WindowAccounted, MergedIsEarned, CoverageIsEarned, Types
  <2>4. CellsOf(NoWindow) = {}
    BY DEF CellsOf, NoWindow
  <2>5. Scanned(todo[s]) \subseteq Scanned(todo[s] \ {g}) \union CellsOf(g)
    BY DEF Scanned
  <2>6. CellsOf(win'[s]) \subseteq scanned' \union Scanned(todo'[s]) \union CellsOf(gap'[s])
    BY <2>1, <2>2, <2>3, <2>4, <2>5
  <2> QED
    BY <1>5, <2>1, <2>2, <2>3, <2>6, OthersKept, CoverageOfOne DEF Progress
<1>6. ASSUME NEW s \in Scanners, Clear(s) \/ InsertPass(s) \/ MergeRead(s) \/ MergeClear(s)
      PROVE  CoverageInv'
  <2>1. /\ win'[s] = win[s] /\ todo'[s] = todo[s] /\ gap'[s] = gap[s] /\ UNCHANGED scanned
        /\ coverage' \in {coverage, {}}
    BY <1>6 DEF Clear, InsertPass, MergeRead, MergeClear, DeleteCoverage
  <2>2. \/ pc[s] = "clear" /\ pc'[s] = "insert"
        \/ pc[s] = "insert" /\ pc'[s] = "insert"
        \/ pc[s] = "mergeRead" /\ pc'[s] = "mergeClear" /\ toInsert'[s] = toInsert[s]
        \/ pc[s] = "mergeClear" /\ pc'[s] = "mergeInsert" /\ toInsert'[s] = toInsert[s]
    BY <1>6 DEF Clear, InsertPass, MergeRead, MergeClear, Types
  <2>3. /\ pc'[s] # "idle" /\ win'[s] \in Windows
        /\ todo'[s] # {} => pc'[s] \in {"fetch", "clear", "insert"}
        /\ IF pc'[s] \in {"clear", "insert"} THEN gap'[s] \in Span ELSE gap'[s] = NoWindow
        /\ toInsert'[s] # {} => pc'[s] = "insert"
    BY <2>1, <2>2 DEF CoverageInv, StageFits
  <2>4. CellsOf(win'[s]) \subseteq scanned' \union Scanned(todo'[s]) \union CellsOf(gap'[s])
    BY <2>1, <2>2 DEF CoverageInv, WindowAccounted
  <2>5. Scanned(coverage') \subseteq scanned'
    BY <2>1 DEF CoverageInv, CoverageIsEarned, Scanned
  <2>6. Scanned(merged'[s]) \subseteq scanned'
    <3>1. CASE MergeRead(s)
      <4>1. pc[s] = "mergeRead" /\ merged'[s] = coalesce(coverage \union {win[s]})
        BY <3>1 DEF MergeRead, CoverageRows, Types
      <4>2. todo[s] = {} /\ gap[s] = NoWindow
        BY <4>1 DEF CoverageInv, StageFits
      <4>3. CellsOf(NoWindow) = {} /\ Scanned({}) = {}
        BY DEF CellsOf, NoWindow, Scanned
      <4>4. CellsOf(win[s]) \subseteq scanned
        BY <4>1, <4>2, <4>3 DEF CoverageInv, WindowAccounted
      <4>5. Scanned(coverage \union {win[s]}) \subseteq scanned
        BY <4>4 DEF CoverageInv, CoverageIsEarned, Scanned
      <4>6. \A r \in merged'[s] : CellsOf(r) \subseteq scanned
        BY <4>1, <4>5, CoalesceWithin
      <4> QED
        BY <2>1, <4>6 DEF Scanned
    <3>2. CASE ~MergeRead(s)
      <4>1. merged'[s] = merged[s]
        BY <1>6, <3>2 DEF Clear, InsertPass, MergeClear
      <4> QED
        BY <2>1, <4>1 DEF CoverageInv, MergedIsEarned
    <3> QED
      BY <3>1, <3>2
  <2> QED
    BY <1>6, <2>1, <2>3, <2>4, <2>5, <2>6, OthersKept, CoverageOfOne DEF Progress
<1>7. ASSUME NEW s \in Scanners, GapDone(s)
      PROVE  CoverageInv'
  <2>1. /\ pc[s] = "insert" /\ pc'[s] = AfterGap(s) /\ toInsert[s] = {}
        /\ scanned' = scanned \union CellsOf(gap[s]) /\ gap'[s] = NoWindow
        /\ win'[s] = win[s] /\ todo'[s] = todo[s] /\ toInsert'[s] = toInsert[s]
        /\ merged'[s] = merged[s] /\ UNCHANGED coverage
    BY <1>7 DEF GapDone, Types
  <2>2. /\ pc'[s] \in {"fetch", "record", "mergeRead"}
        /\ todo[s] # {} => pc'[s] = "fetch"
    BY <2>1 DEF AfterGap
  <2>3. /\ win[s] \in Windows
        /\ CellsOf(win[s]) \subseteq scanned \union Scanned(todo[s]) \union CellsOf(gap[s])
        /\ Scanned(merged[s]) \subseteq scanned /\ Scanned(coverage) \subseteq scanned
    BY <2>1 DEF CoverageInv, StageFits, WindowAccounted, MergedIsEarned, CoverageIsEarned
  <2> QED
    BY <1>7, <2>1, <2>2, <2>3, OthersKept, CoverageOfOne DEF Progress
<1>8. ASSUME NEW s \in Scanners, RecordCoverage(s)
      PROVE  CoverageInv'
  <2>1. /\ pc[s] = "record" /\ coverage' = UpsertCoverage(win[s]) /\ Finish(s) /\ UNCHANGED scanned
    BY <1>8 DEF RecordCoverage
  <2>2. todo[s] = {} /\ gap[s] = NoWindow
    BY <2>1 DEF CoverageInv, StageFits
  <2>3. CellsOf(NoWindow) = {} /\ Scanned({}) = {}
    BY DEF CellsOf, NoWindow, Scanned
  <2>4. CellsOf(win[s]) \subseteq scanned
    BY <2>1, <2>2, <2>3 DEF CoverageInv, WindowAccounted
  <2>5. Scanned(coverage') \subseteq scanned'
    BY <2>1, <2>4 DEF CoverageInv, CoverageIsEarned, UpsertCoverage, Scanned
  <2> QED
    BY <1>8, <2>1, <2>3, <2>5, OthersKept, FinishEmpties, CoverageOfOne DEF Progress
<1>9. ASSUME NEW s \in Scanners, MergeInsert(s)
      PROVE  CoverageInv'
  <2>1. PICK r \in merged[s] :
          /\ coverage' = InsertCoverage(r)
          /\ \/ Finish(s)
             \/ /\ merged' = [merged EXCEPT ![s] = @ \ {r}]
                /\ UNCHANGED <<pc, kind, win, shape, todo, gap, samples, toInsert>>
    BY <1>9 DEF MergeInsert
  <2>2. pc[s] = "mergeInsert" /\ UNCHANGED scanned
    BY <1>9 DEF MergeInsert
  <2>3. CellsOf(r) \subseteq scanned
    BY <2>1 DEF CoverageInv, MergedIsEarned, Scanned
  <2>4. Scanned(coverage') \subseteq scanned'
    BY <2>1, <2>2, <2>3 DEF CoverageInv, CoverageIsEarned, InsertCoverage, Scanned
  <2>5. CASE Finish(s)
    <3>1. Scanned({}) = {}
      BY DEF Scanned
    <3> QED
      BY <1>9, <2>2, <2>4, <2>5, <3>1, OthersKept, FinishEmpties, CoverageOfOne DEF Progress
  <2>6. CASE ~Finish(s)
    <3>1. /\ merged'[s] = merged[s] \ {r}
          /\ UNCHANGED <<pc, win, todo, gap, toInsert>>
      BY <2>1, <2>6 DEF Types
    <3>2. Scanned(merged'[s]) \subseteq scanned'
      BY <2>2, <3>1, ScannedOfFewer DEF CoverageInv, MergedIsEarned
    <3> QED
      BY <1>9, <2>2, <2>4, <3>1, <3>2, OthersKept, CoverageOfOne
         DEF Progress, CoverageInv, StageFits, WindowAccounted
  <2> QED
    BY <2>5, <2>6
<1>10. ASSUME NEW s \in Scanners, InsertFails(s) \/ Fail(s)
       PROVE  CoverageInv'
  BY <1>2, <1>10 DEF InsertFails, Fail, Progress
<1> QED
  BY <1>1, <1>4, <1>5, <1>6, <1>7, <1>8, <1>9, <1>10 DEF Next, Progress

-----------------------------------------------------------------------------
(* detectPasses. *)

(* The passes of one fetch do not overlap. *)
LEMMA DetectedApart ==
  ASSUME NEW S \in SUBSET Nat, NEW G, NEW p \in detectPasses(S, G), NEW q \in detectPasses(S, G)
  PROVE  q = p \/ q.exited < p.entered \/ p.exited < q.entered
<1>1. /\ p.entered \in S /\ p.exited \in S /\ p = [entered |-> p.entered, exited |-> p.exited]
      /\ RunsOn(S, G, p.entered, p.exited)
      /\ \A c \in S : c < p.entered => ~RunsOn(S, G, c, p.entered)
      /\ \A c \in S : p.exited < c => ~RunsOn(S, G, p.exited, c)
  BY DEF detectPasses
<1>2. /\ q.entered \in S /\ q.exited \in S /\ q = [entered |-> q.entered, exited |-> q.exited]
      /\ RunsOn(S, G, q.entered, q.exited)
      /\ \A c \in S : c < q.entered => ~RunsOn(S, G, c, q.entered)
      /\ \A c \in S : q.exited < c => ~RunsOn(S, G, q.exited, c)
  BY DEF detectPasses
<1>3. CASE p.entered < q.entered
  <2>1. SUFFICES ASSUME q.entered <= p.exited
                 PROVE  FALSE
    BY <1>1, <1>2
  <2>2. RunsOn(S, G, p.entered, q.entered)
    BY <1>1, <1>2, <1>3, <2>1 DEF RunsOn
  <2> QED
    BY <1>1, <1>2, <1>3, <2>2
<1>4. CASE q.entered < p.entered
  <2>1. SUFFICES ASSUME p.entered <= q.exited
                 PROVE  FALSE
    BY <1>1, <1>2
  <2>2. RunsOn(S, G, q.entered, p.entered)
    BY <1>1, <1>2, <1>4, <2>1 DEF RunsOn
  <2> QED
    BY <1>1, <1>2, <1>4, <2>2
<1>5. CASE p.entered = q.entered
  <2>1. ~(p.exited < q.exited)
    <3>1. SUFFICES ASSUME p.exited < q.exited
                   PROVE  FALSE
      OBVIOUS
    <3>2. RunsOn(S, G, p.exited, q.exited)
      BY <1>1, <1>2, <1>5, <3>1 DEF RunsOn
    <3> QED
      BY <1>1, <1>2, <3>1, <3>2
  <2>2. ~(q.exited < p.exited)
    <3>1. SUFFICES ASSUME q.exited < p.exited
                   PROVE  FALSE
      OBVIOUS
    <3>2. RunsOn(S, G, q.exited, p.exited)
      BY <1>1, <1>2, <1>5, <3>1 DEF RunsOn
    <3> QED
      BY <1>1, <1>2, <3>1, <3>2
  <2>3. p.exited = q.exited
    BY <1>1, <1>2, <2>1, <2>2
  <2> QED
    BY <1>1, <1>2, <1>5, <2>3
<1> QED
  BY <1>1, <1>2, <1>3, <1>4, <1>5

(* Every fix inside the polygon is in one of them: the run that is still   *)
(* open at the last sample is emitted as well.                             *)
LEMMA DetectedComplete ==
  ASSUME NEW S \in SUBSET Nat, NEW n \in Nat, \A x \in S : x <= n, NEW G, NEW c \in S, c \in G
  PROVE  InPass(c, detectPasses(S, G))
<1> DEFINE starts == { a \in S : RunsOn(S, G, a, c) }
           ends   == { b \in S : RunsOn(S, G, c, b) }
<1>1. c \in Nat /\ c \in starts /\ c \in ends
  BY DEF RunsOn
<1>2. starts \in SUBSET Nat /\ ends \in SUBSET Nat /\ \A b \in ends : b <= n
  OBVIOUS
<1>3. PICK a \in starts : \A x \in starts : a <= x
  BY <1>1, <1>2, EarliestExists
<1>4. PICK b \in ends : \A y \in ends : y <= b
  BY <1>1, <1>2, LatestExists
<1>5. a \in S /\ b \in S /\ a \in Nat /\ b \in Nat /\ RunsOn(S, G, a, c) /\ RunsOn(S, G, c, b)
  OBVIOUS
<1>6. a <= c /\ c <= b
  BY <1>5 DEF RunsOn
<1>7. RunsOn(S, G, a, b)
  BY <1>1, <1>5, <1>6 DEF RunsOn
<1>8. ASSUME NEW d \in S, d < a, RunsOn(S, G, d, a)
      PROVE  FALSE
  <2>1. RunsOn(S, G, d, c)
    BY <1>1, <1>5, <1>6, <1>8 DEF RunsOn
  <2> QED
    BY <1>3, <1>5, <1>8, <2>1
<1>9. ASSUME NEW d \in S, b < d, RunsOn(S, G, b, d)
      PROVE  FALSE
  <2>1. RunsOn(S, G, c, d)
    BY <1>1, <1>5, <1>6, <1>9 DEF RunsOn
  <2> QED
    BY <1>4, <1>5, <1>9, <2>1
<1> DEFINE p == [entered |-> a, exited |-> b]
<1>10. p \in detectPasses(S, G)
  BY <1>5, <1>7, <1>8, <1>9 DEF detectPasses
<1>11. p.entered <= c /\ c <= p.exited
  BY <1>6
<1> QED
  BY <1>10, <1>11 DEF InPass

LEMMA DetectedInside ==
  ASSUME NEW S \in SUBSET Nat, NEW G, NEW p \in detectPasses(S, G)
  PROVE  p.entered \in S /\ p.exited \in S /\ p.entered <= p.exited /\ p.entered \in G
<1>1. p.entered \in S /\ p.exited \in S /\ RunsOn(S, G, p.entered, p.exited)
  BY DEF detectPasses
<1>2. p.entered \in Nat /\ p.entered <= p.exited
  BY <1>1 DEF RunsOn
<1> QED
  BY <1>1, <1>2 DEF RunsOn

-----------------------------------------------------------------------------
(* Windows that are apart. *)

LEMMA WindowsAreClosed ==
  ASSUME WindowsApart, NEW w \in Windows
  PROVE  Closed(w)
<1> SUFFICES ASSUME NEW v \in Windows, NEW c \in CellsOf(v), c \in CellsOf(w)
             PROVE  CellsOf(v) \subseteq CellsOf(w)
  BY DEF Closed
<1>1. v.from \in Nat /\ v.to \in Nat /\ w.from \in Nat /\ w.to \in Nat
  BY WindowsAreSpans, SpanEnds
<1>2. v.from <= c /\ c < v.to /\ w.from <= c /\ c < w.to /\ c \in Int
  BY <1>1 DEF CellsOf
<1>3. w = v \/ w.to <= v.from \/ v.to <= w.from
  BY DEF WindowsApart
<1> QED
  BY <1>1, <1>2, <1>3

(* Merging does not cut windows. *)
LEMMA CoalesceClosed ==
  ASSUME NEW rows, \A r \in rows : Closed(r), NEW g \in coalesce(rows)
  PROVE  Closed(g)
<1> SUFFICES ASSUME NEW w \in Windows, NEW c \in CellsOf(w), c \in CellsOf(g)
             PROVE  CellsOf(w) \subseteq CellsOf(g)
  BY DEF Closed
<1>1. w.from \in Nat /\ w.to \in Nat /\ w.to <= MaxInstant /\ MaxInstant \in Nat
  BY WindowsAreSpans, SpanEnds, GeofenceAssumption
<1>2. CellsOf(w) \subseteq Scanned(rows)
  <2>1. PICK r \in rows : c \in CellsOf(r)
    BY CoalesceWithin DEF Scanned
  <2>2. CellsOf(w) \subseteq CellsOf(r)
    BY <2>1 DEF Closed
  <2> QED
    BY <2>2 DEF Scanned
<1>3. Horizon.from = 0 /\ Horizon.to = MaxInstant
  BY DEF Horizon
<1>4. /\ g.from \in Nat /\ g.to \in Nat
      /\ g.from = 0 \/ (g.from - 1) \notin Scanned(rows)
      /\ g.to = MaxInstant \/ g.to \notin Scanned(rows)
  BY <1>1, <1>3 DEF coalesce, Gaps
<1>5. w.from <= c /\ c < w.to /\ g.from <= c /\ c < g.to /\ c \in Int
  BY <1>1, <1>4 DEF CellsOf
<1>6. g.from <= w.from
  <2>1. SUFFICES ASSUME w.from < g.from
                 PROVE  FALSE
    BY <1>1, <1>4
  <2>2. g.from - 1 \in CellsOf(w)
    BY <1>1, <1>4, <1>5, <2>1 DEF CellsOf
  <2> QED
    BY <1>1, <1>2, <1>4, <2>1, <2>2
<1>7. w.to <= g.to
  <2>1. SUFFICES ASSUME g.to < w.to
                 PROVE  FALSE
    BY <1>1, <1>4
  <2>2. g.to \in CellsOf(w)
    BY <1>1, <1>4, <1>5, <2>1 DEF CellsOf
  <2> QED
    BY <1>1, <1>2, <1>4, <2>1, <2>2
<1> QED
  BY <1>1, <1>4, <1>6, <1>7 DEF CellsOf

(* The gap of a window is the window, when coverage does not cut windows. *)
LEMMA GapsAreWindows ==
  ASSUME NEW w \in Windows, \A r \in coverage : Closed(r), NEW g \in Gaps(Scanned(coverage), w)
  PROVE  g = w
<1>1. w.from \in Nat /\ w.to \in Nat /\ w = [from |-> w.from, to |-> w.to]
  BY WindowsAreSpans, SpanEnds DEF Span
<1>2. /\ g.from \in Nat /\ g.to \in Nat /\ w.from <= g.from /\ g.from < g.to /\ g.to <= w.to
      /\ g = [from |-> g.from, to |-> g.to]
      /\ \A c \in CellsOf(g) : c \notin Scanned(coverage)
  BY <1>1, GapsWithin
<1>3. /\ g.from = w.from \/ (g.from - 1) \in Scanned(coverage)
      /\ g.to = w.to \/ g.to \in Scanned(coverage)
  BY DEF Gaps
<1>4. g.from \in CellsOf(w) /\ g.from \notin Scanned(coverage)
  BY <1>1, <1>2 DEF CellsOf
<1>5. \A c \in CellsOf(w) : c \notin Scanned(coverage)
  <2>1. SUFFICES ASSUME NEW c \in CellsOf(w), NEW r \in coverage, c \in CellsOf(r)
                 PROVE  FALSE
    BY DEF Scanned
  <2>2. g.from \in CellsOf(r)
    BY <1>4, <2>1 DEF Closed
  <2> QED
    BY <1>4, <2>2 DEF Scanned
<1>6. g.from = w.from
  <2>1. g.from # w.from => g.from - 1 \in CellsOf(w)
    BY <1>1, <1>2 DEF CellsOf
  <2> QED
    BY <1>3, <1>5, <2>1
<1>7. g.to = w.to
  <2>1. g.to # w.to => g.to \in CellsOf(w)
    BY <1>1, <1>2 DEF CellsOf
  <2> QED
    BY <1>3, <1>5, <2>1
<1> QED
  BY <1>1, <1>2, <1>6, <1>7

(* A stored pass the DELETE of a window takes is a pass of that window. *)
LEMMA DeletedIsOfWindow ==
  ASSUME WindowsApart, Types, NEW p \in PassRows, p.entered \in fence,
         NEW w \in Windows, EnteredIn(p, w), NEW v \in Windows, InWindow(p, v)
  PROVE  v = w
<1>1. v.from \in Nat /\ v.to \in Nat /\ w.from \in Nat /\ w.to \in Nat
  BY WindowsAreSpans, SpanEnds
<1>2. /\ p.entered \in Fixes /\ p.entered \in Nat /\ p.exited \in Nat /\ p.entered <= p.exited
      /\ w.from <= p.entered /\ p.entered <= w.to /\ v.from <= p.entered /\ p.exited < v.to
  BY GeofenceAssumption DEF PassRows, EnteredIn, InWindow
<1>3. w = v \/ w.to <= v.from \/ v.to <= w.from
  BY DEF WindowsApart
<1>4. ~(v.to <= w.from)
  BY <1>1, <1>2
<1>5. ~(w.to <= v.from)
  <2>1. SUFFICES ASSUME w.to <= v.from
                 PROVE  FALSE
    OBVIOUS
  <2>2. w.to = v.from /\ p.entered = v.from
    BY <1>1, <1>2, <2>1
  <2>3. v.from \notin Fixes \intersect fence
    BY <2>2 DEF WindowsApart, Types
  <2> QED
    BY <1>2, <2>2, <2>3
<1> QED
  BY <1>3, <1>4, <1>5

-----------------------------------------------------------------------------
(* Steps while nobody has edited the polygon. *)

(* Such a step is the environment's, or one request's. *)
LEMMA QuietSteps ==
  ASSUME Types, edits = 0, edits' = 0, [Next]_vars
  PROVE  \/ UNCHANGED <<fence, database, request, history>> /\ arrived \subseteq arrived'
         \/ /\ UNCHANGED <<fence, arrived>>
            /\ \E s \in Scanners : (Ask(s) \/ Progress(s) \/ Fail(s)) /\ Others(s)
<1> USE DEF world, database, request, history
<1>1. CASE Arrive \/ EditGeometry \/ UNCHANGED vars
  BY <1>1 DEF Arrive, EditGeometry, vars
<1>2. ASSUME NEW s \in Scanners, Ask(s) \/ Progress(s) \/ Fail(s)
      PROVE  UNCHANGED <<fence, arrived>>
  BY <1>2 DEF Ask, TripGeofences, WindowScan, Begin, Progress, Fetch, Clear, InsertPass, InsertFails, GapDone,
              RecordCoverage, MergeRead, MergeClear, MergeInsert, Fail
<1> QED
  BY <1>1, <1>2, OthersKept DEF Next

LEMMA InitQuiet == Init => ArrivedOnTime /\ Lossless
<1> SUFFICES ASSUME Init
             PROVE  ArrivedOnTime /\ Lossless
  OBVIOUS
<1>1. ArrivedOnTime
  BY DEF Init, ArrivedOnTime
<1>2. passes = {} /\ coverage = {} /\ scanned = {}
  BY DEF Init
<1>3. \A s \in Scanners :
        pc[s] = "idle" /\ todo[s] = {} /\ gap[s] = NoWindow /\ toInsert[s] = {} /\ merged[s] = {}
  BY DEF Init
<1> QED
  BY <1>1, <1>2, <1>3 DEF Lossless, WholeWindows, PassesInWindows, SamplesComplete, LeftInOrder, RestIsHeld,
                          ScannedIsHeld, GapIsHeld

LEMMA NextArrived == Types /\ ArrivedOnTime /\ [Next]_vars => ArrivedOnTime'
<1> SUFFICES ASSUME Types, ArrivedOnTime, [Next]_vars
             PROVE  arrived \subseteq arrived'
  BY DEF ArrivedOnTime
<1> USE DEF world
<1>1. CASE Arrive \/ EditGeometry \/ UNCHANGED vars
  BY <1>1 DEF Arrive, EditGeometry, vars
<1>2. ASSUME NEW s \in Scanners, Ask(s) \/ Progress(s) \/ Fail(s)
      PROVE  UNCHANGED arrived
  BY <1>2 DEF Ask, TripGeofences, WindowScan, Begin, Progress, Fetch, Clear, InsertPass, InsertFails, GapDone,
              RecordCoverage, MergeRead, MergeClear, MergeInsert, Fail
<1> QED
  BY <1>1, <1>2 DEF Next

(* WholeWindows *)
LEMMA NextWholeWindows ==
  ASSUME Types, CoverageInv, WindowsApart, WholeWindows, edits = 0, edits' = 0, [Next]_vars
  PROVE  WholeWindows'
<1> USE DEF database, request, history
<1>1. CASE UNCHANGED <<fence, database, request, history>>
  BY <1>1 DEF WholeWindows
<1>2. ASSUME NEW s \in Scanners, Others(s), UNCHANGED fence,
             \A r \in coverage' : Closed(r),
             \A r \in merged'[s] : Closed(r),
             todo'[s] \subseteq Windows,
             gap'[s] \in Windows \union {NoWindow},
             pc'[s] # "idle" => shape'[s] = fence
      PROVE  WholeWindows'
  <2>1. \A t \in Scanners : t = s \/ t \in Scanners \ {s}
    OBVIOUS
  <2> QED
    BY <1>2, <2>1 DEF WholeWindows, Others
<1>3. ASSUME NEW s \in Scanners, Others(s), UNCHANGED fence, Finish(s), \A r \in coverage' : Closed(r)
      PROVE  WholeWindows'
  BY <1>2, <1>3, FinishEmpties
<1>4. ASSUME NEW s \in Scanners, Others(s), UNCHANGED fence, Ask(s)
      PROVE  WholeWindows'
  <2>1. ASSUME NEW k, NEW w, NEW gaps, Begin(s, k, w, gaps), gaps \subseteq Windows
        PROVE  WholeWindows'
    <3>1. /\ pc'[s] = "fetch" /\ shape'[s] = fence /\ todo'[s] = gaps /\ gap'[s] = gap[s]
          /\ merged'[s] = merged[s] /\ UNCHANGED coverage
      BY <2>1 DEF Begin, Types
    <3> QED
      BY <1>2, <1>4, <2>1, <3>1 DEF WholeWindows
  <2>2. ASSUME NEW w \in TripWindows, TripGeofences(s, w)
        PROVE  WholeWindows'
    BY <2>1, <2>2 DEF TripGeofences, Windows
  <2>3. ASSUME NEW w \in ScanWindows, WindowScan(s, w)
        PROVE  WholeWindows'
    <3>1. Gaps(Scanned(coverage), w) \subseteq Windows
      BY GapsAreWindows DEF WholeWindows, Windows
    <3> QED
      BY <2>1, <2>3, <3>1 DEF WindowScan
  <2> QED
    BY <1>4, <2>2, <2>3 DEF Ask
<1>5. ASSUME NEW s \in Scanners, Others(s), UNCHANGED fence, Fetch(s)
      PROVE  WholeWindows'
  <2>1. PICK g \in todo[s] : gap'[s] = g /\ todo'[s] = todo[s] \ {g}
    BY <1>5 DEF Fetch, Types
  <2>2. pc[s] # "idle" /\ shape'[s] = shape[s] /\ merged'[s] = merged[s] /\ UNCHANGED coverage
    BY <1>5 DEF Fetch
  <2> QED
    BY <1>2, <1>5, <2>1, <2>2 DEF WholeWindows
<1>6. ASSUME NEW s \in Scanners, Others(s), UNCHANGED fence, Clear(s) \/ InsertPass(s) \/ GapDone(s)
      PROVE  WholeWindows'
  <2>1. /\ pc[s] # "idle" /\ shape'[s] = shape[s] /\ merged'[s] = merged[s] /\ todo'[s] = todo[s]
        /\ gap'[s] \in {gap[s], NoWindow} /\ UNCHANGED coverage
    BY <1>6 DEF Clear, InsertPass, GapDone, Types
  <2> QED
    BY <1>2, <1>6, <2>1 DEF WholeWindows
<1>7. ASSUME NEW s \in Scanners, Others(s), UNCHANGED fence, RecordCoverage(s)
      PROVE  WholeWindows'
  <2>1. win[s] \in Windows
    BY <1>7 DEF RecordCoverage, CoverageInv, StageFits
  <2>2. Closed(win[s])
    BY <2>1, WindowsAreClosed
  <2>3. \A r \in coverage' : Closed(r)
    BY <1>7, <2>2 DEF RecordCoverage, UpsertCoverage, WholeWindows
  <2> QED
    BY <1>3, <1>7, <2>3 DEF RecordCoverage
<1>8. ASSUME NEW s \in Scanners, Others(s), UNCHANGED fence, MergeRead(s)
      PROVE  WholeWindows'
  <2>1. win[s] \in Windows
    BY <1>8 DEF MergeRead, CoverageInv, StageFits
  <2>2. \A r \in coverage \union {win[s]} : Closed(r)
    BY <2>1, WindowsAreClosed DEF WholeWindows
  <2>3. merged'[s] = coalesce(coverage \union {win[s]})
    BY <1>8 DEF MergeRead, CoverageRows, Types
  <2>4. \A r \in merged'[s] : Closed(r)
    BY <2>2, <2>3, CoalesceClosed
  <2>5. pc[s] # "idle" /\ UNCHANGED <<coverage, shape, todo, gap>>
    BY <1>8 DEF MergeRead
  <2> QED
    BY <1>2, <1>8, <2>4, <2>5 DEF WholeWindows
<1>9. ASSUME NEW s \in Scanners, Others(s), UNCHANGED fence, MergeClear(s)
      PROVE  WholeWindows'
  BY <1>2, <1>9 DEF MergeClear, DeleteCoverage, WholeWindows
<1>10. ASSUME NEW s \in Scanners, Others(s), UNCHANGED fence, MergeInsert(s)
       PROVE  WholeWindows'
  <2>1. PICK r \in merged[s] :
          /\ coverage' = InsertCoverage(r)
          /\ \/ Finish(s)
             \/ /\ merged' = [merged EXCEPT ![s] = @ \ {r}]
                /\ UNCHANGED <<pc, kind, win, shape, todo, gap, samples, toInsert>>
    BY <1>10 DEF MergeInsert
  <2>2. \A q \in coverage' : Closed(q)
    BY <2>1 DEF InsertCoverage, WholeWindows
  <2>3. CASE ~Finish(s)
    <3>1. merged'[s] = merged[s] \ {r} /\ UNCHANGED <<pc, shape, todo, gap>>
      BY <2>1, <2>3 DEF Types
    <3> QED
      BY <1>2, <1>10, <2>2, <3>1 DEF WholeWindows
  <2> QED
    BY <1>3, <1>10, <2>2, <2>3
<1>11. ASSUME NEW s \in Scanners, Others(s), UNCHANGED fence, InsertFails(s) \/ Fail(s)
       PROVE  WholeWindows'
  BY <1>3, <1>11 DEF InsertFails, Fail, WholeWindows
<1> QED
  BY <1>1, <1>4, <1>5, <1>6, <1>7, <1>8, <1>9, <1>10, <1>11, QuietSteps DEF Progress

-----------------------------------------------------------------------------
(* What a request's step does to passes and to what is left to insert. *)

LEMMA SameWindow ==
  ASSUME WindowsApart, NEW w \in Windows, NEW v \in Windows, NEW c, c \in CellsOf(w), c \in CellsOf(v)
  PROVE  w = v
<1>1. v.from \in Nat /\ v.to \in Nat /\ w.from \in Nat /\ w.to \in Nat
  BY WindowsAreSpans, SpanEnds
<1>2. v.from <= c /\ c < v.to /\ w.from <= c /\ c < w.to /\ c \in Int
  BY <1>1 DEF CellsOf
<1>3. w = v \/ w.to <= v.from \/ v.to <= w.from
  BY DEF WindowsApart
<1> QED
  BY <1>1, <1>2, <1>3

LEMMA CellsOfPass ==
  ASSUME NEW p \in PassRows, NEW w \in Windows, InWindow(p, w)
  PROVE  /\ p.entered \in Nat /\ p.exited \in Nat /\ p.entered <= p.exited
         /\ p.entered \in CellsOf(w) /\ EnteredIn(p, w)
         /\ \A c \in Nat : p.entered <= c /\ c <= p.exited => c \in CellsOf(w)
<1>1. w.from \in Nat /\ w.to \in Nat
  BY WindowsAreSpans, SpanEnds
<1>2. p.entered \in Nat /\ p.exited \in Nat /\ p.entered <= p.exited
  BY GeofenceAssumption DEF PassRows
<1> QED
  BY <1>1, <1>2 DEF InWindow, EnteredIn, CellsOf

LEMMA PassSteps ==
  ASSUME Types, CoverageInv, NEW s \in Scanners, Ask(s) \/ Progress(s) \/ Fail(s)
  PROVE  \/ Clear(s) \/ InsertPass(s) \/ InsertFails(s) \/ GapDone(s)
         \/ Fail(s) /\ pc[s] = "insert"
         \/ /\ UNCHANGED <<passes, scanned, torn>>
            /\ toInsert[s] = {} /\ toInsert'[s] = {} /\ pc[s] # "insert" /\ pc'[s] # "insert"
<1> USE DEF world, database, request, history
<1>1. pc[s] # "insert" => toInsert[s] = {}
  BY DEF CoverageInv, StageFits
<1>2. ASSUME NEW k, NEW w, NEW gaps, Begin(s, k, w, gaps)
      PROVE  /\ UNCHANGED <<passes, scanned, torn>>
             /\ toInsert[s] = {} /\ toInsert'[s] = {} /\ pc[s] # "insert" /\ pc'[s] # "insert"
  BY <1>1, <1>2 DEF Begin, Types
<1>3. CASE Ask(s)
  BY <1>2, <1>3 DEF Ask, TripGeofences, WindowScan
<1>4. CASE Fetch(s) \/ MergeRead(s) \/ MergeClear(s)
  BY <1>1, <1>4 DEF Fetch, MergeRead, MergeClear, Types
<1>5. CASE MergeInsert(s)
  <2>1. pc[s] = "mergeInsert" /\ UNCHANGED <<passes, scanned, torn>> /\ (Finish(s) \/ UNCHANGED <<pc, toInsert>>)
    BY <1>5 DEF MergeInsert
  <2> QED
    BY <1>1, <2>1, FinishEmpties
<1>6. CASE RecordCoverage(s)
  BY <1>1, <1>6, FinishEmpties DEF RecordCoverage
<1>7. CASE Fail(s) /\ pc[s] # "insert"
  BY <1>1, <1>7, FinishEmpties DEF Fail
<1> QED
  BY <1>3, <1>4, <1>5, <1>6, <1>7 DEF Progress

LEMMA ClearEffect ==
  ASSUME Types, CoverageInv, WholeWindows, SamplesComplete, NEW s \in Scanners, Clear(s)
  PROVE  /\ pc[s] = "clear" /\ pc'[s] = "insert" /\ gap'[s] = gap[s] /\ gap[s] \in Windows
         /\ passes' = DeletePasses(gap[s]) /\ toInsert[s] = {} /\ UNCHANGED <<scanned, torn>>
         /\ \A p \in toInsert'[s] : p.entered \in fence /\ InWindow(p, gap[s])
         /\ \A p, q \in toInsert'[s] : q = p \/ q.exited < p.entered \/ p.exited < q.entered
         /\ \A c \in Good \intersect CellsOf(gap[s]) : InPass(c, toInsert'[s])
<1>1. /\ pc[s] = "clear" /\ pc'[s] = "insert" /\ gap'[s] = gap[s]
      /\ passes' = DeletePasses(gap[s]) /\ UNCHANGED <<scanned, torn>>
      /\ toInsert'[s] = detectPasses(samples[s], shape[s])
  BY DEF Clear, Types, history
<1>2. gap[s] \in Span /\ gap[s] # NoWindow /\ toInsert[s] = {}
  BY <1>1, SpanEnds DEF CoverageInv, StageFits, NoWindow
<1>3. gap[s] \in Windows /\ shape[s] = fence
  BY <1>1, <1>2 DEF WholeWindows
<1>4. gap[s].from \in Nat /\ gap[s].to \in Nat
  BY <1>2, SpanEnds
<1>5. /\ samples[s] \in SUBSET Nat
      /\ \A x \in samples[s] : x <= gap[s].to
      /\ samples[s] \subseteq CellsOf(gap[s])
      /\ CellsOf(gap[s]) \intersect (Fixes \ Late) \subseteq samples[s]
  BY <1>1, <1>4 DEF SamplesComplete, CellsOf
<1>6. ASSUME NEW p \in toInsert'[s]
      PROVE  p.entered \in fence /\ InWindow(p, gap[s])
  <2>1. p.entered \in samples[s] /\ p.exited \in samples[s] /\ p.entered \in fence
    BY <1>1, <1>3, <1>5, <1>6, DetectedInside
  <2>2. gap[s].from <= p.entered /\ p.exited < gap[s].to
    BY <1>4, <1>5, <2>1 DEF CellsOf
  <2> QED
    BY <2>1, <2>2 DEF InWindow
<1>7. \A p, q \in toInsert'[s] : q = p \/ q.exited < p.entered \/ p.exited < q.entered
  BY <1>1, <1>5, DetectedApart
<1>8. \A c \in Good \intersect CellsOf(gap[s]) : InPass(c, toInsert'[s])
  BY <1>1, <1>3, <1>4, <1>5, DetectedComplete DEF Good
<1> QED
  BY <1>1, <1>2, <1>3, <1>6, <1>7, <1>8

LEMMA InsertEffect ==
  ASSUME Types, CoverageInv, WholeWindows, NEW s \in Scanners, InsertPass(s)
  PROVE  /\ pc[s] = "insert" /\ pc'[s] = "insert" /\ gap'[s] = gap[s] /\ gap[s] \in Windows
         /\ UNCHANGED <<scanned, torn>>
         /\ \E p \in toInsert[s] : /\ passes' = passes \union {p} /\ toInsert'[s] = toInsert[s] \ {p}
                                   /\ \A q \in toInsert[s] : p.entered <= q.entered
<1>1. /\ pc[s] = "insert" /\ pc'[s] = "insert" /\ gap'[s] = gap[s] /\ UNCHANGED <<scanned, torn>>
  BY DEF InsertPass, history
<1>2. gap[s] \in Span /\ gap[s] # NoWindow
  BY <1>1, SpanEnds DEF CoverageInv, StageFits, NoWindow
<1>3. gap[s] \in Windows
  BY <1>2 DEF WholeWindows
<1>4. \E p \in toInsert[s] : /\ passes' = passes \union {p} /\ toInsert'[s] = toInsert[s] \ {p}
                            /\ \A q \in toInsert[s] : p.entered <= q.entered
  BY DEF InsertPass, NextPass, InsertRow, Types
<1> QED
  BY <1>1, <1>3, <1>4

(* The two ways to end half-way through the INSERTs. *)
LEMMA StopEffect ==
  ASSUME Types, CoverageInv, WholeWindows, NEW s \in Scanners, InsertFails(s) \/ (Fail(s) /\ pc[s] = "insert")
  PROVE  /\ pc[s] = "insert" /\ pc'[s] = "idle" /\ toInsert'[s] = {} /\ gap[s] \in Windows
         /\ UNCHANGED <<passes, scanned>>
         /\ \/ torn' = torn \union CellsOf(gap[s])
            \/ /\ UNCHANGED torn
               /\ \E p \in toInsert[s] : /\ \A q \in toInsert[s] : p.entered <= q.entered
                                         /\ \E q \in passes : q.entered = p.entered
<1>1. /\ pc[s] = "insert" /\ Finish(s) /\ UNCHANGED <<passes, scanned>>
  BY DEF InsertFails, Fail, database, history
<1>2. gap[s] \in Span /\ gap[s] # NoWindow
  BY <1>1, SpanEnds DEF CoverageInv, StageFits, NoWindow
<1>3. gap[s] \in Windows
  BY <1>2 DEF WholeWindows
<1>4. \/ torn' = torn \union CellsOf(gap[s])
      \/ /\ UNCHANGED torn
         /\ \E p \in toInsert[s] : /\ \A q \in toInsert[s] : p.entered <= q.entered
                                   /\ \E q \in passes : q.entered = p.entered
  BY DEF InsertFails, Fail, NextPass, Taken, history
<1> QED
  BY <1>1, <1>3, <1>4, FinishEmpties

LEMMA GapDoneEffect ==
  ASSUME Types, CoverageInv, NEW s \in Scanners, GapDone(s)
  PROVE  /\ pc[s] = "insert" /\ pc'[s] # "insert" /\ toInsert[s] = {} /\ toInsert'[s] = {}
         /\ scanned' = scanned \union CellsOf(gap[s]) /\ UNCHANGED <<passes, torn>>
BY DEF GapDone, AfterGap, Types, database

LEMMA NextPassesInWindows ==
  ASSUME Types, CoverageInv, WholeWindows, PassesInWindows, SamplesComplete,
         NEW s \in Scanners, Others(s), Ask(s) \/ Progress(s) \/ Fail(s), UNCHANGED fence
  PROVE  PassesInWindows'
<1>1. \A t \in Scanners : t = s \/ t \in Scanners \ {s}
  OBVIOUS
<1>2. ASSUME \A p \in passes' : p.entered \in fence /\ \E w \in Windows : InWindow(p, w),
             \A p \in toInsert'[s] : p.entered \in fence /\ InWindow(p, gap'[s])
      PROVE  PassesInWindows'
  BY <1>1, <1>2 DEF PassesInWindows, Others
<1>3. CASE Clear(s)
  <2>1. passes' \subseteq passes
    BY <1>3, ClearEffect DEF DeletePasses
  <2> QED
    BY <1>2, <1>3, <2>1, ClearEffect DEF PassesInWindows
<1>4. CASE InsertPass(s)
  BY <1>2, <1>4, InsertEffect DEF PassesInWindows
<1>5. CASE InsertFails(s) \/ (Fail(s) /\ pc[s] = "insert")
  BY <1>2, <1>5, StopEffect DEF PassesInWindows
<1>6. CASE GapDone(s)
  BY <1>2, <1>6, GapDoneEffect DEF PassesInWindows
<1>7. CASE UNCHANGED passes /\ toInsert'[s] = {}
  BY <1>2, <1>7 DEF PassesInWindows
<1>8. \/ Clear(s) \/ InsertPass(s) \/ InsertFails(s) \/ GapDone(s)
      \/ Fail(s) /\ pc[s] = "insert"
      \/ UNCHANGED passes /\ toInsert'[s] = {}
  BY ONLY PassSteps, Types, CoverageInv, Ask(s) \/ Progress(s) \/ Fail(s), s \in Scanners
<1> QED
  BY ONLY <1>3, <1>4, <1>5, <1>6, <1>7, <1>8

LEMMA NextSamplesComplete ==
  ASSUME Types, CoverageInv, SamplesComplete, ArrivedOnTime,
         NEW s \in Scanners, Others(s), Ask(s) \/ Progress(s) \/ Fail(s)
  PROVE  SamplesComplete'
<1>1. \A t \in Scanners : t = s \/ t \in Scanners \ {s}
  OBVIOUS
<1>2. CASE Fetch(s)
  <2>1. PICK g \in todo[s] : gap'[s] = g /\ samples'[s] = GeofenceSamples(g)
    BY <1>2 DEF Fetch, Types
  <2>2. CellsOf(g) \intersect (Fixes \ Late) \subseteq samples'[s] /\ samples'[s] \subseteq CellsOf(g)
    BY <2>1 DEF GeofenceSamples, ArrivedOnTime
  <2> QED
    BY <1>1, <2>1, <2>2 DEF SamplesComplete, Others
<1>3. CASE pc'[s] # "clear"
  BY <1>1, <1>3 DEF SamplesComplete, Others
<1>4. ASSUME ~Fetch(s)
      PROVE  pc'[s] # "clear"
  <2>1. ASSUME Finish(s)
        PROVE  pc'[s] # "clear"
    BY <2>1, FinishEmpties
  <2>2. CASE Ask(s)
    BY <2>2 DEF Ask, TripGeofences, WindowScan, Begin, Types
  <2>3. CASE Clear(s) \/ InsertPass(s) \/ GapDone(s) \/ MergeRead(s) \/ MergeClear(s)
    BY <2>3 DEF Clear, InsertPass, GapDone, AfterGap, MergeRead, MergeClear, Types
  <2>4. CASE InsertFails(s) \/ RecordCoverage(s) \/ Fail(s)
    BY <2>1, <2>4 DEF InsertFails, RecordCoverage, Fail
  <2>5. CASE MergeInsert(s)
    <3>1. pc[s] = "mergeInsert" /\ (Finish(s) \/ UNCHANGED pc)
      BY <2>5 DEF MergeInsert
    <3> QED
      BY <2>1, <3>1
  <2> QED
    BY <1>4, <2>2, <2>3, <2>4, <2>5 DEF Progress
<1> QED
  BY <1>2, <1>3, <1>4

LEMMA NextLeftInOrder ==
  ASSUME Types, CoverageInv, WholeWindows, SamplesComplete, LeftInOrder, Good' \subseteq Good,
         NEW s \in Scanners, Others(s), Ask(s) \/ Progress(s) \/ Fail(s)
  PROVE  LeftInOrder'
<1>1. \A t \in Scanners : t = s \/ t \in Scanners \ {s}
  OBVIOUS
<1>2. ASSUME \A p \in toInsert'[s] :
               /\ \A q \in toInsert'[s] : q = p \/ q.exited < p.entered \/ p.exited < q.entered
               /\ \A c \in Good' \intersect CellsOf(gap'[s]) : p.entered <= c => InPass(c, toInsert'[s])
      PROVE  LeftInOrder'
  BY <1>1, <1>2 DEF LeftInOrder, Others
<1>3. CASE Clear(s)
  BY <1>2, <1>3, ClearEffect
<1>4. CASE InsertPass(s)
  <2>1. PICK p \in toInsert[s] : /\ toInsert'[s] = toInsert[s] \ {p} /\ gap'[s] = gap[s]
                                /\ \A q \in toInsert[s] : p.entered <= q.entered
    BY <1>4, InsertEffect
  <2>2. \A q \in toInsert[s] : q.entered \in Nat /\ q.exited \in Nat /\ q.entered <= q.exited
    <3>1. toInsert[s] \in SUBSET PassRows /\ Fixes \subseteq Nat
      BY GeofenceAssumption DEF Types
    <3> QED
      BY <3>1 DEF PassRows
  <2>3. ASSUME NEW q \in toInsert'[s], NEW c \in Good' \intersect CellsOf(gap'[s]), q.entered <= c
        PROVE  InPass(c, toInsert'[s])
    <3>1. PICK r \in toInsert[s] : r.entered <= c /\ c <= r.exited
      BY <2>1, <2>3 DEF LeftInOrder, InPass
    <3>2. c \in Nat
      BY GeofenceAssumption DEF Good
    <3>3. q # p /\ q \in toInsert[s]
      BY <2>1, <2>3
    <3>4. p.exited < q.entered
      BY <2>1, <2>2, <3>3 DEF LeftInOrder
    <3>5. r # p
      BY <2>2, <2>3, <3>1, <3>2, <3>3, <3>4
    <3> QED
      BY <2>1, <3>1, <3>5 DEF InPass
  <2> QED
    BY <1>2, <2>1, <2>3 DEF LeftInOrder
<1>5. CASE toInsert'[s] = {}
  BY <1>2, <1>5
<1>6. Clear(s) \/ InsertPass(s) \/ toInsert'[s] = {}
  <2>1. CASE InsertFails(s) \/ (Fail(s) /\ pc[s] = "insert")
    BY <2>1, StopEffect
  <2>2. CASE GapDone(s)
    BY <2>2, GapDoneEffect
  <2> QED
    BY <2>1, <2>2, PassSteps
<1> QED
  BY ONLY <1>3, <1>4, <1>5, <1>6

-----------------------------------------------------------------------------
(***************************************************************************)
(* No step loses a fix that is held: not the DELETE, which stores the pass *)
(* it takes among those to insert, and not a key violation, because past   *)
(* the key everything is held without the request that stops.              *)
(***************************************************************************)
LEMMA InToInsert ==
  ASSUME Types, CoverageInv, WholeWindows, PassesInWindows, NEW t \in Scanners, NEW r \in toInsert[t]
  PROVE  /\ pc[t] = "insert" /\ gap[t] \in Windows /\ r \in PassRows /\ InWindow(r, gap[t])
         /\ r.entered \in CellsOf(gap[t])
         /\ \A c \in Good : r.entered <= c /\ c <= r.exited => c \in CellsOf(gap[t])
<1>1. pc[t] = "insert"
  BY DEF CoverageInv, StageFits
<1>2. gap[t] \in Span /\ gap[t] # NoWindow
  BY <1>1, SpanEnds DEF CoverageInv, StageFits, NoWindow
<1>3. gap[t] \in Windows
  BY <1>2 DEF WholeWindows
<1>4. r \in PassRows /\ InWindow(r, gap[t])
  BY DEF Types, PassesInWindows
<1>5. \A c \in Good : c \in Nat
  BY GeofenceAssumption DEF Good
<1> QED
  BY <1>1, <1>3, <1>4, <1>5, CellsOfPass

LEMMA InStored ==
  ASSUME Types, PassesInWindows, NEW q \in passes
  PROVE  /\ q \in PassRows /\ q.entered \in fence
         /\ \E v \in Windows :
              /\ InWindow(q, v) /\ q.entered \in CellsOf(v)
              /\ \A c \in Good : q.entered <= c /\ c <= q.exited => c \in CellsOf(v)
<1>1. q \in PassRows /\ q.entered \in fence
  BY DEF Types, PassesInWindows
<1>2. PICK v \in Windows : InWindow(q, v)
  BY DEF PassesInWindows
<1>3. \A c \in Good : c \in Nat
  BY GeofenceAssumption DEF Good
<1> QED
  BY <1>1, <1>2, <1>3, CellsOfPass

(* The DELETE takes a fix of its own window only. *)
LEMMA ClearKeeps ==
  ASSUME Types, CoverageInv, WindowsApart, WholeWindows, PassesInWindows, SamplesComplete,
         NEW s \in Scanners, Clear(s), NEW c \in Good, InPass(c, passes)
  PROVE  InPass(c, passes') \/ c \in CellsOf(gap[s])
<1>1. PICK p \in passes : p.entered <= c /\ c <= p.exited
  BY DEF InPass
<1>2. gap[s] \in Windows /\ passes' = DeletePasses(gap[s])
  BY ClearEffect
<1>3. CASE EnteredIn(p, gap[s])
  <2>1. PICK v \in Windows : InWindow(p, v) /\ c \in CellsOf(v)
    BY <1>1, InStored
  <2>2. v = gap[s]
    BY <1>2, <1>3, <2>1, InStored, DeletedIsOfWindow
  <2> QED
    BY <2>1, <2>2
<1>4. CASE ~EnteredIn(p, gap[s])
  BY <1>1, <1>2, <1>4 DEF DeletePasses, InPass
<1> QED
  BY <1>3, <1>4

(* A fix that a request stopped by a key was still to insert. *)
LEMMA KeyHolds ==
  ASSUME Types, CoverageInv, WindowsApart, WholeWindows, PassesInWindows, RestIsHeld,
         NEW s \in Scanners, NEW p \in toInsert[s], \A q \in toInsert[s] : p.entered <= q.entered,
         NEW q \in passes, q.entered = p.entered,
         NEW c \in Good, InPass(c, toInsert[s])
  PROVE  \/ InPass(c, passes)
         \/ \E t \in Scanners \ {s} : InPass(c, toInsert[t]) /\ \A r \in toInsert[t] : p.entered < r.entered
<1>1. PICK r \in toInsert[s] : r.entered <= c /\ c <= r.exited
  BY DEF InPass
<1>2. gap[s] \in Windows /\ c \in CellsOf(gap[s]) /\ p.entered \in CellsOf(gap[s])
  BY <1>1, InToInsert
<1>3. p.entered \in Nat /\ r.entered \in Nat /\ c \in Nat
  <2>1. p \in PassRows /\ r \in PassRows
    BY InToInsert
  <2> QED
    BY <2>1, GeofenceAssumption DEF PassRows, Good
<1>4. q.entered <= c
  BY <1>1, <1>3
<1>5. InWindow(q, gap[s])
  <2>1. PICK v \in Windows : InWindow(q, v) /\ q.entered \in CellsOf(v)
    BY InStored
  <2> QED
    BY <1>2, <2>1, SameWindow
<1>6. InPass(c, passes) \/ HeldPast(c, q)
  BY <1>2, <1>4, <1>5 DEF RestIsHeld
<1>7. ASSUME NEW t \in Scanners, InPass(c, toInsert[t]), \A x \in toInsert[t] : q.entered < x.entered
      PROVE  t # s
  BY <1>3, <1>7
<1> QED
  BY <1>6, <1>7 DEF HeldPast

LEMMA HeldStays ==
  ASSUME Types, CoverageInv, WindowsApart, WholeWindows, PassesInWindows, SamplesComplete, RestIsHeld,
         NEW s \in Scanners, Others(s), Ask(s) \/ Progress(s) \/ Fail(s),
         NEW c \in Good, c \notin torn', Held(c)
  PROVE  InPass(c, passes') \/ \E t \in Scanners : InPass(c, toInsert'[t])
<1>1. \A t \in Scanners \ {s} : toInsert'[t] = toInsert[t]
  BY DEF Others
<1>2. CASE Clear(s)
  <2>1. toInsert[s] = {} /\ (c \in CellsOf(gap[s]) => InPass(c, toInsert'[s]))
    BY <1>2, ClearEffect
  <2>2. ~InPass(c, toInsert[s])
    BY <2>1 DEF InPass
  <2> QED
    BY <1>1, <1>2, <2>1, <2>2, ClearKeeps DEF Held
<1>3. CASE InsertPass(s)
  <2>1. PICK p \in toInsert[s] : passes' = passes \union {p} /\ toInsert'[s] = toInsert[s] \ {p}
    BY <1>3, InsertEffect
  <2>2. InPass(c, toInsert[s]) => InPass(c, passes') \/ InPass(c, toInsert'[s])
    BY <2>1 DEF InPass
  <2>3. InPass(c, passes) => InPass(c, passes')
    BY <2>1 DEF InPass
  <2> QED
    BY <1>1, <2>2, <2>3 DEF Held
<1>4. CASE InsertFails(s) \/ (Fail(s) /\ pc[s] = "insert")
  <2>1. UNCHANGED passes /\ (InPass(c, toInsert[s]) => c \in CellsOf(gap[s]))
    BY <1>4, StopEffect, InToInsert DEF InPass
  <2>2. CASE torn' = torn \union CellsOf(gap[s])
    BY <1>1, <2>1, <2>2 DEF Held
  <2>3. ASSUME NEW p \in toInsert[s], \A q \in toInsert[s] : p.entered <= q.entered,
               NEW q \in passes, q.entered = p.entered
        PROVE  InPass(c, passes') \/ \E t \in Scanners : InPass(c, toInsert'[t])
    BY <1>1, <2>1, <2>3, KeyHolds DEF Held
  <2> QED
    BY <1>4, <2>2, <2>3, StopEffect
<1>5. CASE UNCHANGED passes /\ toInsert[s] = {}
  <2>1. ~InPass(c, toInsert[s])
    BY <1>5 DEF InPass
  <2> QED
    BY <1>1, <1>5, <2>1 DEF Held
<1>6. Clear(s) \/ InsertPass(s) \/ InsertFails(s) \/ (Fail(s) /\ pc[s] = "insert") \/ (UNCHANGED passes /\ toInsert[s] = {})
  BY PassSteps, GapDoneEffect
<1> QED
  BY ONLY <1>2, <1>3, <1>4, <1>5, <1>6

LEMMA NextRestIsHeld ==
  ASSUME Types, CoverageInv, WindowsApart, WholeWindows, PassesInWindows, SamplesComplete,
         LeftInOrder, RestIsHeld, Good' \subseteq Good, torn \subseteq torn',
         NEW s \in Scanners, Others(s), Ask(s) \/ Progress(s) \/ Fail(s)
  PROVE  RestIsHeld'
<1>1. \A t \in Scanners \ {s} : toInsert'[t] = toInsert[t]
  BY DEF Others
<1>2. \A c \in Good' : c \in Good /\ c \notin torn' /\ c \in Nat
  BY GeofenceAssumption DEF Good
<1>3. SUFFICES ASSUME NEW q \in passes', NEW w \in Windows, InWindow(q, w),
                      NEW c \in Good' \intersect CellsOf(w), q.entered <= c
               PROVE  \/ InPass(c, passes')
                      \/ \E t \in Scanners : /\ InPass(c, toInsert'[t])
                                            /\ \A r \in toInsert'[t] : q.entered < r.entered
  BY DEF RestIsHeld, HeldPast
<1>4. q \in passes => InPass(c, passes) \/ HeldPast(c, q)
  BY <1>2, <1>3 DEF RestIsHeld
<1>5. CASE Clear(s)
  <2>1. /\ q \in passes /\ ~EnteredIn(q, gap[s]) /\ gap[s] \in Windows /\ toInsert[s] = {}
    BY <1>5, ClearEffect DEF DeletePasses
  <2>2. c \notin CellsOf(gap[s])
    <3>1. SUFFICES ASSUME c \in CellsOf(gap[s])
                   PROVE  FALSE
      OBVIOUS
    <3>2. w = gap[s]
      BY <1>3, <2>1, <3>1, SameWindow
    <3> QED
      BY <1>3, <2>1, <3>2, InStored, CellsOfPass
  <2>3. InPass(c, passes) => InPass(c, passes')
    BY <1>2, <1>5, <2>2, ClearKeeps
  <2>4. ~InPass(c, toInsert[s])
    BY <2>1 DEF InPass
  <2> QED
    BY <1>1, <1>4, <2>1, <2>3, <2>4 DEF HeldPast
<1>6. CASE InsertPass(s)
  <2>1. PICK p \in toInsert[s] : /\ passes' = passes \union {p} /\ toInsert'[s] = toInsert[s] \ {p}
                                /\ \A x \in toInsert[s] : p.entered <= x.entered
    BY <1>6, InsertEffect
  <2>2. InPass(c, toInsert[s]) => InPass(c, passes') \/ InPass(c, toInsert'[s])
    BY <2>1 DEF InPass
  <2>3. InPass(c, passes) => InPass(c, passes')
    BY <2>1 DEF InPass
  <2>4. CASE q \in passes
    BY <1>1, <1>4, <2>1, <2>2, <2>3, <2>4 DEF HeldPast
  <2>5. CASE q = p
    <3>1. gap[s] \in Windows /\ InWindow(p, gap[s]) /\ p \in PassRows
      BY InToInsert
    <3>2. w = gap[s]
      BY <1>3, <2>5, <3>1, CellsOfPass, SameWindow
    <3>3. InPass(c, toInsert[s])
      BY <1>2, <1>3, <2>5, <3>2 DEF LeftInOrder
    <3>4. \A x \in toInsert'[s] : p.entered < x.entered
      <4>1. SUFFICES ASSUME NEW x \in toInsert[s], x # p
                     PROVE  p.entered < x.entered
        BY <2>1
      <4>2. /\ p.entered \in Nat /\ p.exited \in Nat /\ p.entered <= p.exited
            /\ x.entered \in Nat /\ x.exited \in Nat /\ x.entered <= x.exited
        <5>1. p \in PassRows /\ x \in PassRows /\ Fixes \subseteq Nat
          BY <4>1, InToInsert, GeofenceAssumption
        <5> QED
          BY <5>1 DEF PassRows
      <4>3. x.exited < p.entered \/ p.exited < x.entered
        BY <4>1 DEF LeftInOrder
      <4> QED
        BY <2>1, <4>1, <4>2, <4>3
    <3> QED
      BY <2>2, <2>5, <3>3, <3>4
  <2> QED
    BY <2>1, <2>4, <2>5
<1>7. CASE InsertFails(s) \/ (Fail(s) /\ pc[s] = "insert")
  <2>1. UNCHANGED passes
    BY <1>7, StopEffect
  <2>2. ASSUME InPass(c, toInsert[s]), \A r \in toInsert[s] : q.entered < r.entered
        PROVE  \/ InPass(c, passes')
               \/ \E t \in Scanners \ {s} : /\ InPass(c, toInsert[t])
                                           /\ \A r \in toInsert[t] : q.entered < r.entered
    <3>1. c \in CellsOf(gap[s])
      BY <1>2, <2>2, InToInsert DEF InPass
    <3>2. UNCHANGED torn
      BY <1>2, <1>7, <3>1, StopEffect
    <3>3. PICK p \in toInsert[s] : /\ \A x \in toInsert[s] : p.entered <= x.entered
                                  /\ \E y \in passes : y.entered = p.entered
      BY <1>2, <1>7, <3>1, StopEffect
    <3>4. \/ InPass(c, passes)
          \/ \E t \in Scanners \ {s} : InPass(c, toInsert[t]) /\ \A r \in toInsert[t] : p.entered < r.entered
      BY <1>2, <2>2, <3>3, KeyHolds
    <3>5. ASSUME NEW t \in Scanners, NEW r \in toInsert[t], p.entered < r.entered
          PROVE  q.entered < r.entered
      <4>1. q \in PassRows /\ p \in PassRows /\ r \in PassRows /\ Fixes \subseteq Nat
        BY <2>1, <3>5, InStored, InToInsert, GeofenceAssumption
      <4>2. q.entered \in Nat /\ p.entered \in Nat /\ r.entered \in Nat
        BY <4>1 DEF PassRows
      <4> QED
        BY <2>2, <3>3, <3>5, <4>2
    <3> QED
      BY <2>1, <3>4, <3>5
  <2> QED
    BY <1>1, <1>4, <2>1, <2>2 DEF HeldPast
<1>8. CASE UNCHANGED passes /\ toInsert[s] = {}
  <2>1. ~InPass(c, toInsert[s])
    BY <1>8 DEF InPass
  <2> QED
    BY <1>1, <1>4, <1>8, <2>1 DEF HeldPast
<1>9. Clear(s) \/ InsertPass(s) \/ InsertFails(s) \/ (Fail(s) /\ pc[s] = "insert") \/ (UNCHANGED passes /\ toInsert[s] = {})
  BY PassSteps, GapDoneEffect
<1> QED
  BY ONLY <1>5, <1>6, <1>7, <1>8, <1>9

LEMMA NextHeld ==
  ASSUME Types, CoverageInv, WindowsApart, WholeWindows, PassesInWindows, SamplesComplete,
         RestIsHeld, ScannedIsHeld, GapIsHeld, Good' \subseteq Good,
         NEW s \in Scanners, Others(s), Ask(s) \/ Progress(s) \/ Fail(s)
  PROVE  ScannedIsHeld' /\ GapIsHeld'
<1>1. \A c \in Good' : c \in Good /\ c \notin torn'
  BY DEF Good
<1>2. \A c \in Good' : Held(c) => Held(c)'
  BY <1>1, HeldStays DEF Held
<1>3. ASSUME NEW c \in Good', c \in scanned'
      PROVE  Held(c)'
  <2>1. CASE c \in scanned
    BY <1>1, <1>2, <1>3, <2>1 DEF ScannedIsHeld
  <2>2. CASE c \notin scanned
    <3>1. GapDone(s)
      BY <1>3, <2>2, PassSteps, ClearEffect, InsertEffect, StopEffect
    <3>2. c \in CellsOf(gap[s]) /\ pc[s] = "insert"
      BY <1>3, <2>2, <3>1, GapDoneEffect
    <3> QED
      BY <1>1, <1>2, <1>3, <3>2 DEF GapIsHeld
  <2> QED
    BY <2>1, <2>2
<1>4. ASSUME NEW t \in Scanners, pc'[t] = "insert", NEW c \in Good', c \in CellsOf(gap'[t])
      PROVE  Held(c)'
  <2>1. CASE t = s /\ Clear(s)
    BY <1>1, <1>4, <2>1, ClearEffect DEF Held
  <2>2. CASE t # s \/ ~Clear(s)
    <3>1. CASE t = s
      <4>1. InsertPass(s)
        BY <1>4, <2>2, <3>1, PassSteps, StopEffect, GapDoneEffect
      <4> QED
        BY <1>1, <1>2, <1>4, <3>1, <4>1, InsertEffect DEF GapIsHeld
    <3>2. CASE t # s
      BY <1>1, <1>2, <1>4, <3>2 DEF GapIsHeld, Others
    <3> QED
      BY <3>1, <3>2
  <2> QED
    BY <2>1, <2>2
<1> QED
  BY <1>3, <1>4 DEF ScannedIsHeld, GapIsHeld

-----------------------------------------------------------------------------
(* The theorems. *)

LEMMA TypesImplyTypeOK == Types /\ StageFits => TypeOK
BY WindowsAreSpans DEF Types, TypeOK, PassRows

LEMMA Coverage == Spec => [](Types /\ CoverageInv)
<1>1. Init => Types /\ CoverageInv
  BY InitTypes, InitCoverageInv
<1>2. Types /\ CoverageInv /\ [Next]_vars => (Types /\ CoverageInv)'
  BY NextTypes, NextCoverageInv DEF CoverageInv
<1> QED
  BY <1>1, <1>2, PTL DEF Spec

(* Types; a pass never ends before it begins, and every row is an interval. *)
THEOREM TypeCorrect == Spec => []TypeOK
<1>1. Types /\ CoverageInv => TypeOK
  BY TypesImplyTypeOK DEF CoverageInv
<1> QED
  BY <1>1, Coverage, PTL

(* Time is marked as scanned only after some request has stored all of its *)
(* passes there, whatever the windows, the failures and the edits.         *)
THEOREM CoverageEarned == Spec => []CoverageIsEarned
<1>1. CoverageInv => CoverageIsEarned
  BY DEF CoverageInv
<1> QED
  BY <1>1, Coverage, PTL

LEMMA NextLossless ==
  ASSUME WindowsApart, Types, CoverageInv, ArrivedOnTime, Lossless, [Next]_vars, Types'
  PROVE  Lossless'
<1>1. SUFFICES ASSUME edits' = 0
               PROVE  /\ WholeWindows' /\ PassesInWindows' /\ SamplesComplete' /\ LeftInOrder'
                      /\ RestIsHeld' /\ ScannedIsHeld' /\ GapIsHeld'
  BY DEF Lossless
<1>2. edits = 0
  <2>1. edits' = edits \/ edits' = edits + 1
    BY DEF Next, Arrive, EditGeometry, Ask, TripGeofences, WindowScan, Begin, Progress, Fetch, Clear, InsertPass,
           InsertFails, GapDone, RecordCoverage, MergeRead, MergeClear, MergeInsert, Fail, vars, world
  <2> QED
    BY <1>1, <2>1 DEF Types
<1>3. WholeWindows /\ PassesInWindows /\ SamplesComplete /\ LeftInOrder /\ RestIsHeld /\ ScannedIsHeld /\ GapIsHeld
  BY <1>2 DEF Lossless
<1>4. WholeWindows'
  BY <1>1, <1>2, <1>3, NextWholeWindows
<1>5. CASE UNCHANGED <<fence, database, request, history>>
  <2>1. UNCHANGED <<fence, passes, pc, gap, samples, toInsert, scanned, torn>>
    BY <1>5 DEF database, request, history
  <2>2. \A c : Held(c)' <=> Held(c)
    BY <2>1 DEF Held, InPass
  <2>3. \A c, q : HeldPast(c, q)' <=> HeldPast(c, q)
    BY <2>1 DEF HeldPast, InPass
  <2>4. Good' = Good
    BY <2>1 DEF Good
  <2>5. PassesInWindows' /\ SamplesComplete'
    BY <1>3, <2>1 DEF PassesInWindows, SamplesComplete
  <2>6. LeftInOrder'
    BY <1>3, <2>1, <2>4 DEF LeftInOrder
  <2>7. RestIsHeld'
    BY <1>3, <2>1, <2>3, <2>4 DEF RestIsHeld
  <2>8. ScannedIsHeld' /\ GapIsHeld'
    BY <1>3, <2>1, <2>2, <2>4 DEF ScannedIsHeld, GapIsHeld
  <2> QED
    BY <1>4, <2>5, <2>6, <2>7, <2>8
<1>6. ASSUME UNCHANGED <<fence, arrived>>,
             NEW s \in Scanners, Ask(s) \/ Progress(s) \/ Fail(s), Others(s)
      PROVE  /\ PassesInWindows' /\ SamplesComplete' /\ LeftInOrder'
             /\ RestIsHeld' /\ ScannedIsHeld' /\ GapIsHeld'
  <2>1. torn \subseteq torn'
    <3>1. CASE InsertFails(s) \/ (Fail(s) /\ pc[s] = "insert")
      BY <1>3, <3>1, StopEffect
    <3> QED
      BY <1>3, <1>6, <3>1, PassSteps, ClearEffect, InsertEffect, GapDoneEffect
  <2>2. Good' \subseteq Good
    BY <1>6, <2>1 DEF Good
  <2>3. PassesInWindows'
    BY <1>3, <1>6, NextPassesInWindows
  <2>4. SamplesComplete'
    BY <1>3, <1>6, NextSamplesComplete
  <2>5. LeftInOrder'
    BY <1>3, <1>6, <2>2, NextLeftInOrder
  <2>6. RestIsHeld'
    BY <1>3, <1>6, <2>1, <2>2, NextRestIsHeld
  <2>7. ScannedIsHeld' /\ GapIsHeld'
    BY <1>3, <1>6, <2>2, NextHeld
  <2> QED
    BY <2>3, <2>4, <2>5, <2>6, <2>7
<1> QED
  BY <1>1, <1>2, <1>4, <1>5, <1>6, QuietSteps

LEMMA LosslessIsEnough == CoverageInv /\ Lossless => NoPassLost
<1> SUFFICES ASSUME CoverageInv, Lossless, edits = 0,
                    NEW c \in (Scanned(coverage) \intersect fence \intersect (Fixes \ Late)) \ torn
             PROVE  InPass(c, passes) \/ \E s \in Scanners : InPass(c, toInsert[s])
  BY DEF NoPassLost
<1>1. c \in Good \intersect scanned
  BY DEF Good, CoverageInv, CoverageIsEarned
<1> QED
  BY <1>1 DEF Lossless, ScannedIsHeld, Held

(* With windows apart, a fix inside the geofence in scanned time is in a   *)
(* stored pass or in one about to be stored: neither the DELETE of another *)
(* request nor a key violation between any number of them costs a pass.    *)
THEOREM PassesKept ==
  ASSUME WindowsApart
  PROVE  Spec => []NoPassLost
<1>1. Init => ArrivedOnTime /\ Lossless
  BY InitQuiet
<1>2. ArrivedOnTime /\ Lossless /\ Types /\ CoverageInv /\ Types' /\ [Next]_vars => (ArrivedOnTime /\ Lossless)'
  BY WindowsApart, NextArrived, NextLossless
<1>3. CoverageInv /\ Lossless => NoPassLost
  BY LosslessIsEnough
<1> QED
  BY <1>1, <1>2, <1>3, Coverage, PTL DEF Spec

=============================================================================
