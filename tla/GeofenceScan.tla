---------------------------- MODULE GeofenceScan ----------------------------
(***************************************************************************)
(* On-demand geofence-pass detection for one geofence and one vehicle      *)
(* (geofence_detection.go, and UpdateGeofence of geofence.go).             *)
(*                                                                         *)
(* There are two ways in.  The trip panel scans one trip's window unless a *)
(* coverage row already contains it; a window scan fetches only the gaps   *)
(* that coverage leaves in its window and then rewrites the coverage       *)
(* table.  Neither takes a lock or opens a transaction: every statement    *)
(* commits by itself, so every statement is an action.  Passes and         *)
(* coverage are keyed by geofence and vehicle, hence one pair.             *)
(***************************************************************************)
EXTENDS TimeCells, FiniteSets

CONSTANTS
  Scanners,     \* requests that can be running at once
  TripWindows,  \* the trips the panel may show
  ScanWindows,  \* the windows a caller may scan
  Fixes,        \* cells in which the vehicle has a position
  Late,         \* those that reach telemetry-api only after a while
  Geometries,   \* the polygons the geofence may have, as the cells inside
  MaxInstant,   \* bound: windows end by this instant
  MaxEdits,     \* bound: edits of the polygon
  MaxFailures   \* bound: requests that may fail half-way

Span == { iv \in [from : 0 .. MaxInstant, to : 0 .. MaxInstant] : iv.from < iv.to }

ASSUME GeofenceAssumption ==
  /\ TripWindows \subseteq Span /\ ScanWindows \subseteq Span
  /\ Late \subseteq Fixes /\ Fixes \subseteq Nat
  /\ MaxInstant \in Nat /\ MaxEdits \in Nat /\ MaxFailures \in Nat

VARIABLES
  fence,      \* the geofence's polygon
  arrived,    \* the fixes telemetry-api already has
  passes,     \* geofence_passes rows: [entered, exited]
  coverage,   \* geofence_scan_coverage rows: [from, to]
  pc,         \* where each request is
  kind,       \* "trip" or "window"
  win,        \* its requested window
  shape,      \* the polygon it loaded with the geofence
  todo,       \* the gaps it has still to fetch
  gap,        \* the gap it is persisting
  samples,    \* the fixes it fetched for `gap`
  toInsert,   \* passes of `gap` it has still to insert
  merged,     \* coverage rows it has still to insert
  scanned,    \* history: cells whose passes some request has stored in full
  torn,       \* history: cells whose passes a dying request left deleted
  edits,
  failures

world    == <<fence, arrived, edits>>
database == <<passes, coverage>>
request  == <<pc, kind, win, shape, todo, gap, samples, toInsert, merged>>
history  == <<scanned, torn>>
vars     == <<world, database, request, history, failures>>

NoWindow == [from |-> 0, to |-> 0]

Scanned(rows) == UNION { CellsOf(r) : r \in rows }

-----------------------------------------------------------------------------
(***************************************************************************)
(* detectPasses: one pass per maximal run of consecutive samples inside    *)
(* the polygon.                                                            *)
(***************************************************************************)
Earlier(a, b, S) == \A c \in S : a < c => b <= c

RunsOn(S, G, a, b) == a <= b /\ \A c \in S : a <= c /\ c <= b => c \in G

(* Mutant: the run still open at the last sample is never emitted. *)
ClosedRunsOnly(S, G) ==
  { p \in [entered : S, exited : S] :
      /\ RunsOn(S, G, p.entered, p.exited)
      /\ \A c \in S : c < p.entered => ~RunsOn(S, G, c, p.entered)
      /\ \A c \in S : p.exited < c => ~RunsOn(S, G, p.exited, c)
      /\ \E c \in S : p.exited < c }

detectPasses(S, G) ==
  { p \in [entered : S, exited : S] :
      /\ RunsOn(S, G, p.entered, p.exited)
      /\ \A c \in S : c < p.entered => ~RunsOn(S, G, c, p.entered)
      /\ \A c \in S : p.exited < c => ~RunsOn(S, G, p.exited, c) }

GeofenceSamples(g) == arrived \intersect CellsOf(g)

(* uncoveredGeofences: only a single row that contains the trip counts. *)
TripUncovered(w) == \A r \in coverage : ~(r.from <= w.from /\ w.to <= r.to)

-----------------------------------------------------------------------------
(* Environment *)

Arrive ==
  \E c \in Fixes \ arrived :
    /\ arrived' = arrived \union {c}
    /\ UNCHANGED <<fence, edits, database, request, history, failures>>

(* UpdateGeofence writes a new polygon under the same id. *)
EditGeometry ==
  /\ edits < MaxEdits
  /\ fence' \in Geometries \ {fence}
  /\ edits' = edits + 1
  /\ UNCHANGED <<arrived, database, request, history, failures>>

-----------------------------------------------------------------------------
(* One request *)

Finish(s) ==
  /\ pc' = [pc EXCEPT ![s] = "idle"]
  /\ kind' = [kind EXCEPT ![s] = "none"]
  /\ win' = [win EXCEPT ![s] = NoWindow]
  /\ shape' = [shape EXCEPT ![s] = {}]
  /\ todo' = [todo EXCEPT ![s] = {}]
  /\ gap' = [gap EXCEPT ![s] = NoWindow]
  /\ samples' = [samples EXCEPT ![s] = {}]
  /\ toInsert' = [toInsert EXCEPT ![s] = {}]
  /\ merged' = [merged EXCEPT ![s] = {}]

Begin(s, k, w, gaps) ==
  /\ pc[s] = "idle"
  /\ gaps # {}
  /\ pc' = [pc EXCEPT ![s] = "fetch"]
  /\ kind' = [kind EXCEPT ![s] = k]
  /\ win' = [win EXCEPT ![s] = w]
  /\ shape' = [shape EXCEPT ![s] = fence]
  /\ todo' = [todo EXCEPT ![s] = gaps]
  /\ UNCHANGED <<world, database, gap, samples, toInsert, merged, history, failures>>

(* A request whose window is covered only reads: it is left out. *)
TripGeofences(s, w) == Begin(s, "trip", w, IF TripUncovered(w) THEN {w} ELSE {})

WindowScan(s, w) == Begin(s, "window", w, Gaps(Scanned(coverage), w))

Fetch(s) ==
  /\ pc[s] = "fetch"
  /\ \E g \in todo[s] :
       /\ \A h \in todo[s] : g.from <= h.from
       /\ gap' = [gap EXCEPT ![s] = g]
       /\ todo' = [todo EXCEPT ![s] = @ \ {g}]
       /\ samples' = [samples EXCEPT ![s] = GeofenceSamples(g)]
  /\ pc' = [pc EXCEPT ![s] = "clear"]
  /\ UNCHANGED <<world, database, kind, win, shape, toInsert, merged, history, failures>>

-----------------------------------------------------------------------------
(* persistPasses *)

EnteredIn(p, g) == g.from <= p.entered /\ p.entered <= g.to

(* DELETE ... WHERE entered_at BETWEEN the ends of the gap. *)
DeletePasses(g) == { p \in passes : ~EnteredIn(p, g) }

(* The DELETE, committed at once. *)
Clear(s) ==
  /\ pc[s] = "clear"
  /\ passes' = DeletePasses(gap[s])
  /\ toInsert' = [toInsert EXCEPT ![s] = detectPasses(samples[s], shape[s])]
  /\ samples' = [samples EXCEPT ![s] = {}]
  /\ pc' = [pc EXCEPT ![s] = "insert"]
  /\ UNCHANGED <<world, coverage, kind, win, shape, todo, gap, merged, history, failures>>

NextPass(s, p) == p \in toInsert[s] /\ \A q \in toInsert[s] : p.entered <= q.entered

(* The primary key is (geofence, vehicle, entered_at). *)
Taken(p) == \E q \in passes : q.entered = p.entered

(* An INSERT that meets no row with its key. *)
InsertRow(p) == ~Taken(p) /\ passes' = passes \union {p}

InsertPass(s) ==
  /\ pc[s] = "insert"
  /\ \E p \in toInsert[s] :
       /\ NextPass(s, p)
       /\ InsertRow(p)
       /\ toInsert' = [toInsert EXCEPT ![s] = @ \ {p}]
  /\ UNCHANGED <<world, coverage, pc, kind, win, shape, todo, gap, samples, merged, history, failures>>

(* Mutant: a window without a pass is not recorded. *)
CoverIfFound(s) ==
  IF todo[s] # {} THEN "fetch"
  ELSE IF \A p \in passes : ~EnteredIn(p, gap[s]) THEN "idle"
  ELSE IF kind[s] = "trip" THEN "record" ELSE "mergeRead"

AfterGap(s) ==
  IF todo[s] # {} THEN "fetch" ELSE IF kind[s] = "trip" THEN "record" ELSE "mergeRead"

(* Mutant: the error of a failed INSERT is logged and the scan goes on. *)
ErrorLogged(s) ==
  /\ pc[s] = "insert"
  /\ \E p \in toInsert[s] : NextPass(s, p) /\ Taken(p)
  /\ toInsert' = [toInsert EXCEPT ![s] = {}]
  /\ pc' = [pc EXCEPT ![s] = AfterGap(s)]
  /\ UNCHANGED <<world, database, kind, win, shape, todo, gap, samples, merged, history, failures>>

(* A key violation: no coverage for this request; what it inserted stays. *)
InsertFails(s) ==
  /\ pc[s] = "insert"
  /\ \E p \in toInsert[s] : NextPass(s, p) /\ Taken(p)
  /\ Finish(s)
  /\ UNCHANGED <<world, database, history, failures>>

GapDone(s) ==
  /\ pc[s] = "insert"
  /\ toInsert[s] = {}
  /\ pc' = [pc EXCEPT ![s] = AfterGap(s)]
  /\ scanned' = scanned \union CellsOf(gap[s])
  /\ gap' = [gap EXCEPT ![s] = NoWindow]
  /\ UNCHANGED <<world, database, kind, win, shape, todo, samples, toInsert, merged, torn, failures>>

-----------------------------------------------------------------------------
(* ON CONFLICT (geofence, vehicle, scanned_from) DO UPDATE SET scanned_to. *)
UpsertCoverage(w) == { r \in coverage : r.from # w.from } \union {w}

RecordCoverage(s) ==
  /\ pc[s] = "record"
  /\ coverage' = UpsertCoverage(win[s])
  /\ Finish(s)
  /\ UNCHANGED <<world, passes, history, failures>>

(* mergeCoverage: SELECT, coalesce, DELETE all, INSERT one by one. *)
Horizon == [from |-> 0, to |-> MaxInstant]

(* The maximal stretches covered by `rows`. *)
coalesce(rows) == Gaps(CellsOf(Horizon) \ Scanned(rows), Horizon)

(* A SELECT and a DELETE of all rows of the pair. *)
CoverageRows   == coverage
DeleteCoverage == coverage' = {}

MergeRead(s) ==
  /\ pc[s] = "mergeRead"
  /\ merged' = [merged EXCEPT ![s] = coalesce(CoverageRows \union {win[s]})]
  /\ pc' = [pc EXCEPT ![s] = "mergeClear"]
  /\ UNCHANGED <<world, database, kind, win, shape, todo, gap, samples, toInsert, history, failures>>

MergeClear(s) ==
  /\ pc[s] = "mergeClear"
  /\ DeleteCoverage
  /\ pc' = [pc EXCEPT ![s] = "mergeInsert"]
  /\ UNCHANGED <<world, passes, kind, win, shape, todo, gap, samples, toInsert, merged, history, failures>>

(* The primary key is (geofence, vehicle, scanned_from). *)
Clashes(r) == \E q \in coverage : q.from = r.from

(* An INSERT, which a row with its key makes fail. *)
InsertCoverage(r) == IF Clashes(r) THEN coverage ELSE coverage \union {r}

(* The next row, oldest first; a key violation or the last row ends the request. *)
MergeInsert(s) ==
  /\ pc[s] = "mergeInsert"
  /\ \E r \in merged[s] :
       /\ \A q \in merged[s] : r.from <= q.from
       /\ coverage' = InsertCoverage(r)
       /\ IF Clashes(r) \/ merged[s] = {r}
          THEN Finish(s)
          ELSE /\ merged' = [merged EXCEPT ![s] = @ \ {r}]
               /\ UNCHANGED <<pc, kind, win, shape, todo, gap, samples, toInsert>>
  /\ UNCHANGED <<world, passes, history, failures>>

-----------------------------------------------------------------------------
(* A failed fetch or statement, a cancelled request or a dead replica. *)
Fail(s) ==
  /\ failures < MaxFailures
  /\ pc[s] # "idle"
  /\ failures' = failures + 1
  /\ torn' = IF pc[s] = "insert" THEN torn \union CellsOf(gap[s]) ELSE torn
  /\ Finish(s)
  /\ UNCHANGED <<world, database, scanned>>

Init ==
  /\ fence \in Geometries
  /\ arrived = Fixes \ Late
  /\ passes = {} /\ coverage = {}
  /\ pc = [s \in Scanners |-> "idle"]
  /\ kind = [s \in Scanners |-> "none"]
  /\ win = [s \in Scanners |-> NoWindow]
  /\ shape = [s \in Scanners |-> {}]
  /\ todo = [s \in Scanners |-> {}]
  /\ gap = [s \in Scanners |-> NoWindow]
  /\ samples = [s \in Scanners |-> {}]
  /\ toInsert = [s \in Scanners |-> {}]
  /\ merged = [s \in Scanners |-> {}]
  /\ scanned = {} /\ torn = {}
  /\ edits = 0 /\ failures = 0

Ask(s) ==
  \/ \E w \in TripWindows : TripGeofences(s, w)
  \/ \E w \in ScanWindows : WindowScan(s, w)

Progress(s) ==
  \/ Fetch(s) \/ Clear(s) \/ InsertPass(s) \/ InsertFails(s) \/ GapDone(s)
  \/ RecordCoverage(s) \/ MergeRead(s) \/ MergeClear(s) \/ MergeInsert(s)

Next ==
  \/ Arrive
  \/ EditGeometry
  \/ \E s \in Scanners : Ask(s) \/ Progress(s) \/ Fail(s)

Spec == Init /\ [][Next]_vars

(* The handler runs on; every window is asked for until it is covered. *)
FairSpec ==
  /\ Spec
  /\ \A s \in Scanners :
       /\ WF_vars(Progress(s))
       /\ \A w \in TripWindows : SF_vars(TripGeofences(s, w))
       /\ \A w \in ScanWindows : SF_vars(WindowScan(s, w))

-----------------------------------------------------------------------------
(* Properties *)

Stages == {"idle", "fetch", "clear", "insert", "record", "mergeRead", "mergeClear", "mergeInsert"}

(* Types; a pass never ends before it begins; only scanned gaps are intervals. *)
TypeOK ==
  /\ fence \in Geometries
  /\ arrived \subseteq Fixes
  /\ passes \subseteq { p \in [entered : Fixes, exited : Fixes] : p.entered <= p.exited }
  /\ coverage \subseteq Span
  /\ pc \in [Scanners -> Stages]
  /\ kind \in [Scanners -> {"none", "trip", "window"}]
  /\ \A s \in Scanners :
       /\ win[s] \in Span \union {NoWindow} /\ gap[s] \in Span \union {NoWindow}
       /\ todo[s] \subseteq Span /\ merged[s] \subseteq Span
       /\ shape[s] \in Geometries \union {{}}
       /\ samples[s] \subseteq arrived

(***************************************************************************)
(* Time is marked as scanned only after some request has stored all of its *)
(* passes there: not by one that met a key violation, and not by a merge   *)
(* that brings back what an older read of the table said.                  *)
(***************************************************************************)
CoverageIsEarned == Scanned(coverage) \subseteq scanned

(***************************************************************************)
(* With windows that are equal or only touch, a fix inside the geofence in *)
(* scanned time is in a stored pass, or in one a request is about to       *)
(* insert again; unless a request died between its DELETE and its INSERTs  *)
(* there.  A key violation between two requests never costs a pass.        *)
(***************************************************************************)
InPass(c, ps) == \E p \in ps : p.entered <= c /\ c <= p.exited

NoPassLost ==
  edits = 0 =>
    \A c \in (Scanned(coverage) \intersect fence \intersect (Fixes \ Late)) \ torn :
      InPass(c, passes) \/ \E s \in Scanners : InPass(c, toInsert[s])

(***************************************************************************)
(* "Geofence geometry is fixed per id, so a computed pass never goes       *)
(* stale": every stored pass lies inside the geofence as it is.            *)
(***************************************************************************)
PassesNeverGoStale ==
  \A p \in passes : \A c \in Fixes \ Late :
    p.entered <= c /\ c <= p.exited => c \in fence

(***************************************************************************)
(* "Deleting the window first keeps exactly one copy and makes recompute   *)
(* idempotent": once no request is running and none has failed, each fix   *)
(* inside the geofence in scanned time is in exactly one pass.             *)
(***************************************************************************)
ExactlyOnePass ==
  (\A s \in Scanners : pc[s] = "idle") =>
    \A c \in (Scanned(coverage) \intersect fence) \ torn :
      Cardinality({ p \in passes : p.entered <= c /\ c <= p.exited }) = 1

(***************************************************************************)
(* No window that keeps being asked for stays unscanned for good, unless   *)
(* requests keep overlapping: not one without a pass, not one whose        *)
(* requests failed or met a key violation before.  (Overlapping requests   *)
(* can keep a window unscanned: one that records its own window between    *)
(* the DELETE and the INSERTs of another's merge takes the key of the      *)
(* merged row, and the rest of the merge is dropped.)                      *)
(***************************************************************************)
Overlapping == \E s, t \in Scanners : s # t /\ pc[s] # "idle" /\ pc[t] # "idle"

ScansComplete ==
  \A w \in TripWindows \union ScanWindows :
    []<>(CellsOf(w) \subseteq Scanned(coverage) \/ Overlapping)

=============================================================================
