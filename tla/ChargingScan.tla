---------------------------- MODULE ChargingScan ----------------------------
(***************************************************************************)
(* On-demand charging-session detection for one vehicle                    *)
(* (charging_detection_service.go, charging_detection.go).                 *)
(*                                                                         *)
(* A request (Sessions) reads which time is already scanned, reads the     *)
(* clock, and for each gap fetches the recharge segments of telemetry-api, *)
(* decides what is final (settleGap) and records it in one transaction     *)
(* under a per-vehicle advisory lock (recordGap).  Requests of the fleet   *)
(* summary, the vehicle's tab and the CSV export run at the same time: a   *)
(* scanner is one such request.  Everything the code keys by tenant and    *)
(* vehicle (rows, coverage, lock) is independent per vehicle, so one       *)
(* vehicle is modelled.                                                    *)
(***************************************************************************)
EXTENDS TimeCells, FiniteSets

CONSTANTS
  Scanners,        \* requests that can be running at once
  NoScanner,       \* the advisory lock is free
  Windows,         \* the [from, to] a caller may ask for (controllers: from < to)
  ChargePatterns,  \* the charging a vehicle may do: sets of cells with a SOC rise
  Blips,           \* rises that transfer no energy (self-checks, relay clicks)
  MergeGap,        \* rechargeSessionGapMax of telemetry-api: pauses it merges
  Lateness,        \* a reading reaches telemetry-api sooner than this
  Margin,          \* rechargeSettleMargin
  MinDuration,     \* minChargingSessionDuration
  MaxInstant,      \* bound: windows end by this instant
  MaxClock,        \* bound: the clock stops here
  MaxFailures      \* bound: requests that may fail half-way

Interval == [from : 0 .. MaxInstant, to : 0 .. MaxInstant]

Span == { iv \in Interval : iv.from < iv.to }

ASSUME ScannerAssumption == NoScanner \notin Scanners
ASSUME WindowAssumption == Windows \subseteq Span
ASSUME PatternAssumption == \A p \in ChargePatterns : p \subseteq Nat
ASSUME ParameterAssumption ==
  /\ MergeGap \in Nat /\ Lateness \in Nat \ {0} /\ Margin \in Nat /\ MinDuration \in Nat
  /\ MaxInstant \in Nat /\ MaxClock \in Nat /\ MaxFailures \in Nat
(* "Two hours, plus slack for readings that arrive late." *)
ASSUME MarginAssumption == Margin >= MergeGap + Lateness + 1

VARIABLES
  clock,           \* wall-clock time, a cell boundary
  rises,           \* the vehicle's SOC rises, past and to come
  arrived,         \* the rises telemetry-api already has
  stored,          \* charging_sessions rows: [from, to]
  covered,         \* cells recorded in charging_scan_coverage
  lock,            \* holder of the advisory lock
  pc,              \* where each request is in Sessions
  win,             \* its requested window
  todo,            \* the gaps it has still to scan
  gap,             \* the gap it is scanning
  now,             \* its reading of the clock
  segments,        \* the segments it fetched for `gap`
  deleted,         \* rows its open transaction has deleted
  live,            \* the in-progress rows it will append to its answer
  failures         \* requests that failed so far

env      == <<clock, rises, arrived>>
database == <<stored, covered, lock>>
request  == <<pc, win, todo, gap, now, segments, deleted, live>>
vars     == <<env, database, request, failures>>

-----------------------------------------------------------------------------
(***************************************************************************)
(* telemetry-api's recharge detector (external): runs of rises with no     *)
(* pause longer than MergeGap, each reported as [first rise, last rise],   *)
(* seen only through the window it was asked about.                        *)
(***************************************************************************)
Reach == MergeGap + 1

StartsRun(R, a) == a \in R /\ \A c \in R : c < a => c + Reach < a

EndsRun(R, b) == b \in R /\ \A c \in R : b < c => b + Reach < c

Runs(R) ==
  { p \in R \X R : /\ StartsRun(R, p[1]) /\ EndsRun(R, p[2]) /\ p[1] <= p[2]
                   /\ \A c \in R : p[1] < c /\ c <= p[2] => ~StartsRun(R, c) }

Detect(R) == { [from |-> p[1], to |-> p[2] + 1] : p \in Runs(R) }

RechargeSegments(g) == Detect(arrived \intersect CellsOf(g))

-----------------------------------------------------------------------------
(* charging_detection.go *)

isNoise(s) == CellsOf(s) \subseteq Blips /\ s.to - s.from < MinDuration

(* Mutant: coverage runs up to the present. *)
NoMargin(t) == t

cutoff(t) == t - Margin

(* Mutant: trust isOngoing, which the recharge detector never sets. *)
OngoingFlagOnly(s, t) == FALSE

(* Still able to grow: its last reading is within the margin of t. *)
InProgress(s, t) == s.to > cutoff(t)

(***************************************************************************)
(* settleGap's coveredTo, as the condition for an instant of gap g to lie  *)
(* before it: all of a gap that ends by the cutoff; otherwise what is      *)
(* before the cutoff and before the start of every session in progress.    *)
(***************************************************************************)
BeforeCoveredTo(instant, S, g, t) ==
  \/ g.to <= cutoff(t)
  \/ /\ instant < cutoff(t)
     /\ \A s \in S : InProgress(s, t) => instant < s.from

(* Mutant: everything a gap returns is stored. *)
StoreEverything(S, g, t) == S

FinalSessions(S, g, t) == { s \in S : BeforeCoveredTo(s.from, S, g, t) }

(* Mutant: what is still under way is not shown at all. *)
ShowNothingLive(S, g, t) == {}

InProgressSessions(S, g, t) == S \ FinalSessions(S, g, t)

(* Mutant: coverage does not stop at a session in progress. *)
CoverToCutoff(S, g, t) ==
  { c \in CellsOf(g) : g.to <= cutoff(t) \/ c < cutoff(t) }

SettledCells(S, g, t) == { c \in CellsOf(g) : BeforeCoveredTo(c, S, g, t) }

withoutNoise(S) == { s \in S : ~isNoise(s) }

StartIn(r, iv) == iv.from <= r.from /\ r.from <= iv.to

-----------------------------------------------------------------------------
(* Environment: time passes; the reading that ends cell c arrives before
   Lateness units have passed since. *)

Tick ==
  /\ clock < MaxClock
  /\ \A c \in rises \ arrived : clock < c + Lateness
  /\ clock' = clock + 1
  /\ UNCHANGED <<rises, arrived, database, request, failures>>

Arrive ==
  \E c \in rises \ arrived :
    /\ c < clock
    /\ arrived' = arrived \union {c}
    /\ UNCHANGED <<clock, rises, database, request, failures>>

-----------------------------------------------------------------------------
(* Sessions: one request. *)

NoWindow == [from |-> 0, to |-> 0]

(* The request is over: nothing it held in memory survives it. *)
Finish(s) ==
  /\ pc' = [pc EXCEPT ![s] = "idle"]
  /\ win' = [win EXCEPT ![s] = NoWindow]
  /\ todo' = [todo EXCEPT ![s] = {}]
  /\ gap' = [gap EXCEPT ![s] = NoWindow]
  /\ now' = [now EXCEPT ![s] = 0]
  /\ segments' = [segments EXCEPT ![s] = {}]
  /\ deleted' = [deleted EXCEPT ![s] = {}]
  /\ live' = [live EXCEPT ![s] = {}]

(* uncoveredGaps, read outside any lock or transaction. *)
Request(s, w) ==
  /\ pc[s] = "idle"
  /\ pc' = [pc EXCEPT ![s] = "readClock"]
  /\ win' = [win EXCEPT ![s] = w]
  /\ todo' = [todo EXCEPT ![s] = Gaps(covered, w)]
  /\ UNCHANGED <<env, database, gap, now, segments, deleted, live, failures>>

AfterGap(left) == IF left = {} THEN "answer" ELSE "fetch"

(* now := s.now(), once for all gaps. *)
ReadClock(s) ==
  /\ pc[s] = "readClock"
  /\ now' = [now EXCEPT ![s] = clock]
  /\ pc' = [pc EXCEPT ![s] = AfterGap(todo[s])]
  /\ UNCHANGED <<env, database, win, todo, gap, segments, deleted, live, failures>>

(* The next gap, oldest first. *)
Fetch(s) ==
  /\ pc[s] = "fetch"
  /\ \E g \in todo[s] :
       /\ \A h \in todo[s] : g.from <= h.from
       /\ gap' = [gap EXCEPT ![s] = g]
       /\ todo' = [todo EXCEPT ![s] = @ \ {g}]
       /\ segments' = [segments EXCEPT ![s] = RechargeSegments(g)]
  /\ pc' = [pc EXCEPT ![s] = "lock"]
  /\ UNCHANGED <<env, database, win, now, deleted, live, failures>>

-----------------------------------------------------------------------------
(* recordGap: one transaction under pg_advisory_xact_lock. *)

Final(s) == withoutNoise(FinalSessions(segments[s], gap[s], now[s]))

(* Mutant: recordGap without the advisory lock. *)
LockNothing(s) ==
  /\ pc[s] = "lock"
  /\ pc' = [pc EXCEPT ![s] = "persist"]
  /\ UNCHANGED <<env, database, win, todo, gap, now, segments, deleted, live, failures>>

AcquireLock(s) ==
  /\ pc[s] = "lock"
  /\ lock = NoScanner
  /\ lock' = s
  /\ pc' = [pc EXCEPT ![s] = "persist"]
  /\ UNCHANGED <<env, stored, covered, win, todo, gap, now, segments, deleted, live, failures>>

(* The statements on charging_sessions and charging_scan_coverage. *)

DeleteSessions(g)          == { r \in stored : StartIn(r, g) }
InsertSessions(rows, new)  == rows \union new
InsertCoverage(cells, new) == cells \union new

(* persistSessions' DELETE: it sees the rows committed by then. *)
Persist(s) ==
  /\ pc[s] = "persist"
  /\ deleted' = [deleted EXCEPT ![s] = DeleteSessions(gap[s])]
  /\ pc' = [pc EXCEPT ![s] = "commit"]
  /\ UNCHANGED <<env, database, win, todo, gap, now, segments, live, failures>>

(* The primary key is (tenant, vehicle, started_at). *)
SameKey(r, q) == r.from = q.from

KeysFree(s) ==
  \A r \in Final(s), q \in stored \ deleted[s] : ~SameKey(r, q)

(***************************************************************************)
(* The INSERTs, mergeCoverage and COMMIT, visible to others at once; the   *)
(* advisory lock goes with the transaction.  Back in Sessions, the         *)
(* sessions in progress join the answer.                                   *)
(***************************************************************************)
Commit(s) ==
  /\ pc[s] = "commit"
  /\ KeysFree(s)
  /\ stored' = InsertSessions(stored \ deleted[s], Final(s))
  /\ covered' = InsertCoverage(covered, SettledCells(segments[s], gap[s], now[s]))
  /\ lock' = NoScanner
  /\ live' = [live EXCEPT ![s] =
                @ \union withoutNoise(InProgressSessions(segments[s], gap[s], now[s]))]
  /\ pc' = [pc EXCEPT ![s] = AfterGap(todo[s])]
  /\ deleted' = [deleted EXCEPT ![s] = {}]
  /\ segments' = [segments EXCEPT ![s] = {}]
  /\ gap' = [gap EXCEPT ![s] = NoWindow]
  /\ UNCHANGED <<env, win, todo, now, failures>>

-----------------------------------------------------------------------------
(* The answer: stored rows, then the in-progress ones, that start in [from, to]. *)

StoredAnswer(s) == { r \in stored : StartIn(r, win[s]) }
LiveAnswer(s)   == { r \in live[s] : StartIn(r, win[s]) }

Answer(s) ==
  /\ pc[s] = "answer"
  /\ Finish(s)
  /\ UNCHANGED <<env, database, failures>>

(***************************************************************************)
(* A failed fetch, statement or commit, or a dead replica: the open        *)
(* transaction rolls back, which frees the lock, and the request is over.  *)
(* Gaps it has already committed stay recorded.                            *)
(***************************************************************************)

(* Mutant: a session-level lock, which a rollback does not free. *)
NothingReleased == {}

InTransaction == {"persist", "commit"}

Fail(s) ==
  /\ failures < MaxFailures
  /\ pc[s] # "idle"
  /\ Finish(s)
  /\ lock' = IF pc[s] \in InTransaction THEN NoScanner ELSE lock
  /\ failures' = failures + 1
  /\ UNCHANGED <<env, stored, covered>>

-----------------------------------------------------------------------------
Init ==
  /\ clock = 0
  /\ rises \in ChargePatterns
  /\ arrived = {}
  /\ stored = {}
  /\ covered = {}
  /\ lock = NoScanner
  /\ pc = [s \in Scanners |-> "idle"]
  /\ win = [s \in Scanners |-> NoWindow]
  /\ todo = [s \in Scanners |-> {}]
  /\ gap = [s \in Scanners |-> NoWindow]
  /\ now = [s \in Scanners |-> 0]
  /\ segments = [s \in Scanners |-> {}]
  /\ deleted = [s \in Scanners |-> {}]
  /\ live = [s \in Scanners |-> {}]
  /\ failures = 0

Progress(s) ==
  \/ ReadClock(s) \/ Fetch(s) \/ AcquireLock(s) \/ Persist(s) \/ Commit(s) \/ Answer(s)

Next ==
  \/ Tick
  \/ Arrive
  \/ \E s \in Scanners :
       \/ \E w \in Windows : Request(s, w)
       \/ Progress(s)
       \/ Fail(s)

Spec == Init /\ [][Next]_vars

-----------------------------------------------------------------------------
(* Properties *)

Stages == {"idle", "readClock", "fetch", "lock", "persist", "commit", "answer"}

TypeOK ==
  /\ clock \in Nat
  /\ rises \in ChargePatterns
  /\ arrived \subseteq rises
  /\ stored \subseteq Span
  /\ covered \subseteq Nat
  /\ lock \in Scanners \union {NoScanner}
  /\ pc \in [Scanners -> Stages]
  /\ win \in [Scanners -> Interval]
  /\ todo \in [Scanners -> SUBSET Span]
  /\ gap \in [Scanners -> Interval]
  /\ now \in [Scanners -> Nat]
  /\ segments \in [Scanners -> SUBSET Span]
  /\ deleted \in [Scanners -> SUBSET Span]
  /\ live \in [Scanners -> SUBSET Span]
  /\ failures \in Nat

(***************************************************************************)
(* "Only settled sessions are stored": a row's last reading is older than  *)
(* the settle margin, so it can no longer grow, whichever request, however *)
(* slow, stored it.                                                        *)
(***************************************************************************)
OnlySettledStored == \A r \in stored : r.to + Margin <= clock

(***************************************************************************)
(* Scanned time is final: no reading still to arrive lies in it or extends *)
(* a charge in it, so what coverage stops us from reading again is worth   *)
(* nothing.                                                                *)
(***************************************************************************)
CoverageIsFinal ==
  \A c \in covered, d \in rises : d <= c + Reach => d \in arrived

(***************************************************************************)
(* Two stored rows touch the same charge (they overlap, or the pause       *)
(* between them is one telemetry-api merges) only if a requested window    *)
(* began or ended where they meet: between them, or, when the later one    *)
(* starts inside the earlier, since the reading before; never because the  *)
(* charge was read while it was under way.                                 *)
(***************************************************************************)
WindowEdgeBetween(x, y) == \E w \in Windows, t \in x .. y : t = w.from \/ t = w.to

NoSplitCharge ==
  \A r, q \in stored :
    r.from < q.from /\ q.from < r.to + Reach =>
      \/ r.to <= q.from /\ WindowEdgeBetween(r.to, q.from)
      \/ q.from < r.to /\ WindowEdgeBetween(q.from - MergeGap, q.from)

(***************************************************************************)
(* Concurrent scans of one vehicle never collide on the primary key (the   *)
(* failure the advisory lock was added for: a collision drops the vehicle  *)
(* from the fleet summary).                                                *)
(***************************************************************************)
NoKeyCollision == \A s \in Scanners : pc[s] = "commit" => KeysFree(s)

(***************************************************************************)
(* Each rise of scanned time is in exactly one stored session: no charge   *)
(* is lost and no energy is counted twice.                                 *)
(***************************************************************************)
RowsWith(c, rs) == { r \in rs : c \in CellsOf(r) }

ExactlyOneCopy ==
  \A c \in (rises \intersect covered) \ Blips : Cardinality(RowsWith(c, stored)) = 1

(***************************************************************************)
(* The answer to a request, stored and live rows together, shows no rise   *)
(* twice, and shows each one of its window that had reached telemetry-api  *)
(* when the request read the clock.                                        *)
(***************************************************************************)
TimesShown(s, c) ==
  Cardinality(RowsWith(c, StoredAnswer(s))) + Cardinality(RowsWith(c, LiveAnswer(s)))

AnswerIsExact ==
  \A s \in Scanners : pc[s] = "answer" =>
    \A c \in (rises \intersect CellsOf(win[s])) \ Blips :
      /\ TimesShown(s, c) <= 1
      /\ c + 1 + Lateness <= now[s] => TimesShown(s, c) = 1

(***************************************************************************)
(* The promise of ChargingLedger: seen through its committed rows, a scan  *)
(* is one atomic step, behind the settle margin, that only touches rows    *)
(* starting in its gap and never forgets scanned time.                     *)
(***************************************************************************)
Ledger == INSTANCE ChargingLedger

ImplementsLedger == Ledger!Spec

-----------------------------------------------------------------------------
(***************************************************************************)
(* Liveness.  A request that is running goes on (the HTTP handler has no   *)
(* reason to stop); the advisory lock is granted in turn; and, a fact of   *)
(* use and not of the code, the whole period is asked for again and again. *)
(***************************************************************************)
WholePeriod == { w \in Windows : \A v \in Windows : w.from <= v.from /\ v.to <= w.to }

Fairness ==
  /\ WF_vars(Tick)
  /\ WF_vars(Arrive)
  /\ \A s \in Scanners :
       /\ WF_vars(Progress(s))
       /\ SF_vars(AcquireLock(s))
       /\ \A w \in WholePeriod : SF_vars(Request(s, w))

FairSpec == Spec /\ Fairness

(***************************************************************************)
(* Every charge that settles is in the end stored, once and for good: no   *)
(* pause, late reading, failed request or session in progress holds its    *)
(* coverage back for ever.                                                 *)
(***************************************************************************)
SettledByTheEnd(c) ==
  \E d \in Detect(rises) : c \in CellsOf(d) /\ d.to + Margin <= MaxClock

SettledChargesGetStored ==
  \A c \in UNION ChargePatterns \ Blips :
    <>[](c \in rises /\ SettledByTheEnd(c) => Cardinality(RowsWith(c, stored)) = 1)

=============================================================================
