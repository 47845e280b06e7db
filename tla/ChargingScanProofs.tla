------------------------- MODULE ChargingScanProofs -------------------------
(***************************************************************************)
(* Proofs about ChargingScan, for every set of concurrent requests, every  *)
(* set of windows, every charging pattern and every value of the margins   *)
(* that satisfies MarginAssumption.                                        *)
(***************************************************************************)
EXTENDS ChargingScan, TimeCellsProofs, TLAPS

-----------------------------------------------------------------------------
(* What the helpers return. *)

(* Gaps lie in their window, so they are intervals of positive length. *)
LEMMA GapsAreSpans ==
  ASSUME NEW scanned, NEW w \in Interval
  PROVE  Gaps(scanned, w) \subseteq Span
<1>1. w.from .. w.to \subseteq 0 .. MaxInstant
  BY ParameterAssumption DEF Interval
<1> QED
  BY <1>1 DEF Gaps, Span, Interval

(* A session detected among the readings of an interval lies inside it. *)
LEMMA DetectedWithin ==
  ASSUME NEW g \in Interval, NEW R, R \subseteq CellsOf(g), NEW r \in Detect(R)
  PROVE  r \in Span /\ g.from <= r.from /\ r.to <= g.to
<1>1. PICK p \in Runs(R) : r = [from |-> p[1], to |-> p[2] + 1]
  BY DEF Detect
<1>2. p[1] \in CellsOf(g) /\ p[2] \in CellsOf(g) /\ p[1] <= p[2]
  BY <1>1 DEF Runs
<1>3. g.from \in 0 .. MaxInstant /\ g.to \in 0 .. MaxInstant
  BY DEF Interval
<1> QED
  BY <1>1, <1>2, <1>3, ParameterAssumption DEF CellsOf, Span, Interval

(***************************************************************************)
(* "Sessions never overlap": of two detected sessions, the one that starts *)
(* first ends before the other starts.                                     *)
(***************************************************************************)
LEMMA DetectedDisjoint ==
  ASSUME NEW R, R \subseteq Int, NEW r \in Detect(R), NEW q \in Detect(R), r.from < q.from
  PROVE  r.to <= q.from
<1>1. PICK p \in Runs(R) : r = [from |-> p[1], to |-> p[2] + 1]
  BY DEF Detect
<1>2. PICK o \in Runs(R) : q = [from |-> o[1], to |-> o[2] + 1]
  BY DEF Detect
<1>3. p[1] \in Int /\ p[2] \in Int /\ o[1] \in Int /\ o[1] \in R /\ StartsRun(R, o[1])
  BY DEF Runs
<1>4. ~(p[1] < o[1] /\ o[1] <= p[2])
  BY <1>3 DEF Runs
<1> QED
  BY <1>1, <1>2, <1>3, <1>4

(* Segments of one fetch: inside the gap they were fetched for, in order, apart. *)
WithinApart(S, g) ==
  \A r \in S : /\ g.from <= r.from /\ r.to <= g.to
               /\ \A q \in S : r.from < q.from => r.to <= q.from

LEMMA RechargeSegmentsWithinApart ==
  ASSUME TypeOK, NEW g \in Interval
  PROVE  RechargeSegments(g) \subseteq Span /\ WithinApart(RechargeSegments(g), g)
<1> DEFINE R == arrived \intersect CellsOf(g)
<1>1. R \subseteq CellsOf(g) /\ R \subseteq Int
  BY DEF CellsOf
<1>2. \A r \in Detect(R) : r \in Span /\ g.from <= r.from /\ r.to <= g.to
  BY <1>1, DetectedWithin
<1>3. \A r, q \in Detect(R) : r.from < q.from => r.to <= q.from
  BY <1>1, DetectedDisjoint
<1> QED
  BY <1>2, <1>3 DEF RechargeSegments, WithinApart

-----------------------------------------------------------------------------
(* settleGap. *)

(* A final session ended before the settle margin. *)
LEMMA FinalIsSettled ==
  ASSUME NEW g \in Interval, NEW S \in SUBSET Span, WithinApart(S, g), NEW t \in Nat,
         NEW r \in FinalSessions(S, g, t)
  PROVE  r.to + Margin <= t
<1>1. r \in S /\ r \in Span /\ r.to <= g.to /\ r.from < r.to
  BY DEF FinalSessions, WithinApart, Span
<1>2. r.to \in Int /\ r.from \in Int /\ g.to \in Int
  BY <1>1 DEF Span, Interval
<1>3. CASE g.to <= cutoff(t)
  BY <1>1, <1>2, <1>3, ParameterAssumption DEF cutoff
<1>4. CASE \A s \in S : InProgress(s, t) => r.from < s.from
  BY <1>1, <1>2, <1>4, ParameterAssumption DEF InProgress, cutoff
<1> QED
  BY <1>3, <1>4 DEF FinalSessions, BeforeCoveredTo

(***************************************************************************)
(* "Every session starting before coveredTo ends before it": all the time  *)
(* of a final session is recorded as scanned.                              *)
(***************************************************************************)
LEMMA FinalIsCovered ==
  ASSUME NEW g \in Interval, NEW S \in SUBSET Span, WithinApart(S, g), NEW t \in Nat,
         NEW r \in FinalSessions(S, g, t)
  PROVE  CellsOf(r) \subseteq SettledCells(S, g, t)
<1>1. r \in S /\ r \in Span /\ g.from <= r.from /\ r.to <= g.to /\ r.from < r.to
  BY DEF FinalSessions, WithinApart, Span
<1>2. r.to \in Int /\ r.from \in Int /\ g.to \in Int /\ g.from \in Int
  BY <1>1 DEF Span, Interval
<1>3. SUFFICES ASSUME NEW c \in CellsOf(r)
               PROVE  c \in CellsOf(g) /\ BeforeCoveredTo(c, S, g, t)
  BY DEF SettledCells
<1>4. c \in Int /\ r.from <= c /\ c < r.to
  BY <1>2 DEF CellsOf
<1>5. c \in CellsOf(g)
  BY <1>1, <1>2, <1>4 DEF CellsOf
<1>6. CASE g.to <= cutoff(t)
  BY <1>5, <1>6 DEF BeforeCoveredTo
<1>7. CASE ~(g.to <= cutoff(t))
  <2>1. \A s \in S : InProgress(s, t) => r.from < s.from
    BY <1>7 DEF FinalSessions, BeforeCoveredTo
  <2>2. \A s \in S : InProgress(s, t) => c < s.from
    <3> SUFFICES ASSUME NEW s \in S, InProgress(s, t)
                 PROVE  c < s.from
      OBVIOUS
    <3>1. r.from < s.from
      BY <2>1
    <3>2. r.to <= s.from
      BY <3>1, <1>1 DEF WithinApart
    <3>3. s.from \in Int
      BY DEF Span, Interval
    <3> QED
      BY <3>2, <3>3, <1>2, <1>4
  <2>3. c < cutoff(t)
    BY FinalIsSettled, <1>2, <1>4, ParameterAssumption DEF cutoff
  <2> QED
    BY <1>5, <2>2, <2>3 DEF BeforeCoveredTo
<1> QED
  BY <1>6, <1>7

(* Time is recorded as scanned only once the settle margin has passed over it. *)
LEMMA SettledCellsAreSettled ==
  ASSUME NEW g \in Interval, NEW S, NEW t \in Nat, NEW c \in SettledCells(S, g, t)
  PROVE  c \in CellsOf(g) /\ c \in Nat /\ c + 1 + Margin <= t
<1>1. c \in CellsOf(g) /\ g.to \in Int /\ g.from \in Nat
  BY ParameterAssumption DEF SettledCells, Interval
<1>2. c \in Nat /\ c < g.to
  BY <1>1 DEF CellsOf
<1>3. g.to <= cutoff(t) \/ c < cutoff(t)
  BY DEF SettledCells, BeforeCoveredTo
<1> QED
  BY <1>1, <1>2, <1>3, ParameterAssumption DEF cutoff

-----------------------------------------------------------------------------
(* Type correctness. *)

LEMMA InitTypeOK == Init => TypeOK
<1>1. NoWindow \in Interval
  BY ParameterAssumption DEF NoWindow, Interval
<1> QED
  BY <1>1 DEF Init, TypeOK, Stages

LEMMA NextTypeOK == TypeOK /\ [Next]_vars => TypeOK'
<1> SUFFICES ASSUME TypeOK, [Next]_vars
             PROVE  TypeOK'
  OBVIOUS
<1>1. NoWindow \in Interval
  BY ParameterAssumption DEF NoWindow, Interval
<1> USE DEF TypeOK, Stages, env, database
<1>2. CASE Tick
  BY <1>2, ParameterAssumption DEF Tick, request
<1>3. CASE Arrive
  BY <1>3 DEF Arrive, request
<1>4. ASSUME NEW s \in Scanners, NEW w \in Windows, Request(s, w)
      PROVE  TypeOK'
  <2>1. w \in Interval
    BY WindowAssumption DEF Span
  <2>2. Gaps(covered, w) \in SUBSET Span
    BY <2>1, GapsAreSpans
  <2> QED
    BY <1>4, <2>1, <2>2 DEF Request
<1>5. ASSUME NEW s \in Scanners, ReadClock(s)
      PROVE  TypeOK'
  BY <1>5 DEF ReadClock, AfterGap
<1>6. ASSUME NEW s \in Scanners, Fetch(s)
      PROVE  TypeOK'
  <2>1. PICK g \in todo[s] :
          /\ gap' = [gap EXCEPT ![s] = g]
          /\ todo' = [todo EXCEPT ![s] = @ \ {g}]
          /\ segments' = [segments EXCEPT ![s] = RechargeSegments(g)]
    BY <1>6 DEF Fetch
  <2>2. g \in Interval
    BY DEF Span
  <2>3. RechargeSegments(g) \in SUBSET Span
    BY <2>2, RechargeSegmentsWithinApart
  <2> QED
    BY <1>6, <2>1, <2>2, <2>3 DEF Fetch
<1>7. ASSUME NEW s \in Scanners, AcquireLock(s)
      PROVE  TypeOK'
  BY <1>7 DEF AcquireLock
<1>8. ASSUME NEW s \in Scanners, Persist(s)
      PROVE  TypeOK'
  BY <1>8 DEF Persist, DeleteSessions
<1>9. ASSUME NEW s \in Scanners, Commit(s)
      PROVE  TypeOK'
  <2>1. Final(s) \subseteq segments[s]
    BY DEF Final, withoutNoise, FinalSessions
  <2>2. withoutNoise(InProgressSessions(segments[s], gap[s], now[s])) \subseteq segments[s]
    BY DEF withoutNoise, InProgressSessions
  <2>3. SettledCells(segments[s], gap[s], now[s]) \subseteq Nat
    BY SettledCellsAreSettled
  <2>4. segments[s] \subseteq Span
    OBVIOUS
  <2>5. stored' \subseteq Span /\ covered' \subseteq Nat
    BY <1>9, <2>1, <2>3, <2>4 DEF Commit, InsertSessions, InsertCoverage
  <2>6. live' \in [Scanners -> SUBSET Span]
    BY <1>9, <2>2, <2>4 DEF Commit, InsertSessions, InsertCoverage
  <2> QED
    BY <1>9, <1>1, <2>5, <2>6 DEF Commit, InsertSessions, InsertCoverage, AfterGap
<1>10. ASSUME NEW s \in Scanners, Answer(s)
       PROVE  TypeOK'
  BY <1>10, <1>1 DEF Answer, Finish
<1>11. ASSUME NEW s \in Scanners, Fail(s)
       PROVE  TypeOK'
  BY <1>11, <1>1 DEF Fail, Finish
<1>12. CASE UNCHANGED vars
  BY <1>12 DEF vars, request
<1> QED
  BY <1>2, <1>3, <1>4, <1>5, <1>6, <1>7, <1>8, <1>9, <1>10, <1>11, <1>12
     DEF Next, Progress

(***************************************************************************)
(* The state keeps its type: in particular every gap, segment and stored   *)
(* row is an interval of positive length.                                  *)
(***************************************************************************)
THEOREM TypeCorrect == Spec => []TypeOK
  BY InitTypeOK, NextTypeOK, PTL DEF Spec

-----------------------------------------------------------------------------
(***************************************************************************)
(* The inductive invariant.  The safety invariants are not inductive by    *)
(* themselves: what a slow request commits depends on what it fetched and  *)
(* on a clock it read long ago, and what it deletes on rows it saw before  *)
(* its INSERTs.                                                            *)
(***************************************************************************)
(* A transaction is open exactly for the request that holds the lock. *)
LockHeld == \A s \in Scanners : pc[s] \in InTransaction <=> lock = s

(* A request's clock reading is in the past. *)
ClockRead == \A s \in Scanners : now[s] <= clock

(* The fetched segments belong to the gap being scanned. *)
Fetched == \A s \in Scanners : WithinApart(segments[s], gap[s])

(* Under the lock, the rows deleted are still all the rows of the gap. *)
DeletedCurrent ==
  \A s \in Scanners :
    pc[s] = "commit" => deleted[s] = { r \in stored : StartIn(r, gap[s]) }

(* No reading is later than Lateness. *)
Punctual == \A d \in rises \ arrived : clock <= d + Lateness

(* Coverage stays behind the settle margin. *)
CoverageSettled == \A c \in covered : c + 1 + Margin <= clock

IInv ==
  /\ TypeOK
  /\ LockHeld
  /\ ClockRead
  /\ Fetched
  /\ DeletedCurrent
  /\ Punctual
  /\ CoverageSettled
  /\ OnlySettledStored

LEMMA InitIInv == Init => IInv
<1> SUFFICES ASSUME Init
             PROVE  IInv
  OBVIOUS
<1>2. TypeOK
  BY InitTypeOK
<1>3. LockHeld
  BY ScannerAssumption DEF Init, LockHeld, InTransaction
<1>4. ClockRead /\ Fetched /\ DeletedCurrent /\ CoverageSettled /\ OnlySettledStored
  BY DEF Init, ClockRead, Fetched, WithinApart, DeletedCurrent, CoverageSettled,
         OnlySettledStored
<1>5. Punctual
  <2> SUFFICES ASSUME NEW d \in rises
               PROVE  clock <= d + Lateness
    BY DEF Punctual
  <2>1. d \in Nat
    BY PatternAssumption DEF Init
  <2> QED
    BY <2>1, ParameterAssumption DEF Init
<1> QED
  BY <1>2, <1>3, <1>4, <1>5 DEF IInv

(* What one committed gap adds, given the invariant. *)
LEMMA CommitAddsSettled ==
  ASSUME IInv, NEW s \in Scanners
  PROVE  /\ \A r \in Final(s) :
              /\ r \in segments[s]
              /\ gap[s].from <= r.from /\ r.to <= gap[s].to
              /\ r.to + Margin <= clock
              /\ CellsOf(r) \subseteq SettledCells(segments[s], gap[s], now[s])
         /\ \A c \in SettledCells(segments[s], gap[s], now[s]) :
              c \in CellsOf(gap[s]) /\ c \in Nat /\ c + 1 + Margin <= clock
<1> DEFINE S == segments[s]
           g == gap[s]
           t == now[s]
<1>1. S \in SUBSET Span /\ g \in Interval /\ t \in Nat /\ clock \in Nat
  BY DEF IInv, TypeOK
<1>2. WithinApart(S, g) /\ t <= clock
  BY DEF IInv, Fetched, ClockRead
<1>3. ASSUME NEW r \in Final(s)
      PROVE  /\ r \in S
             /\ g.from <= r.from /\ r.to <= g.to
             /\ r.to + Margin <= clock
             /\ CellsOf(r) \subseteq SettledCells(S, g, t)
  <2>1. r \in FinalSessions(S, g, t)
    BY <1>3 DEF Final, withoutNoise
  <2>2. r \in S
    BY <2>1 DEF FinalSessions
  <2>3. r.to \in Int
    BY <2>2, <1>1 DEF Span, Interval
  <2>4. r.to + Margin <= t
    BY <2>1, <1>1, <1>2, FinalIsSettled
  <2>5. CellsOf(r) \subseteq SettledCells(S, g, t)
    BY <2>1, <1>1, <1>2, FinalIsCovered
  <2>6. r.to + Margin <= clock
    BY <2>3, <2>4, <1>1, <1>2, ParameterAssumption
  <2> QED
    BY <2>2, <2>5, <2>6, <1>2 DEF WithinApart
<1>4. ASSUME NEW c \in SettledCells(S, g, t)
      PROVE  c \in CellsOf(g) /\ c \in Nat /\ c + 1 + Margin <= clock
  <2>1. c \in CellsOf(g) /\ c \in Nat /\ c + 1 + Margin <= t
    BY <1>1, <1>4, SettledCellsAreSettled
  <2> QED
    BY <2>1, <1>1, <1>2, ParameterAssumption
<1> QED
  BY <1>3, <1>4

LEMMA NextIInv == IInv /\ [Next]_vars => IInv'
<1> SUFFICES ASSUME IInv, [Next]_vars
             PROVE  IInv'
  OBVIOUS
<1>1. TypeOK /\ TypeOK'
  BY NextTypeOK DEF IInv
<1>2. CASE Tick
  <2>1. clock' = clock + 1 /\ clock \in Nat /\ UNCHANGED <<rises, arrived, stored, covered, lock, pc, now, gap, segments, deleted>>
    BY <1>1, <1>2 DEF Tick, TypeOK, database, request
  <2>2. LockHeld' /\ Fetched' /\ DeletedCurrent'
    BY <2>1 DEF IInv, LockHeld, Fetched, DeletedCurrent
  <2>3. ClockRead'
    BY <2>1, <1>1 DEF IInv, ClockRead, TypeOK
  <2>4. Punctual'
    <3> SUFFICES ASSUME NEW d \in rises \ arrived
                 PROVE  clock + 1 <= d + Lateness
      BY <2>1 DEF Punctual
    <3>1. d \in Nat /\ clock < d + Lateness
      BY <1>1, <1>2, PatternAssumption DEF TypeOK, Tick
    <3> QED
      BY <2>1, <3>1, ParameterAssumption
  <2>5. CoverageSettled' /\ OnlySettledStored'
    <3>1. ASSUME NEW c \in covered PROVE c + 1 + Margin <= clock + 1
      BY <1>1, <2>1, ParameterAssumption DEF IInv, CoverageSettled, TypeOK
    <3>2. ASSUME NEW r \in stored PROVE r.to + Margin <= clock + 1
      BY <1>1, <2>1, ParameterAssumption DEF IInv, OnlySettledStored, TypeOK, Span, Interval
    <3> QED
      BY <2>1, <3>1, <3>2 DEF CoverageSettled, OnlySettledStored
  <2> QED
    BY <1>1, <2>2, <2>3, <2>4, <2>5 DEF IInv
<1>3. CASE Arrive
  <2>1. arrived \subseteq arrived'
    BY <1>3 DEF Arrive
  <2>2. UNCHANGED <<clock, rises, stored, covered, lock, pc, now, gap, segments, deleted>>
    BY <1>3 DEF Arrive, database, request
  <2> QED
    BY <1>1, <2>1, <2>2
       DEF IInv, LockHeld, ClockRead, Fetched, DeletedCurrent, Punctual, CoverageSettled,
           OnlySettledStored
<1>4. ASSUME UNCHANGED <<clock, rises, arrived, stored, covered>>,
             LockHeld', ClockRead', Fetched', DeletedCurrent'
      PROVE  IInv'
  BY <1>1, <1>4 DEF IInv, Punctual, CoverageSettled, OnlySettledStored
<1>5. ASSUME NEW s \in Scanners, NEW w \in Windows, Request(s, w)
      PROVE  IInv'
  <2>1. LockHeld' /\ DeletedCurrent'
    BY <1>5, <1>1 DEF Request, IInv, TypeOK, LockHeld, DeletedCurrent, InTransaction, database
  <2>2. ClockRead' /\ Fetched'
    BY <1>5 DEF Request, IInv, ClockRead, Fetched, env
  <2> QED
    BY <1>4, <1>5, <2>1, <2>2 DEF Request, env, database
<1>6. ASSUME NEW s \in Scanners, ReadClock(s)
      PROVE  IInv'
  <2>1. LockHeld' /\ DeletedCurrent'
    BY <1>6, <1>1 DEF ReadClock, AfterGap, IInv, TypeOK, LockHeld, DeletedCurrent,
                      InTransaction, database
  <2>2. ClockRead' /\ Fetched'
    BY <1>6, <1>1 DEF ReadClock, IInv, TypeOK, ClockRead, Fetched, env
  <2> QED
    BY <1>4, <1>6, <2>1, <2>2 DEF ReadClock, env, database
<1>7. ASSUME NEW s \in Scanners, Fetch(s)
      PROVE  IInv'
  <2>1. PICK g \in todo[s] :
          /\ gap' = [gap EXCEPT ![s] = g]
          /\ segments' = [segments EXCEPT ![s] = RechargeSegments(g)]
    BY <1>7 DEF Fetch
  <2>2. WithinApart(RechargeSegments(g), g)
    BY <1>1, RechargeSegmentsWithinApart DEF TypeOK, Span
  <2>3. Fetched'
    BY <2>1, <2>2, <1>1 DEF IInv, TypeOK, Fetched
  <2>4. LockHeld' /\ DeletedCurrent'
    BY <1>7, <2>1, <1>1 DEF Fetch, IInv, TypeOK, LockHeld, DeletedCurrent, InTransaction, database
  <2>5. ClockRead'
    BY <1>7 DEF Fetch, IInv, ClockRead, env
  <2> QED
    BY <1>4, <1>7, <2>3, <2>4, <2>5 DEF Fetch, env, database
<1>8. ASSUME NEW s \in Scanners, AcquireLock(s)
      PROVE  IInv'
  <2>1. LockHeld' /\ DeletedCurrent'
    BY <1>8, <1>1, ScannerAssumption
       DEF AcquireLock, IInv, TypeOK, LockHeld, DeletedCurrent, InTransaction
  <2>2. ClockRead' /\ Fetched'
    BY <1>8 DEF AcquireLock, IInv, ClockRead, Fetched, env
  <2> QED
    BY <1>4, <1>8, <2>1, <2>2 DEF AcquireLock, env
<1>9. ASSUME NEW s \in Scanners, Persist(s)
      PROVE  IInv'
  <2>1. LockHeld'
    BY <1>9, <1>1 DEF Persist, DeleteSessions, IInv, TypeOK, LockHeld, InTransaction, database
  <2>2. DeletedCurrent'
    BY <1>9, <1>1 DEF Persist, DeleteSessions, IInv, TypeOK, DeletedCurrent, database
  <2>3. ClockRead' /\ Fetched'
    BY <1>9 DEF Persist, DeleteSessions, IInv, ClockRead, Fetched, env
  <2> QED
    BY <1>4, <1>9, <2>1, <2>2, <2>3 DEF Persist, DeleteSessions, env, database
<1>10. ASSUME NEW s \in Scanners, Commit(s)
       PROVE  IInv'
  <2>1. \A q \in Scanners : pc'[q] # "commit"
    BY <1>10, <1>1 DEF Commit, InsertSessions, InsertCoverage, IInv, TypeOK, LockHeld, InTransaction, AfterGap
  <2>2. LockHeld'
    BY <1>10, <1>1, ScannerAssumption
       DEF Commit, InsertSessions, InsertCoverage, IInv, TypeOK, LockHeld, InTransaction, AfterGap
  <2>3. DeletedCurrent'
    BY <2>1 DEF DeletedCurrent
  <2>4. ClockRead'
    BY <1>10 DEF Commit, InsertSessions, InsertCoverage, IInv, ClockRead, env
  <2>5. Fetched'
    BY <1>10, <1>1 DEF Commit, InsertSessions, InsertCoverage, IInv, TypeOK, Fetched, WithinApart
  <2>6. Punctual'
    BY <1>10 DEF Commit, InsertSessions, InsertCoverage, IInv, Punctual, env
  <2>7. CoverageSettled' /\ OnlySettledStored'
    BY <1>10, CommitAddsSettled
       DEF Commit, InsertSessions, InsertCoverage, IInv, CoverageSettled, OnlySettledStored, env
  <2> QED
    BY <1>1, <2>2, <2>3, <2>4, <2>5, <2>6, <2>7 DEF IInv
<1>11. ASSUME NEW s \in Scanners, Answer(s)
       PROVE  IInv'
  <2>1. LockHeld' /\ DeletedCurrent'
    BY <1>11, <1>1 DEF Answer, Finish, IInv, TypeOK, LockHeld, DeletedCurrent,
                       InTransaction, database
  <2>2. ClockRead' /\ Fetched'
    BY <1>11, <1>1 DEF Answer, Finish, IInv, TypeOK, ClockRead, Fetched, WithinApart, env
  <2> QED
    BY <1>4, <1>11, <2>1, <2>2 DEF Answer, env, database
<1>12. ASSUME NEW s \in Scanners, Fail(s)
       PROVE  IInv'
  <2>1. LockHeld' /\ DeletedCurrent'
    BY <1>12, <1>1, ScannerAssumption
       DEF Fail, Finish, IInv, TypeOK, LockHeld, DeletedCurrent, InTransaction
  <2>2. ClockRead' /\ Fetched'
    BY <1>12, <1>1 DEF Fail, Finish, IInv, TypeOK, ClockRead, Fetched, WithinApart, env
  <2> QED
    BY <1>4, <1>12, <2>1, <2>2 DEF Fail, env
<1>13. CASE UNCHANGED vars
  BY <1>1, <1>13
     DEF vars, env, database, request, IInv, LockHeld, ClockRead, Fetched, DeletedCurrent,
         Punctual, CoverageSettled, OnlySettledStored
<1> QED
  BY <1>2, <1>3, <1>5, <1>6, <1>7, <1>8, <1>9, <1>10, <1>11, <1>12, <1>13
     DEF Next, Progress

(* The inductive invariant holds in every reachable state. *)
THEOREM IInvHolds == Spec => []IInv
  BY InitIInv, NextIInv, PTL DEF Spec

-----------------------------------------------------------------------------
(* The safety invariants. *)

(***************************************************************************)
(* A stored session ended before the settle margin, whatever windows are   *)
(* asked for and however slow the request that stored it.                  *)
(***************************************************************************)
THEOREM StoredIsSettled == Spec => []OnlySettledStored
<1>1. IInv => OnlySettledStored
  BY DEF IInv
<1> QED
  BY <1>1, IInvHolds, PTL

(***************************************************************************)
(* No reading is still to come that lies in scanned time or could extend a *)
(* charge in it.  This is where the size of the margin matters: a reading  *)
(* at most Reach after a scanned cell is at most Lateness late, and the    *)
(* margin is longer than both together.                                    *)
(***************************************************************************)
THEOREM ScannedIsFinal == Spec => []CoverageIsFinal
<1>1. IInv => CoverageIsFinal
  <2> SUFFICES ASSUME IInv, NEW c \in covered, NEW d \in rises, d <= c + Reach, d \notin arrived
               PROVE  FALSE
    BY DEF CoverageIsFinal
  <2>1. c \in Nat /\ d \in Nat /\ clock \in Nat
    BY PatternAssumption DEF IInv, TypeOK
  <2>2. clock <= d + Lateness
    BY DEF IInv, Punctual
  <2>3. c + 1 + Margin <= clock
    BY DEF IInv, CoverageSettled
  <2> QED
    BY <2>1, <2>2, <2>3, ParameterAssumption, MarginAssumption DEF Reach
<1> QED
  BY <1>1, IInvHolds, PTL

(***************************************************************************)
(* No INSERT meets a row with its key: what the transaction is about to    *)
(* store starts in its gap, and under the lock every row of the gap is     *)
(* still among those it deleted.                                           *)
(***************************************************************************)
THEOREM KeysNeverCollide == Spec => []NoKeyCollision
<1>1. IInv => NoKeyCollision
  <2> SUFFICES ASSUME IInv, NEW s \in Scanners, pc[s] = "commit",
                      NEW r \in Final(s), NEW q \in stored, q \notin deleted[s], r.from = q.from
               PROVE  FALSE
    BY DEF NoKeyCollision, KeysFree, SameKey
  <2>1. gap[s].from <= r.from /\ r.to <= gap[s].to /\ r \in segments[s]
    BY CommitAddsSettled
  <2>2. r.from \in Int /\ r.to \in Int /\ r.from < r.to /\ gap[s].to \in Int
    BY <2>1 DEF IInv, TypeOK, Span, Interval
  <2>3. StartIn(q, gap[s])
    BY <2>1, <2>2 DEF StartIn
  <2> QED
    BY <2>3 DEF IInv, DeletedCurrent
<1> QED
  BY <1>1, IInvHolds, PTL

-----------------------------------------------------------------------------
(* Implementation of the ledger. *)

(* One scanned gap, seen through the committed rows, is the ledger's atomic step. *)
LEMMA CommitRecords ==
  ASSUME IInv, NEW s \in Scanners, Commit(s)
  PROVE  Ledger!Next
<1> DEFINE g == gap[s]
<1>1. g \in Interval
  BY DEF IInv, TypeOK
<1>2. PICK from \in 0 .. MaxInstant, to \in 0 .. MaxInstant : g = [from |-> from, to |-> to]
  BY <1>1 DEF Interval
<1>3. clock' = clock
  BY DEF Commit, InsertSessions, InsertCoverage, env
<1>4. deleted[s] = { r \in stored : StartIn(r, g) }
  BY DEF Commit, InsertSessions, InsertCoverage, IInv, DeletedCurrent
<1>5. stored' = (stored \ deleted[s]) \union Final(s)
  BY DEF Commit, InsertSessions, InsertCoverage
<1>6. covered' = covered \union SettledCells(segments[s], g, now[s])
  BY DEF Commit, InsertSessions, InsertCoverage
<1>7. ASSUME NEW r \in stored' \ stored
      PROVE  /\ g.from <= r.from /\ r.to <= g.to
             /\ Ledger!Settled(r.to)
             /\ CellsOf(r) \subseteq covered'
  <2>1. r \in Final(s)
    BY <1>5, <1>7
  <2> QED
    BY <2>1, <1>6, CommitAddsSettled DEF Ledger!Settled
<1>8. ASSUME NEW r \in stored \ stored'
      PROVE  g.from <= r.from /\ r.from <= g.to
  BY <1>4, <1>5, <1>8 DEF StartIn
<1>9. ASSUME NEW c \in covered' \ covered
      PROVE  c \in CellsOf(g) /\ Ledger!Settled(c + 1)
  BY <1>6, <1>9, CommitAddsSettled DEF Ledger!Settled
<1>10. Ledger!Record(g)
  BY <1>3, <1>6, <1>7, <1>8, <1>9 DEF Ledger!Record, CellsOf, Ledger!CellsOf
<1> QED
  BY <1>2, <1>10 DEF Ledger!Next

(***************************************************************************)
(* ChargingScan implements ChargingLedger: seen through the rows and the   *)
(* coverage that are committed, concurrent scans, failures and slow        *)
(* requests come to one atomic step per gap.                               *)
(***************************************************************************)
THEOREM ScanImplementsLedger == Spec => ImplementsLedger
<1>1. Init => Ledger!Init
  BY DEF Init, Ledger!Init
<1>2. IInv /\ [Next]_vars => [Ledger!Next]_(Ledger!vars)
  <2> SUFFICES ASSUME IInv, [Next]_vars
               PROVE  Ledger!Next \/ UNCHANGED <<clock, stored, covered>>
    BY DEF Ledger!vars
  <2>1. CASE Tick
    BY <2>1 DEF Tick, Ledger!Next, Ledger!Advance, database
  <2>2. CASE Arrive
    BY <2>2 DEF Arrive, database
  <2>3. ASSUME NEW s \in Scanners, NEW w \in Windows, Request(s, w)
        PROVE  UNCHANGED <<clock, stored, covered>>
    BY <2>3 DEF Request, env, database
  <2>4. ASSUME NEW s \in Scanners, Commit(s)
        PROVE  Ledger!Next
    BY <2>4, CommitRecords
  <2>5. ASSUME NEW s \in Scanners,
               ReadClock(s) \/ Fetch(s) \/ AcquireLock(s) \/ Persist(s) \/ Answer(s) \/ Fail(s)
        PROVE  UNCHANGED <<clock, stored, covered>>
    BY <2>5 DEF ReadClock, Fetch, AcquireLock, Persist, Answer, Fail, env, database
  <2>6. CASE UNCHANGED vars
    BY <2>6 DEF vars, env, database
  <2> QED
    BY <2>1, <2>2, <2>3, <2>4, <2>5, <2>6 DEF Next, Progress
<1> QED
  BY <1>1, <1>2, IInvHolds, PTL DEF Spec, Ledger!Spec, ImplementsLedger

-----------------------------------------------------------------------------
(***************************************************************************)
(* NoSplitCharge: a charge is split into two stored sessions only at an    *)
(* end of a window somebody asked for.  An instant is an edge when two     *)
(* readings on either side of it that belong to one charge have a window's *)
(* end between them.  Every gap begins and ends at an edge, coverage       *)
(* changes only at edges, and every stored session starts at one: a        *)
(* session under way holds coverage back to its start, and what is behind  *)
(* the margin is complete.                                                 *)
(***************************************************************************)
Edge(e) ==
  \A c, d \in rises : c < e /\ e <= d /\ d <= c + Reach => WindowEdgeBetween(c + 1, d)

-----------------------------------------------------------------------------
(* The detector *)

(* Two readings with no long pause between them are in one session. *)
LEMMA OneSession ==
  ASSUME NEW R \in SUBSET Nat, NEW n \in Nat, \A x \in R : x <= n,
         NEW c \in R, NEW d \in R, c < d, d <= c + Reach
  PROVE  \E s \in Detect(R) : s.from <= c /\ d < s.to
<1> DEFINE starts == { a \in R : StartsRun(R, a) /\ a <= c }
           ends   == { b \in R : EndsRun(R, b) /\ d <= b }
<1>1. Reach \in Nat /\ c \in Nat /\ d \in Nat
  BY ParameterAssumption DEF Reach
<1>2. starts # {}
  <2>1. PICK x \in R : \A y \in R : x <= y
    BY EarliestExists
  <2>2. StartsRun(R, x) /\ x <= c
    <3>1. \A y \in R : ~(y < x)
      BY <2>1
    <3>. QED
      BY <2>1, <3>1 DEF StartsRun
  <2> QED
    BY <2>2
<1>3. ends # {}
  <2>1. PICK x \in R : \A y \in R : y <= x
    BY LatestExists
  <2>2. EndsRun(R, x) /\ d <= x
    <3>1. \A y \in R : ~(x < y)
      BY <2>1
    <3>. QED
      BY <2>1, <3>1 DEF EndsRun
  <2> QED
    BY <2>2
<1>4. PICK a \in starts : \A x \in starts : x <= a
  <2>1. starts \in SUBSET Nat /\ \A x \in starts : x <= c
    OBVIOUS
  <2> QED
    BY <1>1, <1>2, <2>1, LatestExists
<1>5. PICK b \in ends : \A x \in ends : b <= x
  <2>1. ends \in SUBSET Nat
    OBVIOUS
  <2> QED
    BY <1>3, <2>1, EarliestExists
<1>6. a \in R /\ StartsRun(R, a) /\ a <= c /\ b \in R /\ EndsRun(R, b) /\ d <= b /\ a \in Nat /\ b \in Nat
  OBVIOUS
<1>7. ASSUME NEW x \in R, a < x, x <= b, StartsRun(R, x)
      PROVE  FALSE
  <2>1. x \in Nat
    OBVIOUS
  <2>2. CASE x <= c
    BY <1>4, <1>6, <1>7, <2>1, <2>2
  <2>3. CASE c < x /\ x <= d
    <3>1. c + Reach < x
      BY <1>7, <2>3 DEF StartsRun
    <3> QED
      BY <1>1, <2>1, <2>3, <3>1
  <2>4. CASE d < x
    <3> DEFINE before == { y \in R : y < x }
    <3>1. before \in SUBSET Nat /\ d \in before /\ \A y \in before : y <= x
      <4>1. \A y \in R : y \in Nat /\ (y < x => y <= x)
        BY <2>1
      <4> QED
        BY <2>4, <4>1
    <3>2. PICK y \in before : \A z \in before : z <= y
      BY <2>1, <3>1, LatestExists
    <3>3. y \in R /\ y \in Nat /\ y < x /\ d <= y
      BY <3>1, <3>2
    <3>4. ASSUME NEW z \in R, y < z
          PROVE  y + Reach < z
      <4>1. z \in Nat /\ ~(z < x)
        BY <3>2, <3>3, <3>4
      <4>2. y + Reach < x
        BY <1>7, <3>3 DEF StartsRun
      <4> QED
        BY <1>1, <2>1, <3>3, <4>1, <4>2
    <3>5. y \in ends
      BY <3>3, <3>4 DEF EndsRun
    <3> QED
      BY <1>5, <1>6, <1>7, <2>1, <3>3, <3>5
  <2> QED
    BY <1>1, <2>1, <2>2, <2>3, <2>4
<1>8. <<a, b>> \in Runs(R)
  BY <1>1, <1>6, <1>7 DEF Runs
<1> DEFINE s == [from |-> a, to |-> b + 1]
<1>9. s \in Detect(R)
  BY <1>8 DEF Detect
<1>10. s.from <= c /\ d < s.to
  BY <1>1, <1>6
<1> QED
  BY <1>9, <1>10

(* A session starts with a reading after a pause, ends with a reading, and *)
(* each of its readings but the first follows another closely.             *)
LEMMA DetectedIs ==
  ASSUME NEW R \in SUBSET Nat, NEW r \in Detect(R)
  PROVE  /\ r.from \in R /\ (r.to - 1) \in R
         /\ \A c \in R : c < r.from => c + Reach < r.from
         /\ \A a \in R : r.from < a /\ a < r.to => \E c \in R : c < a /\ a <= c + Reach
<1>1. PICK p \in Runs(R) : r = [from |-> p[1], to |-> p[2] + 1]
  BY DEF Detect
<1>2. p[1] \in R /\ p[2] \in R /\ p[1] \in Nat /\ p[2] \in Nat /\ StartsRun(R, p[1])
  BY <1>1 DEF Runs
<1>3. Reach \in Nat /\ r.from = p[1] /\ r.to = p[2] + 1 /\ r.to - 1 = p[2]
  BY <1>1, <1>2, ParameterAssumption DEF Reach
<1>4. ASSUME NEW a \in R, r.from < a, a < r.to
      PROVE  \E c \in R : c < a /\ a <= c + Reach
  <2>1. a \in Nat /\ p[1] < a /\ a <= p[2]
    BY <1>2, <1>3, <1>4
  <2>2. ~StartsRun(R, a)
    BY <1>1, <2>1 DEF Runs
  <2>3. PICK c \in R : c < a /\ ~(c + Reach < a)
    BY <2>2 DEF StartsRun
  <2> QED
    BY <1>3, <2>1, <2>3
<1> QED
  BY <1>2, <1>3, <1>4 DEF StartsRun

-----------------------------------------------------------------------------
(* The invariant *)

(* What a request fetched is all that had happened of its gap by its reading *)
(* of the clock, but for what can be late.                                   *)
Saw(s, R) ==
  /\ segments[s] = Detect(R) /\ R \subseteq rises /\ R \subseteq CellsOf(gap[s])
  /\ \A d \in rises \intersect CellsOf(gap[s]) : d + Lateness < now[s] => d \in R

SawEnough == \A s \in Scanners : pc[s] \in {"lock", "persist", "commit"} => \E R \in SUBSET Nat : Saw(s, R)

GapEdges ==
  \A s \in Scanners : /\ \A g \in todo[s] : Edge(g.from) /\ Edge(g.to)
                      /\ Edge(gap[s].from) /\ Edge(gap[s].to)

CoverageEdges ==
  \A e \in Nat : ((e - 1) \in covered /\ e \notin covered) \/ ((e - 1) \notin covered /\ e \in covered) => Edge(e)

(* A stored session starts and ends with readings, at an edge, and has no long pause. *)
Whole(r) ==
  /\ r.from \in rises /\ (r.to - 1) \in rises /\ Edge(r.from)
  /\ \A a \in rises : r.from < a /\ a < r.to => \E c \in rises : c < a /\ a <= c + Reach

RowsWhole == \A r \in stored : Whole(r)

SInv == SawEnough /\ GapEdges /\ CoverageEdges /\ RowsWhole

LEMMA RisesAre == IInv => rises \in SUBSET Nat /\ Reach \in Nat
BY PatternAssumption, ParameterAssumption DEF IInv, TypeOK, Reach

(* The ends of a window are edges, and the beginning of time is. *)
LEMMA WindowEdges ==
  ASSUME IInv, NEW w \in Windows
  PROVE  Edge(w.from) /\ Edge(w.to) /\ Edge(0)
<1>1. w.from \in Nat /\ w.to \in Nat
  BY WindowAssumption, ParameterAssumption DEF Span, Interval
<1>2. \A c, d \in rises : c \in Nat /\ d \in Nat
  BY RisesAre
<1> QED
  BY <1>1, <1>2 DEF Edge, WindowEdgeBetween

LEMMA ZeroIsEdge == IInv => Edge(0)
BY RisesAre DEF Edge

LEMMA GapsHaveEdges ==
  ASSUME IInv, CoverageEdges, NEW w \in Windows, NEW g \in Gaps(covered, w)
  PROVE  Edge(g.from) /\ Edge(g.to)
<1>1. w.from \in Nat /\ w.to \in Nat
  BY WindowAssumption, ParameterAssumption DEF Span, Interval
<1>2. g.from \in Nat /\ g.to \in Nat /\ g.from < g.to /\ \A c \in CellsOf(g) : c \notin covered
  BY <1>1, GapsWithin
<1>3. g.from \in CellsOf(g) /\ (g.to - 1) \in CellsOf(g)
  BY <1>2 DEF CellsOf
<1>4. /\ g.from = w.from \/ (g.from - 1) \in covered
      /\ g.to = w.to \/ g.to \in covered
  BY DEF Gaps
<1> QED
  BY <1>2, <1>3, <1>4, WindowEdges DEF CoverageEdges

-----------------------------------------------------------------------------
(* What a commit adds *)

(* What is settled ends at an edge: a session that reaches over the end    *)
(* would be under way, and would have held it back to its start.           *)
LEMMA SettledHasEdges ==
  ASSUME IInv, SInv, NEW s \in Scanners, pc[s] = "commit", NEW e \in Nat,
         NEW settled, settled = SettledCells(segments[s], gap[s], now[s]),
         ((e - 1) \in settled /\ e \notin settled) \/ ((e - 1) \notin settled /\ e \in settled)
  PROVE  Edge(e)
<1> DEFINE S == segments[s]
<1>1. PICK g \in Interval, t \in Nat : g = gap[s] /\ t = now[s]
  BY DEF IInv, TypeOK
<1>2. g.from \in Nat /\ g.to \in Nat /\ Edge(g.from) /\ Edge(g.to)
  BY <1>1, ParameterAssumption DEF Interval, SInv, GapEdges
<1>3. PICK R \in SUBSET Nat : Saw(s, R)
  BY DEF SInv, SawEnough
<1>4. /\ S = Detect(R) /\ R \subseteq CellsOf(g)
      /\ \A d \in rises \intersect CellsOf(g) : d + Lateness < t => d \in R
  BY <1>1, <1>3 DEF Saw
<1>5. /\ \A c : c \in settled <=> c \in CellsOf(g) /\ BeforeCoveredTo(c, S, g, t)
      /\ \A c \in CellsOf(g) : c \in Int /\ g.from <= c /\ c < g.to
      /\ \A c \in Int : g.from <= c /\ c < g.to => c \in CellsOf(g)
  BY <1>1, <1>2 DEF SettledCells, CellsOf
<1>6. /\ \A x \in S : x.from \in Nat /\ x.to \in Nat
      /\ rises \in SUBSET Nat /\ Reach \in Nat /\ Lateness \in Nat /\ Margin \in Nat
      /\ Margin >= Reach + Lateness /\ cutoff(t) = t - Margin
  BY <1>1, RisesAre, ParameterAssumption, MarginAssumption DEF IInv, TypeOK, Span, Interval, cutoff, Reach
<1>7. CASE (e - 1) \notin settled /\ e \in settled
  <2>1. e \in CellsOf(g) /\ BeforeCoveredTo(e, S, g, t) /\ g.from <= e /\ e < g.to
    BY <1>5, <1>7
  <2>2. BeforeCoveredTo(e - 1, S, g, t)
    BY <1>6, <2>1 DEF BeforeCoveredTo
  <2>3. ~(g.from <= e - 1)
    BY <1>2, <1>5, <1>7, <2>1, <2>2
  <2>4. e = g.from
    BY <1>2, <2>1, <2>3
  <2> QED
    BY <1>2, <2>4
<1>8. CASE (e - 1) \in settled /\ e \notin settled
  <2>1. /\ g.from <= e - 1 /\ e - 1 < g.to /\ BeforeCoveredTo(e - 1, S, g, t)
    BY <1>5, <1>8
  <2>2. CASE e = g.to
    BY <1>2, <2>2
  <2>3. CASE e # g.to
    <3>1. e \in CellsOf(g) /\ ~BeforeCoveredTo(e, S, g, t)
      BY <1>2, <1>5, <1>8, <2>1, <2>3
    <3>2. ~(g.to <= cutoff(t))
      BY <3>1 DEF BeforeCoveredTo
    <3>3. e - 1 < cutoff(t) /\ \A x \in S : InProgress(x, t) => e - 1 < x.from
      BY <2>1, <3>2 DEF BeforeCoveredTo
    <3>4. e >= cutoff(t) \/ \E x \in S : InProgress(x, t) /\ ~(e < x.from)
      BY <1>6, <3>1 DEF BeforeCoveredTo
    <3>5. e <= cutoff(t)
      BY <1>1, <1>6, <3>3
    <3> SUFFICES ASSUME NEW c \in rises, NEW d \in rises, c < e, e <= d, d <= c + Reach
                 PROVE  WindowEdgeBetween(c + 1, d)
      BY DEF Edge
    <3>6. c \in Nat /\ d \in Nat
      BY <1>6
    <3>7. CASE c < g.from
      <4>1. g.from <= d
        BY <1>2, <2>1, <3>6
      <4> QED
        BY <1>2, <3>7, <4>1 DEF Edge
    <3>8. CASE g.to <= d
      <4>1. c < g.to
        BY <1>2, <2>1, <3>6
      <4> QED
        BY <1>2, <3>8, <4>1 DEF Edge
    <3>9. CASE g.from <= c /\ d < g.to
      <4>1. c \in CellsOf(g) /\ d \in CellsOf(g)
        BY <1>2, <1>5, <3>6, <3>9
      <4>2. c + Lateness < t /\ d + Lateness < t
        BY <1>1, <1>6, <3>5, <3>6
      <4>3. c \in R /\ d \in R
        BY <1>4, <4>1, <4>2
      <4>4. CASE e >= cutoff(t)
        <5>1. \A x \in R : x <= g.to
          BY <1>2, <1>4, <1>5
        <5>2. PICK x \in S : x.from <= c /\ d < x.to
          <6>1. c < d
            BY <3>6
          <6>2. \E x \in Detect(R) : x.from <= c /\ d < x.to
            BY <1>2, <4>3, <5>1, <6>1, OneSession
          <6> QED
            BY <1>4, <6>2
        <5>3. InProgress(x, t)
          BY <1>1, <1>6, <3>6, <4>4, <5>2 DEF InProgress
        <5> QED
          BY <1>6, <3>3, <3>6, <5>2, <5>3
      <4>5. ASSUME NEW x \in S, InProgress(x, t), ~(e < x.from)
            PROVE  FALSE
        <5>1. x.from = e
          BY <1>6, <3>3, <4>5
        <5>2. c + Reach < e
          BY <1>4, <4>3, <5>1, DetectedIs
        <5> QED
          BY <1>6, <3>6, <5>2
      <4> QED
        BY <3>4, <4>4, <4>5
    <3> QED
      BY <1>2, <3>6, <3>7, <3>8, <3>9
  <2> QED
    BY <2>2, <2>3
<1> QED
  BY <1>7, <1>8

(* What is final is whole: nothing of it, or shortly before it, was still late. *)
LEMMA FinalIsWhole ==
  ASSUME IInv, SInv, NEW s \in Scanners, pc[s] = "commit", NEW r \in Final(s)
  PROVE  Whole(r)
<1>1. PICK g \in Interval, t \in Nat : g = gap[s] /\ t = now[s]
  BY DEF IInv, TypeOK
<1>2. g.from \in Nat /\ g.to \in Nat /\ Edge(g.from)
  BY <1>1, ParameterAssumption DEF Interval, SInv, GapEdges
<1>3. PICK R \in SUBSET Nat : Saw(s, R)
  BY DEF SInv, SawEnough
<1>4. /\ segments[s] = Detect(R) /\ R \subseteq rises
      /\ \A d \in rises \intersect CellsOf(g) : d + Lateness < t => d \in R
  BY <1>1, <1>3 DEF Saw
<1>5. r \in FinalSessions(segments[s], g, t) /\ r \in segments[s]
  BY <1>1 DEF Final, withoutNoise, FinalSessions
<1>6. r.to + Margin <= t /\ g.from <= r.from /\ r.to <= g.to /\ r.from < r.to
  <2>1. segments[s] \in SUBSET Span /\ WithinApart(segments[s], g)
    BY <1>1 DEF IInv, TypeOK, Fetched
  <2> QED
    BY <1>5, <2>1, FinalIsSettled DEF WithinApart, Span
<1>7. /\ r.from \in Nat /\ r.to \in Nat
      /\ rises \in SUBSET Nat /\ Reach \in Nat /\ Lateness \in Nat /\ Margin \in Nat
      /\ Margin >= Reach + Lateness
  BY <1>1, <1>5, RisesAre, ParameterAssumption, MarginAssumption DEF IInv, TypeOK, Span, Interval, Reach
<1>8. /\ r.from \in R /\ (r.to - 1) \in R
      /\ \A c \in R : c < r.from => c + Reach < r.from
      /\ \A a \in R : r.from < a /\ a < r.to => \E c \in R : c < a /\ a <= c + Reach
  BY <1>4, <1>5, DetectedIs
<1>9. ASSUME NEW c \in rises, c < r.to, g.from <= c
      PROVE  c \in R
  <2>1. c \in Nat /\ c < g.to /\ c + Lateness < t
    BY <1>1, <1>2, <1>6, <1>7, <1>9
  <2>2. c \in CellsOf(g)
    BY <1>2, <1>9, <2>1 DEF CellsOf
  <2> QED
    BY <1>4, <2>1, <2>2
<1>10. Edge(r.from)
  <2> SUFFICES ASSUME NEW c \in rises, NEW d \in rises, c < r.from, r.from <= d, d <= c + Reach
               PROVE  WindowEdgeBetween(c + 1, d)
    BY DEF Edge
  <2>1. c \in Nat /\ d \in Nat
    BY <1>7
  <2>2. CASE c < g.from
    <3>1. g.from <= d
      BY <1>2, <1>6, <1>7, <2>1
    <3> QED
      BY <1>2, <2>2, <3>1 DEF Edge
  <2>3. CASE g.from <= c
    <3>1. c < r.to
      BY <1>6, <1>7, <2>1
    <3>2. c + Reach < r.from
      BY <1>8, <1>9, <2>3, <3>1
    <3> QED
      BY <1>7, <2>1, <3>2
  <2> QED
    BY <1>2, <2>1, <2>2, <2>3
<1>11. ASSUME NEW a \in rises, r.from < a, a < r.to
       PROVE  \E c \in rises : c < a /\ a <= c + Reach
  <2>1. g.from <= a
    BY <1>2, <1>6, <1>7, <1>11
  <2>2. a \in R
    BY <1>9, <1>11, <2>1
  <2> QED
    BY <1>4, <1>8, <1>11, <2>2
<1> QED
  BY <1>4, <1>8, <1>10, <1>11 DEF Whole

-----------------------------------------------------------------------------
(* The invariant holds *)

LEMMA SInvInit == Init => SInv
<1> SUFFICES ASSUME Init
             PROVE  SInv
  OBVIOUS
<1>1. Edge(0)
  BY InitIInv, ZeroIsEdge
<1>2. SawEnough /\ CoverageEdges /\ RowsWhole
  BY DEF Init, SawEnough, CoverageEdges, RowsWhole
<1>3. GapEdges
  BY <1>1 DEF Init, GapEdges, NoWindow
<1> QED
  BY <1>2, <1>3 DEF SInv

(* An edge stays one: the readings are given, when and whether they arrive is not. *)
LEMMA EdgesStay ==
  ASSUME [Next]_vars
  PROVE  /\ rises' = rises /\ \A e : Edge(e)' <=> Edge(e)
         /\ \A r : Whole(r)' <=> Whole(r)
<1>1. rises' = rises
  <2>1. ASSUME NEW s \in Scanners, Progress(s)
        PROVE  rises' = rises
    BY <2>1 DEF Progress, ReadClock, Fetch, AcquireLock, Persist, Commit, Answer, env
  <2>2. ASSUME NEW s \in Scanners, Fail(s) \/ \E w \in Windows : Request(s, w)
        PROVE  rises' = rises
    BY <2>2 DEF Fail, Request, env
  <2> QED
    BY <2>1, <2>2 DEF Next, Tick, Arrive, vars, env
<1>2. \A e : Edge(e)' <=> Edge(e)
  BY <1>1 DEF Edge
<1> QED
  BY <1>1, <1>2 DEF Whole

(* A step of one request that reaches neither coverage nor rows. *)
LEMMA RequestKeeps ==
  ASSUME IInv, SInv, [Next]_vars, NEW s \in Scanners,
         covered' = covered, stored' = stored,
         \A q \in Scanners : q # s => /\ pc'[q] = pc[q] /\ todo'[q] = todo[q] /\ gap'[q] = gap[q]
                                     /\ now'[q] = now[q] /\ segments'[q] = segments[q],
         \A g \in todo'[s] : Edge(g.from) /\ Edge(g.to),
         Edge(gap'[s].from) /\ Edge(gap'[s].to),
         pc'[s] \in {"lock", "persist", "commit"} => \E R \in SUBSET Nat : Saw(s, R)'
  PROVE  SInv'
<1>1. SawEnough'
  <2> SUFFICES ASSUME NEW q \in Scanners, pc'[q] \in {"lock", "persist", "commit"}
               PROVE  \E R \in SUBSET Nat : Saw(q, R)'
    BY DEF SawEnough
  <2>1. CASE q = s
    BY <2>1
  <2>2. CASE q # s
    <3>1. PICK R \in SUBSET Nat : Saw(q, R)
      BY <2>2 DEF SInv, SawEnough
    <3>2. Saw(q, R)'
      BY <2>2, <3>1, EdgesStay DEF Saw
    <3> QED
      BY <3>2
  <2> QED
    BY <2>1, <2>2
<1>2. GapEdges'
  <2>1. ASSUME NEW q \in Scanners
        PROVE  /\ \A g \in todo'[q] : Edge(g.from) /\ Edge(g.to)
               /\ Edge(gap'[q].from) /\ Edge(gap'[q].to)
    BY <2>1 DEF SInv, GapEdges
  <2> QED
    BY <2>1, EdgesStay DEF GapEdges
<1>3. CoverageEdges' /\ RowsWhole'
  BY EdgesStay DEF SInv, CoverageEdges, RowsWhole
<1> QED
  BY <1>1, <1>2, <1>3 DEF SInv

LEMMA CommitKeeps ==
  ASSUME IInv, SInv, [Next]_vars, NEW s \in Scanners, Commit(s)
  PROVE  SInv'
<1> DEFINE settled == SettledCells(segments[s], gap[s], now[s])
<1>1. pc[s] = "commit" /\ covered' = covered \union settled /\ stored' = (stored \ deleted[s]) \union Final(s)
  BY DEF Commit, InsertSessions, InsertCoverage
<1>2. /\ gap' = [gap EXCEPT ![s] = NoWindow] /\ segments' = [segments EXCEPT ![s] = {}]
      /\ pc' = [pc EXCEPT ![s] = AfterGap(todo[s])] /\ todo' = todo /\ now' = now
  BY DEF Commit
<1>3. TypeOK
  BY DEF IInv
<1>4. CoverageEdges'
  <2> SUFFICES ASSUME NEW e \in Nat,
                      ((e - 1) \in covered' /\ e \notin covered') \/ ((e - 1) \notin covered' /\ e \in covered')
               PROVE  Edge(e)
    BY EdgesStay DEF CoverageEdges
  <2>1. CASE ((e - 1) \in covered /\ e \notin covered) \/ ((e - 1) \notin covered /\ e \in covered)
    BY <2>1 DEF SInv, CoverageEdges
  <2>2. CASE ((e - 1) \in settled /\ e \notin settled) \/ ((e - 1) \notin settled /\ e \in settled)
    BY <1>1, <2>2, SettledHasEdges
  <2> QED
    BY <1>1, <2>1, <2>2
<1>5. RowsWhole'
  <2>1. ASSUME NEW r \in stored'
        PROVE  Whole(r)
    BY <1>1, <2>1, FinalIsWhole DEF SInv, RowsWhole
  <2> QED
    BY <2>1, EdgesStay DEF RowsWhole
<1>6. SawEnough'
  <2> SUFFICES ASSUME NEW q \in Scanners, pc'[q] \in {"lock", "persist", "commit"}
               PROVE  \E R \in SUBSET Nat : Saw(q, R)'
    BY DEF SawEnough
  <2>1. q # s
    BY <1>2, <1>3 DEF TypeOK, AfterGap
  <2>2. PICK R \in SUBSET Nat : Saw(q, R)
    BY <1>2, <1>3, <2>1 DEF SInv, SawEnough, TypeOK
  <2>3. Saw(q, R)'
    BY <1>2, <1>3, <2>1, <2>2, EdgesStay DEF Saw, TypeOK
  <2> QED
    BY <2>3
<1>7. GapEdges'
  <2>1. ASSUME NEW q \in Scanners
        PROVE  /\ \A g \in todo'[q] : Edge(g.from) /\ Edge(g.to)
               /\ Edge(gap'[q].from) /\ Edge(gap'[q].to)
    <3>1. CASE q = s
      BY <1>2, <1>3, <3>1, ZeroIsEdge DEF SInv, GapEdges, TypeOK, NoWindow
    <3>2. CASE q # s
      BY <1>2, <1>3, <3>2 DEF SInv, GapEdges, TypeOK
    <3> QED
      BY <3>1, <3>2
  <2> QED
    BY <2>1, EdgesStay DEF GapEdges
<1> QED
  BY <1>4, <1>5, <1>6, <1>7 DEF SInv

LEMMA SInvKept ==
  ASSUME IInv, IInv', SInv, [Next]_vars
  PROVE  SInv'
<1>1. TypeOK /\ ClockRead
  BY DEF IInv
<1>2. CASE UNCHANGED <<rises, stored, covered, pc, todo, gap, now, segments>>
  BY <1>2, EdgesStay DEF SInv, SawEnough, Saw, GapEdges, CoverageEdges, RowsWhole
<1>3. ASSUME NEW s \in Scanners, NEW w \in Windows, Request(s, w)
      PROVE  SInv'
  <2>1. /\ covered' = covered /\ stored' = stored /\ gap' = gap /\ now' = now /\ segments' = segments
        /\ pc' = [pc EXCEPT ![s] = "readClock"] /\ todo' = [todo EXCEPT ![s] = Gaps(covered, w)]
    BY <1>3 DEF Request, database
  <2>2. \A g \in Gaps(covered, w) : Edge(g.from) /\ Edge(g.to)
    BY GapsHaveEdges DEF SInv
  <2>3. Edge(gap'[s].from) /\ Edge(gap'[s].to)
    BY <2>1 DEF SInv, GapEdges
  <2>4. pc'[s] = "readClock" /\ todo'[s] = Gaps(covered, w)
    BY <1>1, <2>1 DEF TypeOK
  <2>5. \A q \in Scanners : q # s => /\ pc'[q] = pc[q] /\ todo'[q] = todo[q] /\ gap'[q] = gap[q]
                                    /\ now'[q] = now[q] /\ segments'[q] = segments[q]
    BY <1>1, <2>1 DEF TypeOK
  <2> QED
    BY <2>1, <2>2, <2>3, <2>4, <2>5, RequestKeeps
<1>4. ASSUME NEW s \in Scanners, ReadClock(s)
      PROVE  SInv'
  <2>1. /\ covered' = covered /\ stored' = stored /\ gap' = gap /\ todo' = todo /\ segments' = segments
        /\ pc' = [pc EXCEPT ![s] = AfterGap(todo[s])] /\ now' = [now EXCEPT ![s] = clock]
    BY <1>4 DEF ReadClock, database
  <2>2. pc'[s] \in {"answer", "fetch"}
    BY <1>1, <2>1 DEF TypeOK, AfterGap
  <2>3. \A q \in Scanners : q # s => /\ pc'[q] = pc[q] /\ todo'[q] = todo[q] /\ gap'[q] = gap[q]
                                    /\ now'[q] = now[q] /\ segments'[q] = segments[q]
    BY <1>1, <2>1 DEF TypeOK
  <2>4. /\ \A g \in todo'[s] : Edge(g.from) /\ Edge(g.to)
        /\ Edge(gap'[s].from) /\ Edge(gap'[s].to)
    BY <2>1 DEF SInv, GapEdges
  <2> QED
    BY <2>1, <2>2, <2>3, <2>4, RequestKeeps
<1>5. ASSUME NEW s \in Scanners, Fetch(s)
      PROVE  SInv'
  <2>1. PICK g \in todo[s] :
          /\ gap' = [gap EXCEPT ![s] = g] /\ todo' = [todo EXCEPT ![s] = @ \ {g}]
          /\ segments' = [segments EXCEPT ![s] = RechargeSegments(g)]
    BY <1>5 DEF Fetch
  <2>2. covered' = covered /\ stored' = stored /\ now' = now /\ pc' = [pc EXCEPT ![s] = "lock"]
    BY <1>5 DEF Fetch, database
  <2>3. \A q \in Scanners : q # s => /\ pc'[q] = pc[q] /\ todo'[q] = todo[q] /\ gap'[q] = gap[q]
                                    /\ now'[q] = now[q] /\ segments'[q] = segments[q]
    BY <1>1, <2>1, <2>2 DEF TypeOK
  <2>4. gap'[s] = g /\ todo'[s] = todo[s] \ {g} /\ segments'[s] = RechargeSegments(g) /\ now'[s] = now[s]
    BY <1>1, <2>1, <2>2 DEF TypeOK
  <2>5. /\ \A h \in todo'[s] : Edge(h.from) /\ Edge(h.to)
        /\ Edge(gap'[s].from) /\ Edge(gap'[s].to)
    BY <2>1, <2>4 DEF SInv, GapEdges
  <2> DEFINE R == arrived \intersect CellsOf(g)
  <2>6. R \in SUBSET Nat /\ R \subseteq rises /\ R \subseteq CellsOf(g)
    BY <1>1, RisesAre DEF TypeOK
  <2>7. ASSUME NEW d \in rises \intersect CellsOf(g), d + Lateness < now[s]
        PROVE  d \in R
    <3>1. d \in Nat /\ now[s] \in Nat /\ clock \in Nat /\ now[s] <= clock /\ Lateness \in Nat
      BY <1>1, RisesAre, ParameterAssumption DEF TypeOK, ClockRead
    <3>2. d \notin arrived => clock <= d + Lateness
      BY DEF IInv, Punctual
    <3> QED
      BY <2>7, <3>1, <3>2
  <2>8. segments'[s] = Detect(R)
    BY <2>4 DEF RechargeSegments
  <2> HIDE DEF R
  <2>9. PICK Q \in SUBSET Nat : Q = R
    BY <2>6
  <2>10. Saw(s, Q)'
    BY <2>4, <2>6, <2>7, <2>8, <2>9, EdgesStay DEF Saw
  <2> QED
    BY <2>2, <2>3, <2>5, <2>10, RequestKeeps
<1>6. ASSUME NEW s \in Scanners, AcquireLock(s) \/ Persist(s)
      PROVE  SInv'
  <2>1. /\ covered' = covered /\ stored' = stored /\ gap' = gap /\ todo' = todo
        /\ segments' = segments /\ now' = now /\ pc[s] \in {"lock", "persist"}
        /\ \E at : pc' = [pc EXCEPT ![s] = at]
    BY <1>6 DEF AcquireLock, Persist, DeleteSessions, database
  <2>2. \A q \in Scanners : q # s => /\ pc'[q] = pc[q] /\ todo'[q] = todo[q] /\ gap'[q] = gap[q]
                                    /\ now'[q] = now[q] /\ segments'[q] = segments[q]
    BY <1>1, <2>1 DEF TypeOK
  <2>3. /\ \A g \in todo'[s] : Edge(g.from) /\ Edge(g.to)
        /\ Edge(gap'[s].from) /\ Edge(gap'[s].to)
    BY <2>1 DEF SInv, GapEdges
  <2>4. PICK R \in SUBSET Nat : Saw(s, R)
    BY <2>1 DEF SInv, SawEnough
  <2>5. Saw(s, R)'
    BY <2>1, <2>4, EdgesStay DEF Saw
  <2> QED
    BY <2>1, <2>2, <2>3, <2>5, RequestKeeps
<1>7. ASSUME NEW s \in Scanners, Finish(s), covered' = covered, stored' = stored
      PROVE  SInv'
  <2>1. \A q \in Scanners : q # s => /\ pc'[q] = pc[q] /\ todo'[q] = todo[q] /\ gap'[q] = gap[q]
                                    /\ now'[q] = now[q] /\ segments'[q] = segments[q]
    BY <1>1, <1>7 DEF Finish, TypeOK
  <2>2. pc'[s] = "idle" /\ todo'[s] = {} /\ gap'[s] = NoWindow
    BY <1>1, <1>7 DEF Finish, TypeOK
  <2>3. Edge(gap'[s].from) /\ Edge(gap'[s].to)
    BY <2>2, ZeroIsEdge DEF NoWindow
  <2> QED
    BY <1>7, <2>1, <2>2, <2>3, RequestKeeps
<1>8. ASSUME NEW s \in Scanners, Progress(s)
      PROVE  SInv'
  <2>1. CASE Answer(s)
    BY <1>7, <2>1 DEF Answer, database
  <2> QED
    BY <1>4, <1>5, <1>6, <1>8, <2>1, CommitKeeps DEF Progress
<1>9. ASSUME NEW s \in Scanners, Fail(s)
      PROVE  SInv'
  BY <1>7, <1>9 DEF Fail
<1>10. CASE Tick \/ Arrive \/ UNCHANGED vars
  BY <1>2, <1>10 DEF Tick, Arrive, vars, env, database, request
<1> QED
  BY <1>3, <1>8, <1>9, <1>10 DEF Next

LEMMA SInvHolds == Spec => []SInv
<1>1. IInv /\ IInv' /\ SInv /\ [Next]_vars => SInv'
  BY SInvKept
<1> QED
  BY <1>1, SInvInit, IInvHolds, PTL DEF Spec

(***************************************************************************)
(* A charge is never split because it was read while it was under way, nor *)
(* because of what a slow or a failed request left behind, or how requests *)
(* interleave: where two stored sessions touch, somebody asked for a       *)
(* window that begins or ends there (settleGap, recordGap, uncoveredGaps). *)
(***************************************************************************)
THEOREM OnlyWindowsSplit == Spec => []NoSplitCharge
<1>1. IInv /\ SInv => NoSplitCharge
  <2> SUFFICES ASSUME IInv, SInv, NEW r \in stored, NEW q \in stored,
                      r.from < q.from, q.from < r.to + Reach
               PROVE  \/ r.to <= q.from /\ WindowEdgeBetween(r.to, q.from)
                      \/ q.from < r.to /\ WindowEdgeBetween(q.from - MergeGap, q.from)
    BY DEF NoSplitCharge
  <2>1. Whole(r) /\ Whole(q)
    BY DEF SInv, RowsWhole
  <2>2. /\ r.from \in Nat /\ r.to \in Nat /\ q.from \in Nat /\ q.from \in rises /\ r.to - 1 \in rises
        /\ rises \in SUBSET Nat /\ MergeGap \in Nat /\ Reach = MergeGap + 1 /\ Edge(q.from)
    BY <2>1, RisesAre, ParameterAssumption DEF IInv, TypeOK, Span, Interval, Whole, Reach
  <2>3. CASE r.to <= q.from
    <3>1. r.to - 1 < q.from /\ q.from <= q.from /\ q.from <= (r.to - 1) + Reach
      BY <2>2, <2>3
    <3>2. WindowEdgeBetween((r.to - 1) + 1, q.from)
      BY <2>2, <3>1 DEF Edge
    <3> QED
      BY <2>2, <2>3, <3>2
  <2>4. CASE q.from < r.to
    <3>1. PICK c \in rises : c < q.from /\ q.from <= c + Reach
      BY <2>1, <2>2, <2>4 DEF Whole
    <3>2. WindowEdgeBetween(c + 1, q.from)
      BY <2>2, <3>1 DEF Edge
    <3>3. (c + 1) .. q.from \subseteq (q.from - MergeGap) .. q.from
      BY <2>2, <3>1
    <3> QED
      BY <2>4, <3>2, <3>3 DEF WindowEdgeBetween
  <2> QED
    BY <2>2, <2>3, <2>4
<1> QED
  BY <1>1, IInvHolds, SInvHolds, PTL

=============================================================================
