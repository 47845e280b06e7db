----------------------------- MODULE Locations -----------------------------
(***************************************************************************)
(* Last-known positions (telemetry_api.go FleetLocations, telemetry.go     *)
(* GetFleetLocations, vehicle.go UpsertLastLocations).                     *)
(*                                                                         *)
(* A request takes each vehicle's outcome from the cache of its replica or *)
(* asks telemetry-api, one call per vehicle, answers, and leaves a         *)
(* detached goroutine that writes every position it answered with, cached  *)
(* ones included, into the vehicles table, which the next first paint      *)
(* shows.  No write compares timestamps.                                   *)
(***************************************************************************)
EXTENDS Naturals

CONSTANTS
  Replicas, Readers, Writers, Fleet,
  Keep,      \* ticks an outcome is cached (fleetLocationsCacheTTL)
  Slow,      \* ticks a request takes at most
  Late,      \* ticks its detached write takes at most (its context's timeout)
  MaxFixes   \* bound: new positions per vehicle

VARIABLES
  fix,       \* per vehicle, the number of its latest position; 0: none yet
  old,       \* history: per vehicle and position, ticks since it was replaced
  outcome,   \* per replica and vehicle, the cached outcome
  reader,    \* the requests
  writer,    \* the detached goroutines they left
  stored     \* the position in the vehicle's row

locVars == <<fix, old, outcome, reader, writer, stored>>

Horizon == Keep + 2 * Slow + Late + 1
NoOutcome == [is |-> "none", pos |-> 0, left |-> 0]
NoReader  == [at |-> "idle", on |-> "none", force |-> FALSE, todo |-> {},
              asked |-> [v \in {} |-> 0], locs |-> [v \in {} |-> 0], age |-> 0]
NoWriter  == [locs |-> [v \in {} |-> 0], age |-> 0]

(* Ticks since a position stopped being the latest. *)
Since(v, pos) == IF pos = fix[v] THEN 0 ELSE old[v][pos]

Merge(f, g) == [v \in DOMAIN f \union DOMAIN g |-> IF v \in DOMAIN g THEN g[v] ELSE f[v]]
Without(f, v) == [w \in DOMAIN f \ {v} |-> f[w]]

-----------------------------------------------------------------------------
(* Mutant: a forced refresh takes what is cached. *)
UsesAny(p, force, v) == outcome[p][v].left > 0

(* force skips the reads. *)
Uses(p, force, v) == ~force /\ outcome[p][v].left > 0

(* Resolve from the cache; only misses fan out. *)
Begin(r, p, force) ==
  LET hits == { v \in Fleet : Uses(p, force, v) }
  IN  /\ reader[r].at = "idle"
      /\ reader' = [reader EXCEPT ![r] = [NoReader EXCEPT
           !.at = IF hits = Fleet THEN "fan" ELSE "jwt", !.on = p, !.force = force,
           !.todo = Fleet \ hits,
           !.locs = [v \in { w \in hits : outcome[p][w].is = "coords" } |-> outcome[p][v].pos]]]
      /\ UNCHANGED <<fix, old, outcome, writer, stored>>

(* The developer JWT is warmed once; without it no vehicle has permission, *)
(* cached ones included, and nothing is cached or written.                 *)
GetDeveloperJWT(r) ==
  /\ reader[r].at = "jwt"
  /\ \/ reader' = [reader EXCEPT ![r].at = "fan"]
     \/ reader' = [reader EXCEPT ![r] = [@ EXCEPT !.at = "fan", !.todo = {}, !.locs = NoReader.locs]]
  /\ UNCHANGED <<fix, old, outcome, writer, stored>>

(* telemetry-api answers a worker with the latest position. *)
AskTelemetry(r, v) ==
  /\ reader[r].at = "fan" /\ v \in reader[r].todo \ DOMAIN reader[r].asked
  /\ reader' = [reader EXCEPT ![r].asked = Merge(@, [w \in {v} |-> fix[v]])]
  /\ UNCHANGED <<fix, old, outcome, writer, stored>>

Kept(is, pos) == [is |-> is, pos |-> pos, left |-> Keep]

(* The worker is done: with a position, no data, no permission (any failure *)
(* of the vehicle's JWT), or a failed query, which is not cached.           *)
Worked(r, v, is) ==
  LET pos == IF v \in DOMAIN reader[r].asked THEN reader[r].asked[v] ELSE 0
  IN  /\ reader[r].at = "fan" /\ v \in reader[r].todo
      /\ is \in {"coords", "empty"} => v \in DOMAIN reader[r].asked /\ (is = "empty") = (pos = 0)
      /\ outcome' = IF is = "failed" THEN outcome
                    ELSE [outcome EXCEPT ![reader[r].on][v] = Kept(is, IF is = "coords" THEN pos ELSE 0)]
      /\ reader' = [reader EXCEPT ![r] = [reader[r] EXCEPT !.todo = @ \ {v}, !.asked = Without(@, v),
           !.locs = IF is = "coords" THEN Merge(@, [w \in {v} |-> pos]) ELSE @]]
      /\ UNCHANGED <<fix, old, writer, stored>>

(* GetFleetLocations answers and leaves the write behind. *)
Reply(r, w) ==
  /\ reader[r].at # "idle" /\ reader[r].todo = {}
  /\ DOMAIN writer[w].locs = {}
  /\ writer' = [writer EXCEPT ![w].locs = reader[r].locs]
  /\ reader' = [reader EXCEPT ![r] = NoReader]
  /\ UNCHANGED <<fix, old, outcome, stored>>

(* One UPDATE by key. *)
UpdateRow(v, pos) == [stored EXCEPT ![v] = pos]

(* A failure is logged, the other rows are written. *)
UpsertLastLocation(w, v) ==
  /\ v \in DOMAIN writer[w].locs
  /\ stored' \in {stored, UpdateRow(v, writer[w].locs[v])}
  /\ writer' = [writer EXCEPT ![w] = [locs |-> Without(@.locs, v),
                                     age |-> IF DOMAIN @.locs = {v} THEN 0 ELSE @.age]]
  /\ UNCHANGED <<fix, old, outcome, reader>>

(* The vehicle reports a new position. *)
Report(v) ==
  /\ fix[v] < MaxFixes
  /\ fix' = [fix EXCEPT ![v] = @ + 1]
  /\ UNCHANGED <<old, outcome, reader, writer, stored>>

Older(n) == IF n = Horizon THEN n ELSE n + 1

(* Mutant: the goroutine has no deadline. *)
NoDeadline(w) == TRUE

(* Its context's timeout ends a write that is late. *)
InTime(w) == DOMAIN writer[w].locs # {} => writer[w].age < Late

Tick ==
  /\ \A r \in Readers : reader[r].at # "idle" => reader[r].age < Slow
  /\ \A w \in Writers : InTime(w)
  /\ old' = [v \in Fleet |-> [k \in 1..MaxFixes |-> IF k < fix[v] THEN Older(old[v][k]) ELSE 0]]
  /\ outcome' = [p \in Replicas |-> [v \in Fleet |->
       IF outcome[p][v].left <= 1 THEN NoOutcome ELSE [outcome[p][v] EXCEPT !.left = @ - 1]]]
  /\ reader' = [r \in Readers |-> IF reader[r].at = "idle" THEN NoReader
                                  ELSE [reader[r] EXCEPT !.age = @ + 1]]
  /\ writer' = [w \in Writers |-> IF DOMAIN writer[w].locs = {} THEN NoWriter
                                  ELSE [writer[w] EXCEPT !.age = @ + 1]]
  /\ UNCHANGED <<fix, stored>>

Init ==
  /\ fix = [v \in Fleet |-> 0] /\ old = [v \in Fleet |-> [k \in 1..MaxFixes |-> 0]]
  /\ outcome = [p \in Replicas |-> [v \in Fleet |-> NoOutcome]]
  /\ reader = [r \in Readers |-> NoReader] /\ writer = [w \in Writers |-> NoWriter]
  /\ stored = [v \in Fleet |-> 0]

Next ==
  \/ Tick \/ \E v \in Fleet : Report(v)
  \/ \E w \in Writers, v \in Fleet : UpsertLastLocation(w, v)
  \/ \E r \in Readers :
       \/ \E p \in Replicas, force \in BOOLEAN : Begin(r, p, force)
       \/ GetDeveloperJWT(r) \/ \E w \in Writers : Reply(r, w)
       \/ \E v \in Fleet : \/ AskTelemetry(r, v)
                           \/ \E is \in {"coords", "empty", "noPerm", "failed"} : Worked(r, v, is)

Spec == Init /\ [][Next]_locVars

-----------------------------------------------------------------------------
(* Types: nothing holds a position that was never reported. *)
TypeOK ==
  \A v \in Fleet :
    /\ fix[v] \in 0..MaxFixes /\ stored[v] \in 0..fix[v]
    /\ old[v] \in [1..MaxFixes -> 0..Horizon]
    /\ \A p \in Replicas : outcome[p][v].pos \in 0..fix[v] /\ outcome[p][v].left \in 0..Horizon
    /\ \A r \in Readers : v \in DOMAIN reader[r].locs => reader[r].locs[v] \in 1..fix[v]
    /\ \A w \in Writers : v \in DOMAIN writer[w].locs => writer[w].locs[v] \in 1..fix[v]

(***************************************************************************)
(* "force bypasses the cache": the positions a request answers with were   *)
(* the latest at some time since it began, or, unless it is forced, since  *)
(* the life of a cached outcome and of the request that stored it.         *)
(***************************************************************************)
RepliesAreRecent ==
  \A r \in Readers : reader[r].at # "idle" =>
    \A v \in DOMAIN reader[r].locs :
      Since(v, reader[r].locs[v]) <= IF reader[r].force THEN reader[r].age ELSE Keep + Slow + reader[r].age

(***************************************************************************)
(* Detached writes land in any order, and a row can go back to an older    *)
(* position; but only as far back as a cached outcome, the request that    *)
(* served it and its write can reach, over all replicas.                   *)
(***************************************************************************)
RowMove == \A v \in Fleet : stored'[v] # stored[v] =>
             Since(v, stored'[v]) <= Keep + 2 * Slow + Late

RowsAreRecent == [][RowMove]_locVars
=============================================================================
