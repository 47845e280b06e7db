---------------------------- MODULE GeofenceReads ----------------------------
(***************************************************************************)
(* What the geofence screens tell a caller: counts, vehicles, vehicles to  *)
(* scan, passes of a batch, geofences of a trip (the reads of              *)
(* controllers/geofences.go).  A reply joins several reads, the geofence,  *)
(* the vehicles it applies to, the caller's groups and the tenant's active *)
(* memberships, each of which may fail and between which all may change.   *)
(* One geofence, one request; how old a cached answer may be is FleetScope.*)
(***************************************************************************)
EXTENDS FiniteSets, FiniteSetsExt, Naturals, Sequences

CONSTANTS
  Tokens, Groups,
  MaxScanVehicles,   \* maxScanVehicles
  MaxTurns           \* bound: changes of the world

VARIABLES
  world,     \* the geofence, the vehicle rows, assignments, groups and memberships
  request,
  since,     \* history: the worlds there were since the request began
  turns

fenceVars == <<world, request, since, turns>>

Fences ==
  [is : {TRUE}, scope : {"all", "manual"}, groups : {{}}] \union
  [is : {TRUE}, scope : {"group"}, groups : SUBSET Groups] \union
  [is : {FALSE}, scope : {"all"}, groups : {{}}]

Worlds == [fence : Fences, rows : SUBSET Tokens, manual : SUBSET Tokens,
           index : [Groups -> SUBSET Tokens],
           active : [enforced : BOOLEAN, tokens : SUBSET Tokens]]

TokenIDsForGroups(index, groups) == UNION { index[g] : g \in groups }

(* EffectiveTokenIDs, in ascending order; vehicleCount counts the same. *)
EffectiveTokenIDs(fence, w) ==
  CASE fence.scope = "manual" -> w.manual
    [] fence.scope = "group"  -> TokenIDsForGroups(w.index, fence.groups)
    [] OTHER                  -> w.rows

(* AccessibleTokenIDs of a limited member, but for the order of its two reads. *)
NarrowToActive(set, active) == IF active.enforced THEN set \intersect active.tokens ELSE set

-----------------------------------------------------------------------------
(* Requests *)

(* A SELECT EXISTS of the tenant's rows. *)
InTenant(set) == set \intersect world.rows

Kinds == {"counts", "one", "vehicles", "targets", "passes", "trip"}

(* The reads of a handler, in its order, for a limited member and for others. *)
Plan(kind, limited) ==
  CASE kind = "counts" ->
         IF limited THEN <<"count", "groups", "active", "effective">> ELSE <<"count">>
    [] kind = "passes" ->
         IF limited THEN <<"groups", "active", "fence", "effective">> ELSE <<"fence", "effective">>
    [] kind = "trip" ->
         IF limited THEN <<"active", "groups", "row", "exists">> ELSE <<"exists">>
    [] OTHER ->
         IF limited THEN <<"fence", "effective", "groups", "active">> ELSE <<"fence", "effective">>

NoFence == CHOOSE f \in Fences : ~f.is

Idle == [at |-> "idle", kind |-> "none", next |-> 1, limited |-> FALSE, scope |-> {},
         fence |-> NoFence, reach |-> Tokens, shown |-> {}, total |-> 0, capped |-> FALSE, lost |-> FALSE]

Asked(kind) ==
  CASE kind = "passes" -> SUBSET Tokens \ {{}}
    [] kind = "trip"   -> { {v} : v \in Tokens }
    [] OTHER           -> {{}}

Begin(kind, limited, scope, ids) ==
  /\ request.at = "idle"
  /\ request' = [Idle EXCEPT !.at = "reading", !.kind = kind, !.limited = limited, !.scope = scope,
                   !.shown = ids, !.fence = world.fence]
  /\ since' = {world}
  /\ UNCHANGED <<world, turns>>

(* The first ids of a sorted list. *)
Capped(set) == { t \in set : Cardinality({ u \in set : u < t }) < MaxScanVehicles }

(* Mutant: an empty accessible set is taken for no restriction. *)
KeepAccessibleIfAny(q, reach) ==
  IF reach = {} THEN q.shown ELSE q.shown \intersect reach

(* restrictToAccessible: the ids a limited member may see. *)
KeepAccessible(q, reach) == q.shown \intersect reach

(* What one read adds. *)
Learned(q, step) ==
  CASE step = "count" -> [q EXCEPT !.shown = EffectiveTokenIDs(q.fence, world)]
    [] step = "fence" -> [q EXCEPT !.fence = world.fence]
    [] step = "groups" ->
         LET reach == q.reach \intersect TokenIDsForGroups(world.index, q.scope)
         IN  [q EXCEPT !.reach = reach, !.shown = IF q.kind = "trip" THEN KeepAccessible(q, reach) ELSE @]
    [] step = "active" ->
         LET reach == NarrowToActive(q.reach, world.active)
         IN  [q EXCEPT !.reach = reach,
                       !.shown = IF q.kind = "counts" THEN @ ELSE KeepAccessible(q, reach),
                       !.total = IF q.kind = "targets" THEN Cardinality(KeepAccessible(q, reach)) ELSE @]
    [] step = "effective" ->
         LET all == EffectiveTokenIDs(q.fence, world)
         IN  CASE q.kind = "counts"  -> [q EXCEPT !.shown = all \intersect q.reach]
               [] q.kind = "passes"  -> [q EXCEPT !.shown = @ \intersect all]
               [] q.kind = "targets" -> [q EXCEPT !.shown = Capped(all), !.total = Cardinality(all),
                                                  !.capped = Cardinality(all) > MaxScanVehicles]
               [] OTHER              -> [q EXCEPT !.shown = all]
    [] OTHER -> [q EXCEPT !.shown = InTenant(@)]

(* A geofence or a vehicle that is not there; a batch of nothing needs no reach. *)
Refused(q, step) ==
  \/ step = "fence" /\ ~world.fence.is
  \/ q.kind = "trip" /\ Learned(q, step).shown = {} /\ step \in {"row", "exists"}

Skips(q, step) == step \in {"groups", "active"} /\ q.kind \in {"one", "vehicles", "targets"} /\ q.shown = {}

(* The read a request is at. *)
StepOf(q) == Plan(q.kind, q.limited)[q.next]

GoOn(q) ==
  [q EXCEPT !.next = @ + 1,
            !.at = IF q.next = Len(Plan(q.kind, q.limited)) THEN "done" ELSE "reading"]

Read ==
  /\ request.at = "reading"
  /\ LET step == StepOf(request)
     IN  request' = CASE Skips(request, step)   -> GoOn(request)
                      [] Refused(request, step) -> Idle
                      [] OTHER                  -> GoOn(Learned(request, step))
  /\ UNCHANGED <<world, since, turns>>

(* Mutant: the count of the whole tenant stays when a member's is not to be had. *)
CountStays(q) == [q EXCEPT !.lost = TRUE]

CountIsZero(q) == [q EXCEPT !.shown = {}, !.lost = TRUE]

(* A failed read of rows loses a count, which is then zero; whatever else  *)
(* fails fails the request, groups and memberships with 503.               *)
Losable(q, step) ==
  \/ step = "count"
  \/ /\ step = "effective" /\ q.kind \in {"counts", "one"}
     /\ q.fence.scope # "group"

ReadFails ==
  /\ request.at = "reading"
  /\ LET step == StepOf(request)
     IN  /\ ~Skips(request, step)
         /\ request' = IF Losable(request, step) THEN GoOn(CountIsZero(request)) ELSE Idle
  /\ UNCHANGED <<world, since, turns>>

Reply ==
  /\ request.at = "done"
  /\ request' = Idle
  /\ UNCHANGED <<world, since, turns>>

(* Edits of the geofence, of groups, of assignments; syncs; the console. *)
Turn ==
  /\ turns < MaxTurns /\ request.at = "reading"
  /\ \E field \in {"fence", "rows", "manual", "index", "active"} :
       \E w \in { [world EXCEPT ![field] = u[field]] : u \in Worlds } \ {world} :
         world' = w /\ since' = since \union {w}
  /\ turns' = turns + 1
  /\ UNCHANGED request

-----------------------------------------------------------------------------
(* One vehicle is in a group, is assigned and has its membership; a second *)
(* one is only in the table.                                               *)
Init ==
  /\ \E fence \in Fences :
       world = [fence |-> fence, rows |-> Tokens, manual |-> {Min(Tokens)},
                index |-> [g \in Groups |-> {Min(Tokens)}],
                active |-> [enforced |-> FALSE, tokens |-> Tokens]]
  /\ request = Idle /\ since = {} /\ turns = 0

Next ==
  \/ \E kind \in Kinds : \E ids \in Asked(kind) :
       \/ Begin(kind, FALSE, {}, ids)
       \/ \E scope \in SUBSET Groups : Begin(kind, TRUE, scope, ids)
  \/ Read \/ ReadFails \/ Reply \/ Turn

Spec == Init /\ [][Next]_fenceVars

-----------------------------------------------------------------------------
(* Types. *)
TypeOK ==
  /\ world \in Worlds /\ turns \in 0..MaxTurns
  /\ request.reach \subseteq Tokens /\ request.shown \subseteq Tokens
  /\ request.total \in 0..Cardinality(Tokens) /\ request.at \in {"idle", "reading", "done"}

Within(q, v) ==
  /\ \E w \in since : v \in TokenIDsForGroups(w.index, q.scope)
  /\ \E w \in since : v \in NarrowToActive(Tokens, w.active)

Belongs(q, v) == \E w \in since : v \in EffectiveTokenIDs(q.fence, w)

(***************************************************************************)
(* "Never return ids unfiltered on failure": a limited member is shown, or *)
(* counted, only vehicles that were within the own groups, and active, at  *)
(* some time since the request began, whatever failed or changed between   *)
(* the reads; nobody is shown a vehicle the geofence never applied to; and *)
(* "truncation is visible": short of a lost count or a cap that the reply  *)
(* admits, nothing is missing that was there all the time.                 *)
(***************************************************************************)
ShownWithinReach ==
  LET q == request
  IN  q.at = "done" =>
        /\ q.limited => \A v \in q.shown : Within(q, v)
        /\ q.kind # "trip" => \A v \in q.shown : Belongs(q, v)
        /\ q.kind = "targets" => Cardinality(q.shown) <= MaxScanVehicles
        /\ q.kind = "targets" /\ ~q.capped => q.total = Cardinality(q.shown)
        /\ ~q.lost /\ ~q.capped /\ q.kind \in {"counts", "one", "vehicles", "targets"} =>
             \A v \in Tokens :
               (\A w \in since :
                  /\ v \in EffectiveTokenIDs(q.fence, w)
                  /\ q.limited => v \in NarrowToActive(TokenIDsForGroups(w.index, q.scope), w.active))
                 => v \in q.shown
=============================================================================
