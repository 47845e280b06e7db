----------------------------- MODULE FleetScope -----------------------------
(***************************************************************************)
(* What one wallet sees and may change in one tenant, through one replica  *)
(* of the API (app/tenant.go, vehicle.go, membership.go, fleet_group.go,   *)
(* controllers/capability.go).                                             *)
(*                                                                         *)
(* fleet-tenancy-api holds the truth.  The replica keeps four caches of    *)
(* it, called legs here: the wallet's authz answer, the vehicles the       *)
(* tenant is entitled to, its active memberships and its group index.      *)
(* Each is filled by the request that misses it, for TTL; only the group   *)
(* index is dropped by this replica's own writes.  A list intersects the   *)
(* legs, one after the other.  Other replicas and the operator's console   *)
(* are Elsewhere: they change the truth and invalidate nothing here.       *)
(***************************************************************************)
EXTENDS Naturals, Sequences

CONSTANTS
  Requests,    \* requests that can be running at once
  Vehicles, Groups,
  Synced,      \* vehicles with a row in the table of an operator-managed tenant
  TTL,         \* ticks a cached answer is kept
  FetchTime,   \* ticks a call to fleet-tenancy-api takes at most
  MaxChanges   \* bound: changes of the truth, one less once two requests overlapped

ASSUME TicksAssumption == TTL \in Nat \ {0} /\ FetchTime \in Nat \ {0}
ASSUME SyncedAssumption == Synced \subseteq Vehicles

Legs == {"authz", "entitled", "active", "index"}

(* An authz answer, with the nil scope as limited = FALSE. *)
Answers ==
  [via : {"none", "delegation"}, limited : {FALSE}, scope : {{}}, manage : {FALSE}] \union
  [via : {"direct"}, limited : {FALSE}, scope : {{}}, manage : BOOLEAN] \union
  [via : {"direct"}, limited : {TRUE}, scope : SUBSET Groups, manage : BOOLEAN]

(* A 404 of the endpoint counts as not enforced. *)
Memberships ==
  {[enforced |-> FALSE, tokens |-> {}]} \union [enforced : {TRUE}, tokens : SUBSET Vehicles]

ValuesOf(leg) ==
  CASE leg = "authz"    -> Answers
    [] leg = "entitled" -> SUBSET Vehicles
    [] leg = "active"   -> Memberships
    [] leg = "index"    -> [Groups -> SUBSET Vehicles]

VARIABLES
  managed,   \* the tenant has no DIMO credentials of its own
  log,       \* per leg, every value the truth has had, the current one last
  since,     \* history: per leg and value, ticks since it was replaced, up to Window
  cache,     \* per leg, the version held and the ticks it has left
  pc,        \* the leg or step each request is at
  fetch,     \* the call it waits for: version answered (0: none), its age
  req,       \* what the request asks for and has found out
  low,       \* history: per request and leg, the oldest version it may go by
  owed,      \* history: the version of the index a new request must be served
  changes, overlap

memory == <<cache, owed>>
truth  == <<managed, log, since, changes, overlap>>
vars   == <<managed, log, since, cache, pc, fetch, req, low, owed, changes, overlap>>

Now(leg)    == Len(log[leg])
Truth(leg)  == log[leg][Now(leg)]
Rows        == IF managed THEN Synced ELSE Truth("entitled")
NoFetch     == [ver |-> 0, age |-> 0]
Empty       == [ver |-> 0, left |-> 0]

(* A change this long before a request begins is honoured by it. *)
Window == TTL + FetchTime

Kinds  == {"list", "groups", "assign", "rename", "drop", "settings"}
Idle   == [kind |-> "none", v |-> "none", g |-> "none", set |-> {}, limited |-> FALSE,
           scope |-> {}, ver |-> 0, owes |-> 0]

Larger(m, n) == IF m > n THEN m ELSE n
First   == [leg \in Legs |-> 1]

(* The oldest version that was true within the window. *)
Oldest(leg) ==
  CHOOSE i \in 1..Now(leg) :
    /\ i = Now(leg) \/ since[leg][i] < Window
    /\ \A j \in 1..(i - 1) : since[leg][j] >= Window

-----------------------------------------------------------------------------
(* Deciding *)

(* Mutant: an empty scope reads as no scope. *)
ScopeIfAny(q, a) == [q EXCEPT !.limited = a.scope # {}, !.scope = a.scope]

(* decideTenancyAccess: the nil scope is unrestricted, the empty one sees nothing. *)
TakeScope(q, a) == [q EXCEPT !.limited = a.limited, !.scope = a.scope]

(* Delegations get no session; management is for callers with full access, *)
(* and settings for those with the capability.                             *)
Admitted(kind, a) ==
  /\ a.via = "direct"
  /\ kind \in {"assign", "rename", "drop"} => ~a.limited
  /\ kind = "settings" => a.manage

(* TokenIDsForGroups *)
TokenIDsForGroups(index, groups) == UNION { index[g] : g \in groups }

(* Mutant: a limited member is only narrowed when something is left. *)
NarrowToScopeIfAny(q, index) ==
  LET inScope == TokenIDsForGroups(index, q.scope)
  IN  IF q.limited /\ inScope # {} THEN q.set \intersect inScope ELSE q.set

NarrowToScope(q, index) ==
  IF q.limited THEN q.set \intersect TokenIDsForGroups(index, q.scope) ELSE q.set

(* intersectActiveMemberships, membershipFilter: owners included. *)
NarrowToActive(q, active) ==
  IF active.enforced THEN q.set \intersect active.tokens ELSE q.set

(* What the request is once a leg has answered. *)
Learn(q, stage, ver, a) ==
  CASE stage = "authz"    -> TakeScope(q, a)
    [] stage = "entitled" -> [q EXCEPT !.set = a]
    [] stage = "active"   -> [q EXCEPT !.set = NarrowToActive(q, a)]
    [] stage = "index"    -> [q EXCEPT !.set = NarrowToScope(q, a), !.ver = ver]
    [] OTHER              -> [q EXCEPT !.ver = ver]

(* Where it goes from there. *)
After(q, stage) ==
  CASE stage = "authz" ->
         (CASE q.kind = "list"     -> IF managed THEN "entitled" ELSE "active"
            [] q.kind = "groups"   -> "view"
            [] q.kind = "assign"   -> IF q.v \in Rows THEN "existed" ELSE "idle"
            [] q.kind = "settings" -> "reply"
            [] OTHER               -> "write")
    [] stage = "entitled" -> "active"
    [] stage \in {"active", "index"} ->
         IF stage = "active" /\ q.limited THEN "index"
         ELSE IF managed THEN "chips" ELSE "rows"
    [] stage = "existed"  -> "write"
    [] OTHER              -> "reply"

(* The leg a stage consults: the group index is read in five places. *)
Leg(stage) == IF stage \in {"view", "existed", "chips", "readback"} THEN "index" ELSE stage

Consults == {"authz", "entitled", "active", "index", "view", "existed", "chips", "readback"}

-----------------------------------------------------------------------------
(* Requests *)

Begin(r, kind, v, g) ==
  /\ pc[r] = "idle"
  /\ pc' = [pc EXCEPT ![r] = "authz"]
  /\ req' = [req EXCEPT ![r] = [Idle EXCEPT !.kind = kind, !.v = v, !.g = g,
               !.set = Vehicles, !.owes = IF kind = "groups" THEN Now("index") ELSE owed]]
  /\ low' = [low EXCEPT ![r] = [leg \in Legs |-> Oldest(leg)]]
  /\ overlap' = IF \A s \in Requests : pc[s] = "idle" THEN overlap ELSE 1
  /\ changes + overlap' <= MaxChanges
  /\ UNCHANGED <<managed, log, since, changes, memory, fetch>>

End(r) ==
  /\ pc' = [pc EXCEPT ![r] = "idle"]
  /\ req' = [req EXCEPT ![r] = Idle]
  /\ fetch' = [fetch EXCEPT ![r] = NoFetch]
  /\ low' = [low EXCEPT ![r] = First]

(* The answer is in: go on, or be refused. *)
Take(r, ver) ==
  LET a    == log[Leg(pc[r])][ver]
      q    == Learn(req[r], pc[r], ver, a)
      next == After(q, pc[r])
  IN  IF (pc[r] = "authz" => Admitted(req[r].kind, a)) /\ next # "idle"
      THEN /\ pc' = [pc EXCEPT ![r] = next]
           /\ req' = [req EXCEPT ![r] = q]
           /\ fetch' = [fetch EXCEPT ![r] = NoFetch]
           /\ UNCHANGED low
      ELSE End(r)

(* Mutant: the screens read the cached index as everybody does. *)
CachedAtAll(r) == cache[Leg(pc[r])].left > 0

(* groupIndexFresh, for the management screens, never looks in the cache. *)
Cached(r) == cache[Leg(pc[r])].left > 0 /\ pc[r] # "view"

Hit(r) ==
  /\ pc[r] \in Consults /\ fetch[r].ver = 0
  /\ Cached(r)
  /\ Take(r, cache[Leg(pc[r])].ver)
  /\ UNCHANGED <<truth, memory>>

(* A miss: the call is made, and answered with what is true now. *)
Ask(r) ==
  /\ pc[r] \in Consults /\ fetch[r].ver = 0
  /\ ~Cached(r)
  /\ fetch' = [fetch EXCEPT ![r] = [ver |-> Now(Leg(pc[r])), age |-> 0]]
  /\ UNCHANGED <<truth, memory, pc, req, low>>

(* Mutant: an entry lives until it is invalidated. *)
KeptForever(ver) == [ver |-> ver, left |-> TTL + Window]

Kept(ver) == [ver |-> ver, left |-> TTL]

(* The answer arrives and is cached, whatever happened meanwhile. *)
Fill(r) ==
  /\ fetch[r].ver > 0
  /\ cache' = [cache EXCEPT ![Leg(pc[r])] = Kept(fetch[r].ver)]
  /\ Take(r, fetch[r].ver)
  /\ UNCHANGED <<truth, owed>>

(* Mutant: without an answer the set stays as it is. *)
CarryOn(r) ==
  /\ pc' = [pc EXCEPT ![r] = After(req[r], pc[r])]
  /\ fetch' = [fetch EXCEPT ![r] = NoFetch]
  /\ UNCHANGED <<req, low>>

(* Failures are not cached and fail the request; chips are decoration. *)
WithoutAnswer(r) == IF pc[r] = "chips" THEN CarryOn(r) ELSE End(r)

FetchFails(r) ==
  /\ fetch[r].ver > 0
  /\ WithoutAnswer(r)
  /\ UNCHANGED <<truth, memory>>

(* ListVehicles of a tenant with its own credentials: the filtered query. *)
ReadRows(r) ==
  /\ pc[r] = "rows"
  /\ req' = [req EXCEPT ![r].set = @ \intersect Rows]
  /\ pc' = [pc EXCEPT ![r] = "chips"]
  /\ UNCHANGED <<truth, memory, fetch, low>>

-----------------------------------------------------------------------------
(* Changes *)

Replace(leg, value) ==
  /\ changes + overlap < MaxChanges
  /\ changes' = changes + 1
  /\ log' = [log EXCEPT ![leg] = Append(@, value)]
  /\ since' = [since EXCEPT ![leg] = Append(@, 0)]
  /\ UNCHANGED <<managed, overlap>>

(* AddVehicle and RemoveVehicle, DeleteGroup, UpdateGroup (which moves no vehicle). *)
NewIndex(q) ==
  CASE q.kind = "assign" -> { [Truth("index") EXCEPT ![q.g] = @ \union {q.v}],
                              [Truth("index") EXCEPT ![q.g] = @ \ {q.v}] }
    [] q.kind = "drop"   -> { [Truth("index") EXCEPT ![q.g] = {}] }
    [] OTHER             -> { Truth("index") }

Write(r) ==
  /\ pc[r] = "write"
  /\ \E index \in NewIndex(req[r]) : Replace("index", index)
  /\ pc' = [pc EXCEPT ![r] = "invalidate"]
  /\ req' = [req EXCEPT ![r].ver = Now("index")']
  /\ UNCHANGED <<memory, fetch, low>>

(* The write fails, or only its answer is lost: nothing is invalidated. *)
WriteFails(r) ==
  /\ pc[r] = "write"
  /\ \/ UNCHANGED truth
     \/ \E index \in NewIndex(req[r]) : Replace("index", index)
  /\ End(r)
  /\ UNCHANGED memory

(* Mutant: the entry is left to expire. *)
KeepEntry(c) == c

DropEntry(c) == [c EXCEPT !["index"] = Empty]

(* A fill that will store an index older than the one just written. *)
Overtaken(r) ==
  \E s \in Requests : Leg(pc[s]) = "index" /\ fetch[s].ver \in 1..(req[r].ver - 1)

(* Only a rename goes on to read the index back. *)
invalidateGroupIndex(r) ==
  /\ pc[r] = "invalidate"
  /\ cache' = DropEntry(cache)
  /\ owed' = IF Overtaken(r) THEN owed ELSE Larger(owed, req[r].ver)
  /\ req' = [req EXCEPT ![r].owes = IF req[r].kind = "rename" THEN owed' ELSE @]
  /\ pc' = [pc EXCEPT ![r] = IF req[r].kind = "rename" THEN "readback" ELSE "reply"]
  /\ UNCHANGED <<truth, fetch, low>>

Reply(r) ==
  /\ pc[r] = "reply"
  /\ End(r)
  /\ UNCHANGED <<truth, memory>>

Elsewhere(leg) ==
  /\ \E value \in ValuesOf(leg) \ {Truth(leg)} : Replace(leg, value)
  /\ UNCHANGED <<memory, pc, fetch, req, low>>

(* Time passes while every running request waits for a call. *)
Tick ==
  /\ \A r \in Requests : pc[r] # "idle" => fetch[r].ver > 0 /\ fetch[r].age < FetchTime
  /\ fetch' = [r \in Requests |-> IF fetch[r].ver = 0 THEN NoFetch
                                  ELSE [fetch[r] EXCEPT !.age = @ + 1]]
  /\ cache' = [leg \in Legs |-> IF cache[leg].left <= 1 THEN Empty
                                ELSE [cache[leg] EXCEPT !.left = @ - 1]]
  /\ since' = [leg \in Legs |-> [i \in DOMAIN since[leg] |->
                 IF i = Now(leg) \/ since[leg][i] = Window THEN since[leg][i] ELSE since[leg][i] + 1]]
  /\ UNCHANGED <<managed, log, changes, overlap, pc, req, low, owed>>

-----------------------------------------------------------------------------
Init ==
  /\ managed \in BOOLEAN
  /\ \E a \in Answers, active \in Memberships, index \in [Groups -> SUBSET Vehicles] :
       log = [leg \in Legs |-> CASE leg = "authz"    -> <<a>>
                                 [] leg = "entitled" -> <<Vehicles>>
                                 [] leg = "active"   -> <<active>>
                                 [] leg = "index"    -> <<index>>]
  /\ since = [leg \in Legs |-> <<0>>]
  /\ cache = [leg \in Legs |-> Empty]
  /\ pc = [r \in Requests |-> "idle"]
  /\ fetch = [r \in Requests |-> NoFetch]
  /\ req = [r \in Requests |-> Idle]
  /\ low = [r \in Requests |-> First]
  /\ owed = 1 /\ changes = 0 /\ overlap = 0

Asked(r) ==
  \/ \E kind \in {"list", "groups", "settings"} : Begin(r, kind, "none", "none")
  \/ \E kind \in {"rename", "drop"}, g \in Groups : Begin(r, kind, "none", g)
  \/ \E v \in Vehicles, g \in Groups : Begin(r, "assign", v, g)

Step(r) ==
  \/ Hit(r) \/ Ask(r) \/ Fill(r) \/ FetchFails(r) \/ ReadRows(r)
  \/ Write(r) \/ WriteFails(r) \/ invalidateGroupIndex(r) \/ Reply(r)

Next ==
  \/ Tick
  \/ \E leg \in Legs : Elsewhere(leg)
  \/ \E r \in Requests : Asked(r) \/ Step(r)

Spec == Init /\ [][Next]_vars

-----------------------------------------------------------------------------
(* Properties *)

Stages == {"idle", "authz", "entitled", "active", "index", "rows", "chips", "view", "existed",
           "write", "invalidate", "readback", "reply"}

(* Types: no request and no cache holds an answer that was never given. *)
TypeOK ==
  /\ managed \in BOOLEAN
  /\ \A leg \in Legs :
       /\ Truth(leg) \in ValuesOf(leg) /\ Len(log[leg]) \in 1..(MaxChanges + 1)
       /\ since[leg] \in [DOMAIN log[leg] -> 0..Window]
       /\ cache[leg].ver \in 0..Now(leg) /\ cache[leg].left \in 0..TTL
  /\ pc \in [Requests -> Stages]
  /\ \A r \in Requests :
       /\ fetch[r].ver > 0 => pc[r] \in Consults /\ fetch[r].ver \in 1..Now(Leg(pc[r]))
       /\ fetch[r].age \in 0..FetchTime
       /\ req[r].kind \in Kinds \union {"none"}
       /\ req[r].set \subseteq Vehicles /\ req[r].scope \subseteq Groups
       /\ \A leg \in Legs : low[r][leg] \in 1..Now(leg)
       /\ req[r].ver \in 0..Now("index") /\ req[r].owes \in 0..Now("index")
  /\ owed \in 1..Now("index") /\ overlap \in 0..1

(* What a request may go by: true at most Window ticks before it began. *)
Recent(r, leg) == { log[leg][i] : i \in low[r][leg]..Now(leg) }

(* Whatever a list shows, each leg allowed within that window; failed      *)
(* calls, empty scopes and empty groups narrow it and never widen it.      *)
ShowsByRights ==
  \A r \in Requests : pc[r] = "reply" /\ req[r].kind = "list" =>
    \A v \in req[r].set :
      /\ \E a \in Recent(r, "authz") :
           /\ a.via = "direct"
           /\ a.limited => \E g \in a.scope, index \in Recent(r, "index") : v \in index[g]
      /\ \E vs \in Recent(r, "entitled") : v \in vs
      /\ \E m \in Recent(r, "active") : m.enforced => v \in m.tokens

(* A group is written, and settings are, only for a wallet that had full   *)
(* access, or the capability, within that window.  A delegation is no      *)
(* session, whatever it may manage.                                        *)
WritesByRights ==
  \A r \in Requests :
    pc[r] = "invalidate" \/ (pc[r] = "reply" /\ req[r].kind = "settings") =>
    \E a \in Recent(r, "authz") :
      a.via = "direct" /\ IF req[r].kind = "settings" THEN a.manage ELSE ~a.limited

(***************************************************************************)
(* Revocation is "eventually consistent by up to that window": lists and   *)
(* writes go by rights the caller had at some time since the lifetime of a *)
(* cached answer, and of the call that got it, before the request began.   *)
(* The legs may be of different ages within the window.  For a tenant with *)
(* credentials of its own, what it is entitled to is what the vehicles     *)
(* table says: how far the table lags DIMO is the subject of VehicleSync.  *)
(***************************************************************************)
RevocationTakesEffect == ShowsByRights /\ WritesByRights

(***************************************************************************)
(* Writes bust the cached index, so the "TTL therefore bounds staleness    *)
(* from other writers, not from our own": a request that begins after a    *)
(* write of this replica was answered is served that index or a newer one, *)
(* a rename answers with what it wrote, and the management screens show    *)
(* every write, wherever it was made.  Only a fill that was under way when *)
(* the index was written is excused: it stores the older index again.      *)
(***************************************************************************)
OwnWritesShow ==
  \A r \in Requests : pc[r] = "reply" /\ req[r].ver > 0 => req[r].ver >= req[r].owes

=============================================================================
