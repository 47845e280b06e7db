----------------------------- MODULE FleetCache -----------------------------
(***************************************************************************)
(* The list of vehicles a browser keeps between its pages (fleet-cache.ts  *)
(* and the pages that use it): one in memory, without an end, and one per  *)
(* fleet in IndexedDB, painted after a reload until the list arrives.  A   *)
(* page asks for the list, then for positions, and keeps what it has then; *)
(* it goes on after the user has left it, and the fleet asked for is that  *)
(* of the address bar when it asks.                                        *)
(***************************************************************************)
EXTENDS Naturals, FiniteSets

CONSTANTS
  Fleets,
  Pages,        \* pages with a list, of which at most one is up
  Loads,        \* loads under way
  MaxLoads,     \* bound: loads of the list that reach the server
  MaxChanges    \* bound: changes of a fleet, reloads and switches together

VARIABLES
  world,     \* per fleet, what the server would answer: [version, enforced]
  address,   \* the fleet of the address bar
  memory,    \* the list kept in memory, a set of at most one [fleet, list]
  disk,      \* per fleet, whose list is kept in IndexedDB
  noted,     \* per fleet, the enforcement state last heard of
  page,      \* the pages; of what one shows, whose list it is
  load,
  asked,     \* a favourite being set or an access being asked, at most one
  past,      \* history: what was acknowledged, and what overlapped
  begun, turns

cacheVars == <<world, address, memory, disk, noted, page, load, asked, past, begun, turns>>

Away == [up |-> FALSE, fleet |-> "none", loading |-> FALSE, error |-> FALSE, latest |-> {}, shown |-> {}]
Idle == [at |-> "idle", page |-> "none", fleet |-> "none", force |-> FALSE, list |-> {}]

Running  == { l \in Loads : load[l].at # "idle" }
IsUp(v)  == page[v].up
Turn     == turns < MaxChanges /\ turns' = turns + 1

-----------------------------------------------------------------------------
(* Mutant: the slot is not asked whose it is. *)
GetAny(fleet) == { m.list : m \in memory }

get(fleet) == { m.list : m \in { k \in memory : k.fleet = fleet } }

(* The write to IndexedDB is taken to succeed; nothing waits for it. *)
set(fleet, list) ==
  /\ memory' = { [fleet |-> fleet, list |-> list] }
  /\ disk' = [disk EXCEPT ![fleet] = {list.fleet}]

(* What is on the disk is deleted only for the fleet that is in memory.    *)
(* A load under way keeps what it has regardless.                          *)
invalidate ==
  /\ memory' = {}
  /\ disk' = [f \in Fleets |-> IF \E m \in memory : m.fleet = f THEN {} ELSE disk[f]]

(* Mutant: the first state heard of is no change. *)
UnknownIsNoChange(fleet, enforced) == noted[fleet] \notin {"none", enforced}

Changes(fleet, enforced) == noted[fleet] # enforced

noteMembershipsEnforced(fleet, enforced) ==
  /\ noted' = [noted EXCEPT ![fleet] = enforced]
  /\ IF Changes(fleet, enforced) THEN invalidate ELSE UNCHANGED <<memory, disk>>

-----------------------------------------------------------------------------
(* loadVehicleData: from memory, and that is all; or from the disk, to     *)
(* paint with, and then from the server.                                   *)
Begin(v, l, fleet, force) ==
  LET here == [(IF IsUp(v) THEN page[v] ELSE Away) EXCEPT !.up = TRUE, !.error = FALSE]
  IN  IF ~force /\ get(fleet) # {}
      THEN /\ page' = [page EXCEPT ![v] = [here EXCEPT !.fleet = fleet, !.loading = FALSE,
                                             !.shown = { list.fleet : list \in get(fleet) }]]
           /\ UNCHANGED <<load, begun>>
      ELSE /\ begun < MaxLoads /\ begun' = begun + 1
           /\ page' = [page EXCEPT ![v] = [here EXCEPT !.fleet = fleet, !.loading = @ \/ ~force]]
           /\ load' = [load EXCEPT ![l] = [Idle EXCEPT !.at = IF force THEN "vehicles" ELSE "disk",
                                             !.page = v, !.fleet = IF force THEN address ELSE fleet, !.force = force]]

Open(v, l) ==
  /\ \A w \in Pages : ~IsUp(w)
  /\ load[l].at = "idle" /\ \A k \in Loads : load[k].page # v
  /\ Begin(v, l, address, FALSE)
  /\ UNCHANGED <<world, address, memory, disk, noted, asked, past, turns>>

refreshVehicles(v, l) ==
  /\ IsUp(v) /\ load[l].at = "idle"
  /\ \A k \in Loads : load[k].page = v => ~load[k].force
  /\ Begin(v, l, page[v].fleet, TRUE)
  /\ UNCHANGED <<world, address, memory, disk, noted, asked, past, turns>>

Leave(v) ==
  /\ IsUp(v)
  /\ page' = [page EXCEPT ![v] = IF \E l \in Loads : load[l].page = v
                                 THEN [Away EXCEPT !.fleet = page[v].fleet, !.latest = page[v].latest] ELSE Away]
  /\ UNCHANGED <<world, address, memory, disk, noted, load, asked, past, begun, turns>>

(* Painting, with what is not too old (PERSIST_MAX_AGE_MS), and then       *)
(* GET /vehicles, for the fleet of the address bar by then.                *)
loadPersisted(l) ==
  LET v == load[l].page
  IN  /\ load[l].at = "disk"
      /\ load' = [load EXCEPT ![l].at = "vehicles", ![l].fleet = address]
      /\ \E kept \in {{}, disk[load[l].fleet]} :
           page' = IF IsUp(v) /\ kept # {} /\ load[l].fleet = page[v].fleet
                   THEN [page EXCEPT ![v] = [@ EXCEPT !.shown = kept, !.loading = FALSE]] ELSE page
      /\ UNCHANGED <<world, address, memory, disk, noted, asked, past, begun, turns>>

Vehicles(fleet) ==
  [fleet |-> fleet, version |-> world[fleet].version, enforced |-> world[fleet].enforced,
   heard |-> noted[fleet] \in {"none", world[fleet].enforced}]

Answer(l) ==
  LET v == load[l].page
      list == Vehicles(load[l].fleet)
  IN  /\ load[l].at = "vehicles"
      /\ page' = [page EXCEPT ![v] = [@ EXCEPT !.shown = IF IsUp(v) THEN {list.fleet} ELSE {}, !.loading = FALSE, !.latest = {l}]]
      /\ load' = [load EXCEPT ![l] = [@ EXCEPT !.at = "positions", !.list = {list}]]
      /\ UNCHANGED <<world, address, memory, disk, noted, asked, past, begun, turns>>

(* A page that is left is gone with its last load. *)
Ended(l, now) ==
  [page EXCEPT ![load[l].page] = IF now.up \/ \E k \in Loads \ {l} : load[k].page = load[l].page THEN now ELSE Away]

AnswerFails(l) ==
  /\ load[l].at = "vehicles"
  /\ page' = Ended(l, [page[load[l].page] EXCEPT !.loading = FALSE, !.error = TRUE])
  /\ load' = [load EXCEPT ![l] = Idle]
  /\ UNCHANGED <<world, address, memory, disk, noted, asked, past, begun, turns>>

(* The positions are there, or not: the list that the page had last is     *)
(* kept (loadGeneration), under the fleet that the page is of now.         *)
Finish(l) ==
  LET v == page[load[l].page]
  IN  /\ load[l].at = "positions"
      /\ IF l \in v.latest
         THEN \E list \in load[l].list : set(v.fleet, list)
         ELSE UNCHANGED <<memory, disk>>
      /\ load' = [load EXCEPT ![l] = Idle]
      /\ page' = Ended(l, [v EXCEPT !.latest = @ \ {l}])
      /\ UNCHANGED <<world, address, noted, asked, past, begun, turns>>

-----------------------------------------------------------------------------
(* willUpdate: another fleet in the address bar; a page that is loading    *)
(* takes it and does not load again.                                       *)
SwitchTenant(fleet, l) ==
  /\ fleet # address /\ Turn /\ address' = fleet
  /\ past' = [past EXCEPT !.crossed = @ \/ Running # {} \/ asked # {}]
  /\ IF \E v \in Pages : IsUp(v)
     THEN LET v == CHOOSE w \in Pages : IsUp(w)
          IN  IF page[v].loading THEN page' = [page EXCEPT ![v].fleet = fleet] /\ UNCHANGED <<load, begun>>
              ELSE load[l].at = "idle" /\ Begin(v, l, fleet, FALSE)
     ELSE UNCHANGED <<page, load, begun>>
  /\ UNCHANGED <<world, memory, disk, noted, asked>>

(* toggleFavorite, of the details page. *)
AddFavorite ==
  /\ asked = {} /\ Turn
  /\ \A v \in Pages : ~IsUp(v)
  /\ world' = [world EXCEPT ![address].version = turns + 1]
  /\ asked' = { [what |-> "favourite", fleet |-> address, version |-> turns + 1] }
  /\ UNCHANGED <<address, memory, disk, noted, page, load, past, begun>>

(* Mutant: the page is changed and the cache is not told. *)
FavoriteShownHere(f) == asked' = {} /\ UNCHANGED <<memory, disk>>

FavoriteIsSet(f) == asked' = {} /\ invalidate

toggleFavorite ==
  \E f \in asked :
    /\ f.what = "favourite" /\ FavoriteIsSet(f)
    /\ past' = [past EXCEPT !.mine[f.fleet] = f.version, !.raced = @ \/ Running # {}]
    /\ UNCHANGED <<world, address, noted, page, load, begun, turns>>

RequestFails ==
  /\ asked # {} /\ asked' = {}
  /\ UNCHANGED <<world, address, memory, disk, noted, page, load, past, begun, turns>>

(* GET /me/access, whose answer is noted for the fleet of the address bar. *)
GetMyAccess ==
  /\ asked = {}
  /\ asked' = { [what |-> "access", enforced |-> world[address].enforced] }
  /\ UNCHANGED <<world, address, memory, disk, noted, page, load, past, begun, turns>>

fetchMyAccess ==
  \E a \in asked :
    /\ a.what = "access" /\ noteMembershipsEnforced(address, a.enforced)
    /\ past' = [past EXCEPT !.raced = @ \/ (Running # {} /\ Changes(address, a.enforced))]
    /\ asked' = {}
    /\ UNCHANGED <<world, address, page, load, begun, turns>>

Reload ==
  /\ Turn /\ memory' = {}
  /\ page' = [v \in Pages |-> Away] /\ load' = [l \in Loads |-> Idle]
  /\ asked' = {}
  /\ past' = [past EXCEPT !.raced = FALSE]
  /\ UNCHANGED <<world, address, disk, noted, begun>>

(* External: the operator turns the enforcement of memberships on or off,  *)
(* of the fleet that is looked at.                                         *)
Flip ==
  /\ Turn
  /\ world' = [world EXCEPT ![address] = [version |-> turns + 1, enforced |-> IF @.enforced = "on" THEN "off" ELSE "on"]]
  /\ UNCHANGED <<address, memory, disk, noted, page, load, asked, past, begun>>

-----------------------------------------------------------------------------
Init ==
  /\ world = [f \in Fleets |-> [version |-> 0, enforced |-> "off"]]
  /\ address \in Fleets /\ memory = {}
  /\ disk = [f \in Fleets |-> {}] /\ noted = [f \in Fleets |-> "none"]
  /\ page = [v \in Pages |-> Away] /\ load = [l \in Loads |-> Idle]
  /\ asked = {}
  /\ past = [mine |-> [f \in Fleets |-> 0], raced |-> FALSE, crossed |-> FALSE]
  /\ begun = 0 /\ turns = 0

Next ==
  \/ \E v \in Pages, l \in Loads : Open(v, l) \/ refreshVehicles(v, l)
  \/ \E v \in Pages : Leave(v)
  \/ \E l \in Loads : loadPersisted(l) \/ Answer(l) \/ AnswerFails(l) \/ Finish(l)
  \/ \E f \in Fleets, l \in Loads : SwitchTenant(f, l)
  \/ AddFavorite \/ toggleFavorite \/ RequestFails \/ GetMyAccess \/ fetchMyAccess
  \/ Reload \/ Flip

Spec == Init /\ [][Next]_cacheVars

-----------------------------------------------------------------------------
(* Types. *)
TypeOK ==
  /\ Cardinality(memory) <= 1 /\ \A f \in Fleets : Cardinality(disk[f]) <= 1
  /\ \A v \in Pages : Cardinality(page[v].shown) <= 1
  /\ Cardinality({ v \in Pages : IsUp(v) }) <= 1 /\ turns \in 0..MaxChanges

(* A fleet's list is kept under its own name, in memory and on the disk,   *)
(* through reloads and switches, and a page that has loaded shows that of  *)
(* its own fleet; unless a fleet was switched under a load, which then     *)
(* keeps what it has for the new one.                                      *)
OwnFleetShows ==
  ~past.crossed =>
    /\ \A m \in memory : m.list.fleet = m.fleet
    /\ \A f \in Fleets : disk[f] \subseteq {f}
    /\ \A v \in Pages : IsUp(v) /\ ~page[v].error /\ (\A l \in Loads : load[l].page # v) =>
         page[v].shown \subseteq {page[v].fleet}

(* A list kept in memory has this browser's own favourites, once they were *)
(* acknowledged, and was not made under another state of enforcement than  *)
(* the last one heard, unless none was heard of that state before it was   *)
(* made; each unless a load was under way that then kept what it had.      *)
KeptIsCurrent ==
  ~past.raced /\ ~past.crossed =>
    \A m \in memory :
      /\ m.list.version >= past.mine[m.fleet]
      /\ m.list.heard /\ noted[m.fleet] # "none" => m.list.enforced = noted[m.fleet]
=============================================================================
