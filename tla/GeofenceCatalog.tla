-------------------------- MODULE GeofenceCatalog --------------------------
(***************************************************************************)
(* The geofences of the tenants, the vehicles assigned to manual ones, and *)
(* what is published about both from detached goroutines (geofence.go,     *)
(* controllers/geofences.go).                                              *)
(*                                                                         *)
(* A geofence is created under the slug of its name, which is the primary  *)
(* key of the whole table, and keeps that id when it is renamed.  A name   *)
(* is its slug and a way of writing it.                                    *)
(***************************************************************************)
EXTENDS Naturals, FiniteSets

CONSTANTS
  Operators,    \* tenants
  Slugs,        \* slugs that names can have
  Names,        \* names in use: [slug, style]
  Cars,         \* vehicles of every tenant
  Edits,        \* requests that can overlap
  Publishers,   \* goroutines that can be under way
  MaxEdits      \* bound: requests made

VARIABLES
  fences,     \* per id, the geofence
  assigned,   \* the assignments: id and vehicle
  edit,       \* the requests
  publisher,  \* the goroutines
  published,  \* per tenant, its catalog; per vehicle, its geofences, as attested
  astray,     \* history: goroutines gave up or overlapped
  refusal,    \* why the last request was refused, and whether that is so
  edits

catalogVars == <<fences, assigned, edit, publisher, published, astray, refusal, edits>>

Scopes  == {"all", "group", "manual"}
NoFence == [of |-> "none"]
NoEdit  == [at |-> "idle"]
NoJob   == [at |-> "idle"]

(* Case, spaces and punctuation do not make a slug. *)
slug(name) == name.slug

Owned(o) == { id \in Slugs : fences[id].of = o }
Named(o, name) == { id \in Owned(o) : fences[id].name = name }

(* What TenantGeofenceDefs and VehicleManualGeofenceIDs read. *)
toGeofenceDef(fence) == [name |-> fence.name, scope |-> fence.scope, shape |-> fence.shape]

TenantGeofenceDefs(o) == [id \in Owned(o) |-> toGeofenceDef(fences[id])]
VehicleManualGeofenceIDs(o, v) == { id \in Slugs : <<o, id, v>> \in assigned }

AssignedTo(o, id) == { v \in Cars : <<o, id, v>> \in assigned }

(* The tenant's row of that key, or 404. *)
IsFence(o, id) == id \in Owned(o)

Finish(e) == edit' = [edit EXCEPT ![e] = NoEdit]
Elsewhere == UNCHANGED <<publisher, published, astray>>

-----------------------------------------------------------------------------
(* Goroutines for the catalog and for the vehicles named. *)
Launch(jobs) ==
  LET free == { p \in Publishers : publisher[p].at = "idle" }
  IN  \E f \in [jobs -> free] :
        /\ \A i, j \in jobs : f[i] = f[j] => i = j
        /\ publisher' = [p \in Publishers |->
             IF \E j \in jobs : f[j] = p THEN CHOOSE j \in jobs : f[j] = p ELSE publisher[p]]

(* Mutant: the catalog is read before the goroutine starts, and the change. *)
CatalogAsItWas(o) ==
  [at |-> "send", of |-> o, what |-> "catalog", cars |-> {}, read |-> TenantGeofenceDefs(o)]

CatalogJob(o) ==
  [at |-> "load", of |-> o, what |-> "catalog", cars |-> {}, read |-> NoFence]

VehiclesJob(o, V) ==
  [at |-> "load", of |-> o, what |-> "vehicles", cars |-> V, read |-> NoFence]

republish(o, V) ==
  Launch({ CatalogJob(o) } \union (IF V = {} THEN {} ELSE { VehiclesJob(o, V) }))

-----------------------------------------------------------------------------
(* The rows: an INSERT is refused on the key or on tenant and name. *)
Clash(o, name) == fences[slug(name)] # NoFence \/ Named(o, name) # {}

InsertFence(o, name, scope) ==
  fences' = [fences EXCEPT ![slug(name)] = [of |-> o, name |-> name, scope |-> scope, shape |-> 1]]

(* An UPDATE by key alone writes the columns of the patch, if there is a row. *)
Patched(row, patch) == [f \in DOMAIN row |-> IF f \in DOMAIN patch THEN patch[f] ELSE row[f]]

UpdateFence(id, patch) ==
  fences' = [fences EXCEPT ![id] = IF @ = NoFence THEN @ ELSE Patched(@, patch)]

(* A DELETE by key alone, and by foreign key the assignments. *)
DeleteFence(id) == /\ fences' = [fences EXCEPT ![id] = NoFence]
                   /\ assigned' = { a \in assigned : a[2] # id }

(* An assignment that exists is no error. *)
InsertAssignment(o, id, v) == assigned' = assigned \union {<<o, id, v>>}

DeleteAssignments(o, id, V) == assigned' = assigned \ ({o} \X {id} \X V)

-----------------------------------------------------------------------------
CreateGeofence(o, name, scope) ==
  LET clash == Clash(o, name)
  IN  /\ edits < MaxEdits
      /\ edits' = edits + 1
      /\ refusal' = [is |-> clash, taken |-> Named(o, name) # {}]
      /\ IF clash
         THEN UNCHANGED <<fences, publisher>>
         ELSE /\ InsertFence(o, name, scope)
              /\ republish(o, {})
      /\ UNCHANGED <<assigned, edit, published, astray>>

(* The others read the row first: 404 unless it is the tenant's. *)
GetGeofence(e, req) ==
  /\ edit[e].at = "idle" /\ edits < MaxEdits
  /\ IsFence(req.of, req.id)
  /\ edit' = [edit EXCEPT ![e] = [at |-> req.op, req |-> req, row |-> fences[req.id]]]
  /\ edits' = edits + 1
  /\ astray' = (astray \/ \E f \in Edits : edit[f].at # "idle" /\ edit[f].req.id = req.id)
  /\ UNCHANGED <<fences, assigned, publisher, published, refusal>>

(* A row deleted since it was read is no error, and one made anew under its *)
(* key is written to.                                                      *)
UpdateGeofence(e) ==
  LET req == edit[e].req
      row == Patched(fences[req.id], req.patch)
  IN  /\ edit[e].at = "update"
      /\ IF fences[req.id] # NoFence /\ Named(row.of, row.name) \ {req.id} # {}
         THEN /\ refusal' = [is |-> TRUE, taken |-> TRUE]
              /\ Finish(e)
              /\ UNCHANGED fences
         ELSE /\ UpdateFence(req.id, req.patch)
              /\ edit' = [edit EXCEPT ![e].at = "members", ![e].row = Patched(@, req.patch)]
              /\ UNCHANGED refusal
      /\ UNCHANGED <<assigned, edits>> /\ Elsewhere

(* No longer manual: its assignments go, and their vehicles are told. *)
DropAssignments(e) ==
  LET req     == edit[e].req
      dropped == IF edit[e].row.scope = "manual" THEN {}
                 ELSE AssignedTo(req.of, req.id)
  IN  /\ edit[e].at = "members"
      /\ DeleteAssignments(req.of, req.id, dropped)
      /\ Finish(e)
      /\ republish(req.of, dropped)
      /\ UNCHANGED <<fences, published, astray, refusal, edits>>

(* The members of a manual one are read, then the row goes. *)
ReadMembers(e) ==
  LET req == edit[e].req
  IN  /\ edit[e].at = "delete"
      /\ edit' = [edit EXCEPT ![e] = [at |-> "row", req |-> req, row |-> edit[e].row, members |->
           IF edit[e].row.scope # "manual" THEN {}
           ELSE AssignedTo(req.of, req.id)]]
      /\ UNCHANGED <<fences, assigned, refusal, edits>> /\ Elsewhere

DeleteGeofence(e) ==
  LET req == edit[e].req
  IN  /\ edit[e].at = "row"
      /\ DeleteFence(req.id)
      /\ Finish(e)
      /\ republish(req.of, edit[e].members)
      /\ UNCHANGED <<published, astray, refusal, edits>>

(* The row was manual when it was read; the INSERT needs a row. *)
AddVehicle(e) ==
  LET req == edit[e].req
  IN  /\ edit[e].at = "add"
      /\ IF edit[e].row.scope # "manual" \/ fences[req.id] = NoFence
         THEN UNCHANGED <<assigned, publisher>>
         ELSE /\ InsertAssignment(req.of, req.id, req.car)
              /\ Launch({ VehiclesJob(req.of, {req.car}) })
      /\ Finish(e)
      /\ UNCHANGED <<fences, published, astray, refusal, edits>>

RemoveVehicle(e) ==
  LET req == edit[e].req
  IN  /\ edit[e].at = "remove"
      /\ DeleteAssignments(req.of, req.id, {req.car})
      /\ Launch({ VehiclesJob(req.of, {req.car}) })
      /\ Finish(e)
      /\ UNCHANGED <<fences, published, astray, refusal, edits>>

-----------------------------------------------------------------------------
(* A goroutine loads the catalog, or one vehicle's geofences, and attests  *)
(* it with retries; a query that fails skips the vehicle, or ends it.      *)
Collides(p) == \E q \in Publishers \ {p} :
  publisher[q].at = "send" /\ publisher[q].of = publisher[p].of
    /\ publisher[q].what = publisher[p].what

Load(p) ==
  LET job == publisher[p]
  IN  /\ job.at = "load"
      /\ \/ publisher' = [publisher EXCEPT ![p].at = "send", ![p].read =
              IF job.what = "catalog" THEN TenantGeofenceDefs(job.of)
              ELSE [v \in job.cars |-> VehicleManualGeofenceIDs(job.of, v)]]
            /\ UNCHANGED astray
         \/ publisher' = [publisher EXCEPT ![p] = NoJob] /\ astray' = TRUE
      /\ UNCHANGED <<fences, assigned, edit, published, refusal, edits>>

(* What arrives last is what readers take. *)
AttestTenantGeofences(o, defs) == [published EXCEPT !.catalog[o] = defs]

AttestVehicleGeofences(o, cars, ids) ==
  [published EXCEPT !.member[o] = [v \in Cars |-> IF v \in cars THEN ids[v] ELSE @[v]]]

attestWithRetry(p) ==
  LET job == publisher[p]
  IN  /\ job.at = "send"
      /\ published' = IF job.what = "catalog"
                      THEN AttestTenantGeofences(job.of, job.read)
                      ELSE AttestVehicleGeofences(job.of, job.cars, job.read)
      /\ publisher' = [publisher EXCEPT ![p] = NoJob]
      /\ astray' = (astray \/ Collides(p))
      /\ UNCHANGED <<fences, assigned, edit, refusal, edits>>

(* Three failures, or the process is restarted. *)
GiveUp(p) ==
  /\ publisher[p].at = "send"
  /\ publisher' = [publisher EXCEPT ![p] = NoJob]
  /\ astray' = TRUE
  /\ UNCHANGED <<fences, assigned, edit, published, refusal, edits>>

-----------------------------------------------------------------------------
Init ==
  /\ fences = [id \in Slugs |-> NoFence]
  /\ assigned = {}
  /\ edit = [e \in Edits |-> NoEdit]
  /\ publisher = [p \in Publishers |-> NoJob]
  /\ published = [catalog |-> [o \in Operators |-> [id \in {} |-> NoFence]],
                  member  |-> [o \in Operators |-> [v \in Cars |-> {}]]]
  /\ astray = FALSE
  /\ refusal = [is |-> FALSE, taken |-> FALSE]
  /\ edits = 0

Patches == [{"name"} -> Names] \union [{"scope"} -> Scopes] \union [{"shape"} -> {2}]

Ask(e, o, id) ==
  \/ \E patch \in Patches : GetGeofence(e, [op |-> "update", of |-> o, id |-> id, patch |-> patch])
  \/ GetGeofence(e, [op |-> "delete", of |-> o, id |-> id])
  \/ \E op \in {"add", "remove"}, car \in Cars :
       GetGeofence(e, [op |-> op, of |-> o, id |-> id, car |-> car])

Next ==
  \/ \E o \in Operators, name \in Names, scope \in Scopes : CreateGeofence(o, name, scope)
  \/ \E e \in Edits :
       \/ \E o \in Operators, id \in Slugs : Ask(e, o, id)
       \/ UpdateGeofence(e) \/ DropAssignments(e)
       \/ ReadMembers(e) \/ DeleteGeofence(e)
       \/ AddVehicle(e) \/ RemoveVehicle(e)
  \/ \E p \in Publishers : Load(p) \/ attestWithRetry(p) \/ GiveUp(p)

Spec == Init /\ [][Next]_catalogVars

-----------------------------------------------------------------------------
TypeOK ==
  /\ assigned \subseteq Operators \X Slugs \X Cars
  /\ \A id \in Slugs : fences[id] # NoFence => fences[id].of \in Operators /\ fences[id].scope \in Scopes
  /\ \A o \in Operators, v \in Cars : published.member[o][v] \subseteq Slugs

(* What is attested catches up with the tables: once the goroutines are    *)
(* done, and none gave up and neither they nor two edits of one geofence   *)
(* overlapped, the catalog attested last is the tenant's, and every        *)
(* vehicle's attested geofences are those it is assigned to, also after a  *)
(* geofence that had assignments was deleted, stopped being manual or came *)
(* back under the same id (republishCatalog, republishVehicles).           *)
PublishedIsCurrent ==
  ~astray /\ (\A e \in Edits : edit[e].at = "idle") /\ (\A p \in Publishers : publisher[p].at = "idle")
    => \A o \in Operators :
         /\ published.catalog[o] = TenantGeofenceDefs(o)
         /\ \A v \in Cars : published.member[o][v] = VehicleManualGeofenceIDs(o, v)

(* A name is refused only to a tenant that has a geofence of that name. *)
NamesArePerTenant == refusal.is => refusal.taken
=============================================================================
