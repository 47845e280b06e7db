# Verification of fleet-lite-app

TLA+ models of the backend and the web app of fleet-lite-app, a multi-tenant fleet
console: a Go API (`src/api`, about 16,600 lines without tests and generated code) over
a Postgres database and several DIMO services, and a Lit/TypeScript front end
(`src/web`). TLC checks the models on small instances and TLAPS proves theorems for
every value of their constants.

    tlc -workers 2 -config charging_pair.cfg MCChargingScan.tla
    tlapm ChargingScanProofs.tla

PROJECT.json lists the runs, the code lines behind every definition (`map`), a mutation
of the code that each property catches (`mutants`), the hazards of the code at their
lines, the findings and the theorems.

## 1. The system

    browser -- Fiber handlers (controllers/) -- services (service/) -- Postgres
     caches    middleware (app/tenant.go)        |   caches in memory
                                                 +-- fleet-tenancy-api    memberships, authz, invitations
                                                 +-- telemetry-api        signals, segments, latest fixes
                                                 +-- identity / fetch / attest / vehicle-triggers

Production runs two replicas of the API (`charts/fleet-lite-app/values-prod.yaml`) and
one database. Each request is a goroutine. There is no in-process lock around the work
of a request; the only mutual exclusion in the database is the advisory lock of the
charging scan. Almost every operation is therefore a sequence of autocommitted
statements and remote calls that interleaves with the same sequence of another request.

| Component | State it keeps | Operations | What is hard | What makes it correct |
| --- | --- | --- | --- | --- |
| Scan-interval arithmetic (`geofence_detection.go`) | rows of a coverage table | `coalesce`, `computeGaps`, `mergeCoverage`, `recordCoverage` | boundaries: touching, nested, equal starts | the same time, in canonical form; gaps are exactly the unscanned time |
| Charging detection (`charging_detection*.go`) | `charging_sessions`, `charging_scan_coverage`, advisory lock | `Sessions`, `settleGap`, `recordGap`, `persistSessions` | concurrent scans, late readings, charges in progress, half-way failures, snapshots older than the lock | every settled charge stored once and final; coverage never ahead of what can change |
| Geofence detection (`geofence_detection.go`) | `geofence_passes`, `geofence_scan_coverage` | `TripGeofences`, `WindowScan` | the same with no transaction and no lock; edits of the polygon | scanned time has its passes, once, for the current polygon |
| Telemetry client (`telemetry_api.go`) | location cache (45 s) | `RechargeSegments`, `GeofenceSamples`, `FleetLocations`, ... | chunks and pages; cached "no permission" | paging loses and repeats nothing |
| Geofence management (`geofence.go`, `controllers/geofences.go`) | geofences, manual assignments, published catalog | create, update, assign, republish | second statement fails; detached republications out of order | published catalog equals the stored one when all is quiet |
| Member write-through (`member_writethrough.go`) | `tenant_users` row and the shared record in fleet-tenancy-api | `GrantMember`, `ChangeMemberScope`, `RemoveMemberEverywhere` | two stores, read-modify-write with no version, another writer (the console) | nobody has access unlisted; no capability is stripped; owners stay unrestricted |
| Tenant store and API (`tenant.go`, `controllers/tenants.go`) | `tenants` with encrypted credentials, tenant cache | create, mirror, update credentials | first-request races, mirrored copies without client id | one row per tenant, with the newest credentials |
| Tenant middleware (`app/tenant.go`, `controllers/capability.go`) | none (locals of one request) | `decideTenancyAccess`, `requireCapability` | answers from caches of different age; fail-closed cases | a refused wallet never passes |
| Tenancy client (`tenancy_api.go`) | authz cache (60 s) | `Authz`, members, invitations, memberships | staleness after our own writes | a write by this replica is seen by its next gate |
| Fleet groups (`fleet_group.go`) | group index cache (TTL), remote groups | list, create, assign, `groupIndex`, invalidate | a fill that started before an invalidation ends after it; the other replica | index is never older than our own last write |
| Vehicle visibility and sync (`vehicle.go`) | `vehicles`, entitlement cache | `SyncVehicles`, prune, visible list | intersection of three caches; pruning with an old list | only entitled vehicles of allowed groups; newly added ones survive |
| DIMO credentials and tokens (`dimo_auth_provider.go`, `mint_retry.go`) | per-tenant auth services, developer JWTs | get/mint tokens, retries | caches survive changed credentials; expiry margins; retry bounds | a token is never served past its expiry |
| Live locations (`controllers/telemetry.go`, `vehicle.go`) | last fix columns | detached `UpsertLastLocations` | older fix written last | a position goes back no further than caches and requests last |
| Invitations (`invitation.go`) | invitations in fleet-tenancy-api | create, resend, revoke, accept | lost answers, double accepts | a token admits one wallet once |
| Vehicle sharing (`sharing.go`, `sharing-service.ts`) | asynchronous jobs | start, poll, revoke | client gives up while the job goes on | a verdict shown is not contradicted by the job |
| Documents and attestations (`attest_service.go`, `fetch_api.go`, `documents.go`) | append-only events and tombstones | attest pair, list, delete | second event fails; bounded listing | a deleted document stays deleted |
| License plate sync, cost of ownership, charging reports | derived from documents and sessions; settings row | sync, compute, fan-out | index lag, order of amendments, vehicles that fail | the row follows the newest registration; costs and glovebox agree on the receipts |
| Browser caches and preferences (`fleet-cache.ts`, `charging-cache.ts`, `prefs-service.ts`) | memory, IndexedDB and localStorage snapshots | get, invalidate, hydrate, push | in-flight fetches, reloads, server overrides | an invalidated snapshot is not served again |
| Maintenance commands | none of their own | sync, prune, re-encrypt | run beside live traffic | nothing newer is overwritten |

Left out for good: views and elements (rendering), the charts and workflows (read for
two facts, the number of replicas and the nightly sync), the GraphQL and SQL texts,
ciphers, metrics and dependency wiring. The `components` of PROJECT.json give the reason
for each part that is left out or only partly modelled.

## 2. Plan

In order of importance, and of what builds on what:

1. `TimeCells`, `ScanIntervals`: the arithmetic under both ledgers. *Done.*
2. `ChargingLedger` (abstract), `ChargingScan`, `RechargePaging`. *Done, proved.*
3. `GeofenceScan`. *Done, proved.*
4. `MemberWriteThrough`. *Done, proved.*
5. Who may see what: `FleetScope` *(done, proved)*; the replies built on it,
   `FleetList`, `GeofenceReads`, `TenantDoors`, `VehicleReads`. *Done, proved.*
6. Rows of vehicles: `VehicleSync` *(done, proved)*, `Locations`. *Done.*
7. Licenses and secrets: `TenantStore` *(done, proved)*, `Minter`, `SecretRotation`.
   *Done.*
8. Documents: `Shelf` (abstract), `DocumentLedger` *(done, proved)*, `Extraction`,
   `FleetReports`. *Done.*
9. The rest: `GeofenceCatalog`, `GeofenceInput`, `GeofenceShapes`, `FleetCache`,
   `Preferences`, `Sharing`, `Invitations`, `Reconciliation`. *Done.*
10. The compositions `FleetAccess`, `TenantWork` and `VehicleData`, and the properties of
    their parts. *Done, proved*, but for what section 5 lists as only model-checked.

## 3. Modules and their code

**TimeCells.** Time is cut into cells; an interval `[from, to)` stands for the cells it
contains, and `Gaps(scanned, w)` for the maximal unscanned stretches of a window.
Instants of the code carry seconds; a cell is the resolution at which two events can be
told apart, so truncation to whole seconds is abstracted.

**ScanIntervals.** `coalesce` and `computeGaps` as the folds the Go loops are, compared
with `Gaps`, on every table `mergeCoverage` and `recordCoverage` can build. The other
modules then use `Gaps` for the two functions together.

**ChargingScan.** One vehicle, because each row, coverage range and lock is keyed by
tenant and vehicle. A scanner is one running request. `Request` reads the coverage and
computes the gaps; then for each gap `ReadClock`, `Fetch` (telemetry-api, by the
detector's contract), `AcquireLock` (begin, advisory lock), `Persist` (the DELETE),
`Commit` (INSERTs, merge of coverage, commit); then `Answer` reads the stored rows and
appends the in-progress ones. `Fail` stops a request anywhere and rolls back an open
transaction. `Tick` and `Arrive` are the environment: readings arrive late, by less than
`Lateness`. `settleGap` is `FinalSessions`, `InProgressSessions` and `SettledCells`;
noise is dropped by `withoutNoise`. The detector is external: the model takes its
contract from the repository's own test double
(`charging_detection_service_test.go:17`), rises closer than `MergeGap` form one
session. Its flag `isOngoing` is not used, as the code does not rely on it. The read
replica is taken to be the primary.

**RechargePaging.** The chunks and pages of `RechargeSegments`, with the cursor at the
end of the last segment. `ChargingScan` fetches a gap in one step;
`PagingFindsEverySegment` is the condition under which that is right. An edge between
two 31-day chunks may cut a charge, as a window edge may.

**ChargingLedger.** The promise: stored sessions and scanned time, changed by one atomic
step per gap, behind the settle margin. `ChargingScan` implements it with the identity
mapping on `stored`, `covered` and `clock`.

**GeofenceScan.** One geofence and one vehicle. Each statement is an action, since
nothing is in a transaction: `Clear` (DELETE), `InsertPass` one row at a time,
`InsertFails` on a key violation (the request logs it and gives up its gap without
recording coverage), `RecordCoverage` of the trip panel, and `MergeRead`, `MergeClear`,
`MergeInsert` of the window scan, which rewrites all rows of the pair. Speeds, odometer
and polygons are abstracted to the set of fixes inside the current shape; `EditGeometry`
changes it while requests hold the old one. Requests that find nothing uncovered only
read and are left out. Histories: `scanned` (time some request stored the passes of),
`torn` (time where a request died between its DELETE and its INSERTs; the code does lose
passes there).

**MemberWriteThrough.** One wallet of one tenant. `local` is the `tenant_users` row,
`shared` the record in fleet-tenancy-api. A grant is `AddMember`, `ReadShared`, `Put`; a
change of scope is `CheckLocal`, `UpdateLocal`, `ReadRole`, `ReadShared`, `Put`; a
revocation is `DeleteShared`, `RemoveMember`. `Console` writes the shared record as
another application does. `LookupFails` is a failed query of the row, which the code
carries on after; `Fail` stops a request at any step. Wallets that only the console
admitted start with no local row (operator-managed tenants). Histories: `given`,
`mixed`, `alone`, `settled`.

**FleetScope.** One wallet in one tenant, seen from one replica. fleet-tenancy-api holds
the truth about four things, the legs: the wallet's authz answer, the vehicles the
tenant is entitled to, its active memberships, its group index (`log`, every value so
far). For a licensed tenant, with DIMO credentials of its own, the rows of the vehicles
table count as the truth about its vehicles, so `RevocationTakesEffect` says nothing of
how far that table lags DIMO; `VehicleSync` does. The replica caches each for `TTL`. A request asks, leg after leg, from the cache
or by a call that takes up to `FetchTime` and may fail, and answers with the
intersection; writes of groups change the index and drop its copy. `Elsewhere` stands
for the other replica and the console, which change the truth and drop nothing here.
Histories: `low`, the oldest value a request may go by, and `owed`, the index a new
request must be served.

**FleetList, GeofenceReads, TenantDoors, VehicleReads** model what is told on top of
that scope; each is one request whose reads are steps between which the world turns.
`FleetList` joins a reply about the fleet from the resolved set, rows, favorites,
roster, groups and owners. `GeofenceReads` has the counts, vehicles, scan targets and
passes of the geofence screens, with `restrictToAccessible`. `TenantDoors` has the
routes without a fleet, where membership is looked up in two stores. `VehicleReads` has
the telemetry panels of one vehicle, with kept vehicle tokens, "no permission" answers
and windows cut to a number of days.

**VehicleSync.** The `vehicles` rows of one tenant under overlapping runs: a sync of a
licensed tenant upserts page by page, a prune deletes row by row, a sync of an
operator-managed tenant deletes, in one statement, all rows that its list leaves out. A
row is `absent`, `bare` or `own` (it carries plate, VIN, last fix or assignments, which
a new row starts without). History: `past`, what a run could see since it began.

**Locations.** Cached fixes and refusals of each replica, the fan-out, the reply, and
the goroutine that writes every position it answered with after the reply; no write
compares timestamps.

**TenantStore.** One tenant: its record in the tenancy service, its row here, the copy
each replica caches. Creation and updates write the remote record first and the row
second; opening a tenant mirrors a missing row, from a lookup that may be old when it
fills the cache (`raced`).

**Minter, SecretRotation.** Developer, vehicle and asset tokens of one tenant with their
margins, retries and kept services, beside a change of license; and the command that
re-encrypts all keys in one transaction beside updates that rewrite whole rows.

**DocumentLedger, Shelf.** One vehicle's cloud events, append-only and numbered; a
document is a raw and a parsed half, a deletion a tombstone naming an earlier event.
`indexed` is what the fetch API already shows; every reader goes by it: `ListDocuments`
(newest `GloveboxLimit`), the cost report (newest `CostLimit`) and the goroutines that
pull plate and VIN back to the row. `Shelf` is what a glovebox promises: what left it
never comes back and what leaves unasked is older than what stays. The refinement
mapping is `shown <- ListDocuments`, `left <- Gone`.

**Extraction, FleetReports.** The three searches in an extractor's answer (upload, plate
sync, cost report) over trees of fields, and the amount a user types, which counts only
if JavaScript's `Number` reads it; the two fleet reports, collected vehicle by
vehicle while settings and fleet change.

**GeofenceCatalog, GeofenceInput, GeofenceShapes.** Creation, edits, assignments and the
detached republication of what is attested; the row's scope and groups under overlapping
partial updates, its groups checked against the replica's cached group index, which
other requests fill and the replica's own writes of groups drop, while the groups change
elsewhere too (histories `there` and `away`: how long ago the tenant had each group, or
had it not); the polygon, its area and the sweep of samples over it.

**Sharing, Invitations, Preferences, FleetCache, Reconciliation.** A share's job and the
page that polls it; one invitation from issue to first access; preferences over several
browsers; the list of vehicles a browser keeps in memory and in IndexedDB; the
comparison commands beside live changes.

**MC modules.** Parts that share no state are checked one at a time: a behaviour chooses
its `subject` at the start and is a behaviour of that part alone, so the run explores
the sum of the parts' state spaces and never their product. `FleetAccess` extends
`FleetScope` and adds the list, the screens, the doors and the reads. `TenantWork`
extends `TenantStore` and adds eleven further parts, `VehicleData` extends
`DocumentLedger` and adds receipts, positions, sync, reports and extraction. All three
are general, so that their properties can be proved as they are checked, and
`MCFleetAccess`, `MCTenantWork` and `MCVehicleData` only give their constants values
(`MCFleetAccess` also fixes what is true at the start: everybody reaches every vehicle).
The places `s1`, `s2`, ... are the variables of whichever part is the subject.

**Proof modules.** `ChargingScanProofs`, `GeofenceScanProofs`,
`MemberWriteThroughProofs`, `FleetAccessProofs`, `TenantStoreProofs`, `TenantWorkProofs`
and `VehicleDataProofs` each extend the module they are about; `TimeCellsProofs` has the
lemmas about gaps and windows that both ledgers use.

## 4. What the runs show

| Run | Instance | Shows |
| --- | --- | --- |
| `charging_pair` | two requests, overlapping windows, one failure | only settled sessions are stored, coverage is final, no charge is split by being read half-way, no key collision, the ledger is implemented |
| `charging_single` | one request, growing windows, one failure, fairness | each scanned rise stored exactly once; the answer shows each known rise once; paging is exact; every settled charge is stored in the end |
| `geofence_pair` | two requests, equal or touching windows, one late fix, one edit, one failure, fairness | coverage is earned; key violations cost no pass; scans complete |
| `members_pair` | two edits, one console write, one failure | capabilities survive, nobody has access unlisted, an edit that ran alone holds in both stores |
| `access` | two requests of one wallet, two changes of the truth; one request for each of the other parts | lost rights take effect within the life of an answer plus a call; this replica's own group writes show at once; a list has every vehicle once; a limited member sees only vehicles within reach; doors open to whom rows and middleware say; a panel says what the readings say |
| `tenant_work` | two overlapping requests of every part | created tenants open and keep their license; tokens are alive; re-encryption is all or nothing and comparisons are right; what is published is current; a share's verdict stands; access follows membership; the latest choice shows; intervals and polygons are exact |
| `vehicle_data` | two goroutines, three registrations; receipts, positions, two syncs, reports, extraction beside them | plate and VIN follow the newest registration; the glovebox is a shelf and agrees with the costs; positions are recent; rows are lost only by runs that saw a revocation; the sync converges |
| `charging_boundary`, `charging_race`, `geofence_edit`, `geofence_race`, `members_owner` | smallest instance that shows it | the findings of section 6 |

**Bounds, and why they are enough.** Two requests are enough for a race between two
sequences of statements: every property speaks of one pair of rows or one record, and a
third request repeats what the second does. Every cap (`MaxClock`, `MaxFailures`,
`MaxConsole`, `MaxEdits`, `MaxTurns`, ...) is a named constant. The theorems of section
5 need none of these bounds small.

- `charging_pair`: the clock runs to 9 with margin 3, merge gap 1 and lateness 1, the
  least margin `MarginAssumption` allows, so charges are scanned while in progress,
  before late readings and after they settle; patterns have a pause within the merge
  gap, a pause beyond it and a blip. `PageSize` 1 makes every page full.
- `geofence_pair`: one window holds two passes, so an insert can fail with a pass still
  to come, and the second geometry leaves a window empty.
- `members_pair`: one console write and one failure fall at every step of both edits.
- `access`: one vehicle and one group, answers that live one tick and calls that last
  one, so an answer can be held, expire and be overtaken by two changes. The list has
  two vehicles and two groups; a scan is capped at one vehicle; the panels ask for one
  trip of two days, trips and behaviour side by side.
- `tenant_work`: one license and two updates (of which one may bring a client id or a
  key alone); two callers' worth of every part; one group, an index kept one tick and
  calls (or statements) of one at most, so that it can be kept, expire and be overtaken by
  changes, which another replica makes like any outsider; three republishing goroutines
  and three edits; three polls; three choices in two browsers; two fleets and two loads of a list.
  Polygons are triangles and four-corner rings with corners at even coordinates of a 5
  by 5 grid, with holes in a square, so samples lie on corners, on edges, inside and
  outside; instants of intervals are 0..6, up to 4 rows.
- `vehicle_data`: three registrations against a plate reply of two, four events against
  a glovebox of two and costs of three, so both limits cut; two overlapping runs over
  two tokens with one change of the truth and one failure; two replicas' positions and
  two fixes; answers with up to two fields on different levels, and a typed amount that is
  a number, one that only the cost report could read, or none.

**What passing instances leave out.** `charging_single` asks for windows with one common
start, because at an edge between two scanned ranges the inclusive DELETE removes a
neighbour's session (`charging_boundary`). `AnswerIsExact` is checked with one request:
while one waits, another can store the session it holds as in progress, and the answer
shows the charge twice until the next load. `NoPassLost` is checked with windows that
are equal or touch; nested ones lose passes when they race (`geofence_race`). In
`members_pair`, `NobodyInUnlisted` leaves out, until a lone grant or removal puts the
record right, what overlapping requests wrote (a PUT whose read came before a revocation
brings the membership back, and nothing in the code stops it), what the console wrote,
and a change of scope of a wallet without a row, which `ChangeMemberScope` makes a
member though nobody lists it (`AdmitsUnlisted`). A grant is not left out: one that wrote
the shared record first would violate it. `LicenseHolds` and `PlateFollows` likewise say themselves which overlaps
the code has no answer to: a partial update, a goroutine that ran beside another or
died.

**Fairness.** A running request goes on to its next step (weak fairness of `Progress`):
a handler has no reason to stop, and a failure is an action of its own. The advisory
lock is granted in turn (strong fairness of `AcquireLock`), as Postgres queues waiters.
Time passes and readings arrive (weak fairness). That the period is asked for again and
again (strong fairness of `Request`, `TripGeofences` and `WindowScan`) is an assumption
on use: detection is on demand and the code promises nothing for a period nobody looks
at. `ScansComplete` holds only while requests do not overlap for ever: a request that
records its window between the DELETE and the INSERTs of another's merge takes the
merged row's key and the rest of that merge is dropped, so two windows can keep undoing
each other. `SyncConverges` assumes that runs go on and that a sync begins again and
again (strong fairness of `Begin(r, "sync")`): the nightly CronJob `sync-vehicles`
(`charts/fleet-lite-app/values.yaml:89`) and the button start it. The prune is started
by hand and has no fairness. The other modules have no liveness property: nothing in the
code retries.

## 5. What is proved

Each theorem holds for every value of the constants that meets the named ASSUMEs of its
module: any number of concurrent requests, runs, goroutines or replicas, any windows,
tokens or licenses, and any bound on events, failures and changes. An assumption of a
theorem of its own is in the last column.

| Theorem | States | Assumes |
| --- | --- | --- |
| `ChargingScanProofs!TypeCorrect` | `[]TypeOK` | |
| `StoredIsSettled` | `[]OnlySettledStored` | |
| `ScannedIsFinal` | `[]CoverageIsFinal` | |
| `KeysNeverCollide` | `[]NoKeyCollision` | |
| `ScanImplementsLedger` | the specification implements `ChargingLedger` | |
| `OnlyWindowsSplit` | `[]NoSplitCharge` | |
| `GeofenceScanProofs!TypeCorrect` | `[]TypeOK` | |
| `CoverageEarned` | `[]CoverageIsEarned` | |
| `PassesKept` | `[]NoPassLost` | `WindowsApart` |
| `MemberWriteThroughProofs!TypeCorrect` | `[]TypeOK` | |
| `EditsKeepCapabilities` | `[]CapabilitiesSurvive` | |
| `NeverMoreAccessThanListed` | `[]NobodyInUnlisted` | |
| `DoneIsDoneInBoth` | `[]EditsReachBothStores` | |
| `FleetAccessProofs!TypesCorrect` | `[]TypesOK` of all five parts | `MaxChanges \in Nat` |
| `RightsStayRecent` | `[]RevocationTakesEffect` | |
| `WritesStayShown` | `[]OwnWritesShow` | |
| `RepliesAreTrue` | `[]RepliesHold` | |
| `TenantStoreProofs!TypeCorrect` | `[]TypeOK` | `MaxWrites \in Nat` |
| `CreatedTenantsOpen` | `CreatedOpens`, an action property | |
| `TheLicenseHolds` | `LicenseHolds`, two invariants and an action property | |
| `VehicleDataProofs!TypeCorrect` | `[]TypeOK` | |
| `PlatesFollow` | `[]PlateFollows` | |
| `GloveboxIsShelf` | the specification implements `Shelf` | |
| `CostsAreListed` | `[]CostsOfListed` | `GloveboxLimit <= CostLimit` |
| `OnlyRevokedAreLost` | `OnlyRevokedLose`, an action property | |
| `RepliesShowRecent` | `[]RepliesAreRecent` | |
| `RowsStayRecent` | `RowsAreRecent`, an action property | |
| `TenantWorkProofs!TokensStayAlive` | `[]TokensAreAlive` | |
| `CommandsDoHold` | `[]CommandsHold` | |
| `PublishedStaysCurrent` | `[]PublishedIsCurrent` | |
| `VerdictsDoStand` | `[]VerdictsStand` | |
| `AccessDoesFollow` | `[]AccessFollowsMembership` | |
| `LatestDoesShow` | `[]LatestChoiceShows` | |

**Charging.** The invariants are not inductive: what a slow request commits depends on
what it fetched and on a clock it read long before. `IInv` adds four facts. `LockHeld`:
a transaction is open exactly for the holder of the lock. `ClockRead`: a clock reading
is in the past. `Fetched`: the segments a request holds lie in its gap, in order and
apart. `DeletedCurrent`: between the DELETE and the INSERTs, the deleted rows are still
all the rows of the gap, which is where the lock is needed. With `Punctual` (no reading
is later than `Lateness`) and `CoverageSettled`, each action preserves `IInv`, and
`CommitAddsSettled` gives what a commit adds. Finality follows from `MarginAssumption`:
a cell behind the margin cannot be reached by a reading still to come. `Margin`, two
hours plus slack in the code, carries the argument. `NoSplitCharge` needs `SInv` beside
it. An *edge* is an instant that divides no charge, but where a window begins or ends.
Coverage changes only at edges (`CoverageEdges`), hence gaps begin and end at edges
(`GapEdges`); a request saw all that was final by its clock (`SawEnough`); and a stored
row begins at an edge, ends with a reading and has no long pause (`RowsWhole`).

**Geofences.** `WindowAccounted`: the window of a request is made up of the time it has
scanned, the gaps it has left and the gap it is in, which is where the lemmas of
`TimeCellsProofs` come in; hence what it records was scanned. No pass is lost because,
with no lock, at every moment a cell that is covered has its pass either in the table or
in the hands of a request that will insert it (`LeftInOrder`, `SamplesComplete`); and if
that request meets a key violation, the row in its way was put there by another request
for the same window that still holds, or has inserted, the passes from there on
(`RestIsHeld`). That needs `WindowsApart`: two windows are the same or do not overlap,
and no pass begins on an edge they share. Trips of a vehicle are disjoint; the second
half is owed to the DELETE, which takes both ends. With nested windows the property is
false, and `geofence_race` shows it.

**Members.** `StageFits` ties what a request has read to where it is. `AccessGoesFirst`
and `LocalAsAsked` are the ordering rule of the code: a revocation at its second step
has emptied the shared record, a grant at its second step has written the row;
`GrantIsListed` says so for every grant, alone or not, as long as no overlap is excused,
so the PUT of a grant needs no excuse of its own.
`AloneIsOnly`, `UnmixedIsSequential` and `SettledIsQuiet` say what "alone" is worth: an
edit so marked has seen no step of anyone else, so what it read is still there.

**Scope.** How old can an answer be? A cached one was true less than `TTL` plus a call
ago (`HeldIsFresh`), a call on its way less than `FetchTime` ago (`CallIsFresh`), and
`low` never passes what is held (`LowIsLow`). `Within` carries, leg after leg, which
allowed answer permits what is left of the list. `ServedInOrder` does the same for the
index: what a reply uses is no older than what was owed when it began, unless a fill a
write overtook came between. `FleetAccessProofs` first proves this of `FleetScope` by itself
(`TypeCorrect`, `RightsAreRecent`, `RepliesFollowWrites`), then of the composition.

**Replies.** `PartsInv` is the invariant of whichever part is the subject, and each says of
every stage of a request that what it holds was so at some time since it began. For the
list (`ListInv`) that is one statement per source, in the order `mergeRosterVehicles` asks
them: the set, the rows, the stars, the metadata, the entries made of them (`SetSeen`,
`RowsSeen`, `StarsSeen`, `MetaSeen`, `EntriesSeen`). That the sorted list has every
vehicle once needs that a finite set of numbers can be listed in order and in one way
only; without induction over data the proof counts, for each element, those before it.
For the geofence screens (`ScreensInv`) it is that the vehicles in hand were within reach
and in the geofence, and which of them the remaining reads can still drop without the
reply saying so. For the doors (`DoorsInv`) a call knows what rows and middleware said
since it began, and a login changes the stamp of a row and nothing else. For one vehicle's
page (`ReadsInv`) each panel holds what permissions, trips and days were since it asked,
which gives the agreement of two panels that asked over the same time.

**Licenses.** `Fits` says what the tenancy service holds at each stage of a request: one
past its creation or its put has its pair among the accepted ones. It also bounds the
age of what was read: a lookup that will fill the cache and that no drop overtook
(`raced`) knows all updates its replica acknowledged, and `Counts` says nobody knows of
more updates than there were. `ToldIsThere`: once a creation was answered, the tenancy
service has the tenant, so a replica without the row can mirror it.

**Documents.** `LInv`: a tombstone voids one earlier event that is no tombstone itself.
A document is then shown exactly when no indexed tombstone voids it and its rank, the
number of newer ones that stand, is below the limit: a tombstone is newer than what it
voids, so it is within the limit whenever its document is. For the same reason no rank
ever falls as the index grows, since what a tombstone takes out of the count it replaces
by itself, and that is why nothing comes back. `PInv` is for the plates: each
registration the index still lacks has a goroutine that will list after it (`Followed`),
what one has read of row and list is what they still say (`RowsRead`, `NewestRead`), and
the row agrees when none is under way (`Settled`). The reports agree because the cost
limit (500, `tco_service.go:446`) is not below the glovebox's (200, `documents.go:282`),
the assumption of `CostsAreListed`.

**Rows.** What a run may still delete is tied to what it could have seen: the tokens
that the cursor of a prune has passed without getting them had a row since it began and
were unshared at some time after that (`PruneMay`); the tokens a managed tenant's list
leaves out were not entitled then, or the tenant's mode changed under it (`SyncMay`).
Tokens are positive (`TokenIdsAssumption`) because the cursor starts at 0, before all of
them.

**Positions.** `LocInv` gives every position that something holds a bound on how long ago
it was replaced: a cached outcome, what is left of `Keep` plus the request that stored
it; a request, its own age, and that of the outcome if it took one; a write on its way,
its own age on top. What time adds to one side it takes from the other, so the bounds
survive ticks; the sum of the last is what `RowMove` allows.

**Tokens and keys.** `EndsInTime`: a cached token leaves the cache the margin before its
life ends, unless it came with less. `RunKnows` ties a re-encryption to what it read:
rows that no update overlapped are still so, and what is in its transaction is what it
read, under the new passphrase.

**Catalog.** What the tables say reaches what is attested because it is always on its
way: `CatalogComes` and `VehicleComes` say that it is attested with nothing under way
that would change it, or a goroutine sends it, or has yet to load, or an edit will start
one (`FenceInv`). This holds as long as no two edits of one geofence overlap
(`EditsAreAlone`), which is the exception the property names. For a geofence's row
(`InputsInv`), what a request goes by has an age: at most a call's when an index is
fetched, with the time it was kept when it is found (`KeptIsRecent`), and another call's
when the row is written (`Timely`); time adds to an age what it takes from an entry.

**Dialogs, invitations, browsers.** `LoneJobsStand`: a job that was alone when queued
finds no other open until the next is queued, so what it did stands. `RefusalsAreRecent`
and `RightsWereRecent` bound the age of an answer as `FleetScope`'s proof does, once for
a "no" to a guest and once for a "yes" to an inviter. `NoneIsLost`: with one request at a
time, what it carries has every latest choice. `ListInv` of `TenantWorkProofs` is about the
lists browsers keep: page and loads are of the fleet in the address bar unless a load
crossed a switch, and a kept list has what was acknowledged unless a load raced it.

**Comparisons.** `Passed`: every tenant the command went past without a finding is held
to what its success promises, of all that stayed steady. `Stage` says what it has read
of the tenant it is at: that is so still, or was compared.

**What the proofs changed.** Five attempts failed for a reason. `NoSplitCharge` was too
strong: two requests with different windows can store rows that overlap, if an edge of
one window lies in a pause of a charge within the merge gap; the property now says that
a window edge is the only cause. `LicenseHolds` had missed that an update of the key
alone that read the row before it had a client id writes the row back whole, without the
one written meanwhile (`tenant.go:319-340`); `MaxWrites` is 2 for it. `DoorsHold` said
that a tenant is listed for a caller who had, at each moment, a row or a membership:
`TenantDoors` reads the two one after the other, so a caller who changes from one to the
other in between can be missed by both; it now asks that one of the two stood
throughout. The model of `invalidateGroupIndex` in `FleetScope` had every write read its
own index back, where only a rename answers with it: `owes` is now raised for renames
only. `DocumentLedger` states its assumptions on `Papers` and limits by name. Rewritten
so that they can be reasoned about, with the same behaviours: `FleetList` starts the
record of what was so afresh with each request and lists a set in order by its own
`InOrder`; `GeofenceReads` counts its reads with an index instead of shrinking a list;
`TenantDoors` takes a union by its elements.

The proofs also named what the instances had met without saying: keys are counted, no
operator is called "none", token ids are numbers and finitely many, times are ticks, a
page of segments holds at least one (the ASSUMEs of `FleetAccess`, `TenantWork` and
`VehicleData`).

**Only model-checked.** `ExactlyOneCopy` and `AnswerIsExact` are false in general
(`charging_boundary`, `charging_race` and the paragraph above on what passing instances
leave out), and hold for the instances of `charging_single`. `PagingFindsEverySegment`
and `ArithmeticIsExact` (the folds of `ScanIntervals`, the rings of `GeofenceShapes`) are
about recursive functions of data, whose induction is out of the provers' reach; so are
two parts of `ReportsAddUp`, the totals of `FleetReports` and the searches of
`Extraction`. Its third, and `GloveboxIsAShelf`, are `CostsAreListed` and
`GloveboxIsShelf`, which are proved of `DocumentLedger` by itself.
`SettledChargesGetStored`, `ScansComplete` and `SyncConverges` need fairness and
ENABLED. The `TypesOK` of `TenantWork` and `VehicleData` are checked as a whole; each
proof about a part has the types it needs in its invariant.

## 6. Findings

- `charging_boundary`: `persistSessions` deletes sessions starting in `[from, to]` with
  the end included; a session of already scanned time that starts at `to` is removed
  and, its time being covered, never fetched again.
- `charging_race`: gaps and clock are read before the advisory lock is waited for. A
  slower request deletes what a faster one stored as final and stores only what was
  final by its own older clock; coverage stays.
- `geofence_edit`: a polygon changes under the same id while passes and coverage of the
  old shape stay, against "geofence geometry is fixed per id".
- `geofence_race`: without a transaction, a key violation between two requests leaves
  scanned time without its pass.
- `members_owner`: `UpdateMemberAccess` wraps any failed read as "membership not found",
  so a failed query skips the rule that owners cannot be limited.

Seen while modelling, with no run (the properties above leave these cases out by name,
or the modules do not reach them):

*Members and doors.* A change of scope for a wallet with no record at all creates a
membership that nothing local lists (named in `NobodyInUnlisted`); a half-failed narrowing leaves more access than asked for, against the rule
of `member_writethrough.go:27`; an owner cannot be demoted, as the merge keeps the
higher label. A member removed only in the console keeps the local row and the
`requireMember` routes, though `app/tenant.go` (16-31) says `tenant_users` no longer
decides access; `requireMember` answers a failed mirror with 403 where
`NewTenantMiddleware` answers 500. Overlapping login touches can write an older e-mail
back.

*Scans.* An upsert of `recordCoverage` shrinks a longer row with the same start; a
geofence fix that arrives after its window was scanned is never seen; two overlapping
charging requests can store rows that overlap (the second disjunct of `NoSplitCharge`).

*Scope and lists.* The legs of a list differ in age by up to a cache lifetime, where
comments of `vehicle.go` (250-263) speak of one freshness. A fill begun before an own
write puts the old index back (`fleet_group.go:88`). A failed entitlement read of
`GetVehicle` is answered 404 where its comment says 503. A vehicle whose metadata is
pending cannot be added to a group. `AnnotateCanShare` returns without a blocker when no
vehicle has an owner. The scan targets of the geofence screens are capped before a
limited member's restriction, so the member's total counts what is left of the first
ones. `AccessibleTokenIDs` ignores entitlements.

*Vehicles.* `sync_vehicles.go` says "Additive only - never deletes", which holds for
licensed tenants only; a change of the tenant's mode under a run can empty a fleet, and
an older entitlement list deletes rows a newer sync added. Favorites do not cascade
(`vehicle.go:570-572`). A detached write stores cached fixes again. The day activity
agrees with the trips only over equal windows below the 60-segment limit; `RoutePoints`
drops (0,0) and `TripReplay` keeps it; some wordings of a refused permission are not
recognised as one.

*Licenses.* The tenant cache lives a day (`tenant.go:59`). A lost answer to a creation
makes the retry a 409. Overlapping updates write whole rows (`tenant.go:319-340`); an
update of the client id or key alone does not reach the tenancy service, and a put whose
local half fails leaves it ahead. The service that mints tokens is kept per tenant id
when the license changes (`dimo_auth_provider.go:310-342`), and attestations of
operator-managed tenants are signed with an empty key.

*Documents and reports.* `SyncVINOnly` has no caller and no job calls `SyncVehicle`,
though comments and `docs/VIN_SYNC_PLAN.md:53` say so. Of several amendments the oldest
that is listed wins. An upload's raw half stays when its parsed half fails. A failed
fetch is read as an empty list (`fetch_api.go:221`). The sync reads only `vin` where the
upload accepts `VIN` and `Vin`; amounts are searched at the top level only. An amount
typed as "$9" or "1,234.56" is dropped without a word (`upload-document-modal.ts`
315-316), although the cost report would read such a text, so the document can be listed
among those that miss an amount (named in `TypedCounts`). Cost totals
add different currencies; `TotalTCO` ignores depreciation which the export subtracts; a
vehicle whose read fails is left out of a report that is answered 200.

*Geofences.* The primary key is `slug(name)` for all tenants, where the migration
(`20260624230000_geofences.sql:9`) and `geofence.go` (33, 215) say names are unique per
tenant. Overlapping edits can leave assignments or attestations behind, and a row of
scope `group` without groups, against `ErrGroupScopeNeedsGroups`; for up to the life of
a cached index, a row may be given a group that is gone, and a new group is refused as
unknown (`geofence.go:510`; the bound is in `ScopeHasItsGroups`); the cascade of a
pruned vehicle republishes nothing. `polygonAreaM2` subtracts signed areas, so a hole
wound the other way is added, against "outer ring minus holes" (`geofence.go:520-522`).

*Browser and people.* In `fleet-cache.ts`, `noteMembershipsEnforced` drops nothing from
IndexedDB after a reload, a load under way at an invalidation puts the old list back,
and a switch of fleet under a load keeps one fleet's list under the other's key. A
browser that has not hydrated PUTs all its preferences and drops other keys. A lost 202
starts a second share; a lost answer to an acceptance is followed by 410, and a kept
"not a member" keeps a new member out for its lifetime.

*Comparisons.* `compareAccess` counts `delegation` as access though it opens no session;
`tenancy-diff -tenant-id` of a tenant without credentials succeeds with nothing checked;
one failed call ends the whole comparison.
