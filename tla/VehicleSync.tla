---------------------------- MODULE VehicleSync ----------------------------
(***************************************************************************)
(* The rows of the vehicles table of one tenant, kept in step with the     *)
(* identity API and with fleet-tenancy-api by concurrent runs (vehicle.go, *)
(* sync_vehicles.go, prune_unshared_vehicles.go).                          *)
(*                                                                         *)
(* A tenant with its own license upserts what the license is privileged    *)
(* on, page by page; rows only go by the prune command, one by one.  An    *)
(* operator-managed tenant upserts its entitled slice of the operator's    *)
(* privileged set and deletes, in one statement, every other row.  A row   *)
(* carries what only this application knows (plate, VIN, last fix and, by  *)
(* foreign key, the manual geofence assignments).                          *)
(***************************************************************************)
EXTENDS Naturals, FiniteSets

CONSTANTS
  Runs,             \* runs of a command or of the button that can overlap
  Tokens,           \* token ids, in the order the identity API pages them
  MaxTruthChanges,  \* bound: grants, revocations and changes of mode
  MaxSyncFailures   \* bound: runs that stop half-way, deletes that fail

VARIABLES
  managed,   \* the tenant has no DIMO client id
  granted,   \* the truth: privileged tokens, entitled tokens, explicit mode
  row,       \* per token: "absent", "bare", or "own" with local columns
  run,       \* per run: its step, what it read, the tokens still to do
  past,      \* history: per run, what was true at some time since it began
  turns, failures

syncVars == <<managed, granted, row, run, past, turns, failures>>

Present == { v \in Tokens : row[v] # "absent" }
IdleRun == [at |-> "idle", kind |-> "none", list |-> {}, got |-> {}, cursor |-> 0, todo |-> {}]

(* What the tenant should have: revoked tokens are in the complement. *)
Wanted(g) == IF managed THEN (IF g.explicit THEN g.entitled ELSE Tokens) ELSE g.shared

Least(set) == CHOOSE v \in set : \A w \in set : v <= w

NoPast == [seen |-> {}, gone |-> {}, out |-> {}, flipped |-> FALSE]

(* Of each run: tokens that had a row, were unwanted after that, were      *)
(* unwanted at all, and whether the mode changed.                          *)
Witness(active) ==
  past' = [r \in Runs |->
    LET seen == past[r].seen \union { v \in Tokens : row'[v] # "absent" }
        out  == Tokens \ Wanted(granted')
    IN  IF r \notin active THEN NoPast
        ELSE [seen    |-> seen,
              gone    |-> past[r].gone \union (seen \intersect out),
              out     |-> past[r].out \union out,
              flipped |-> past[r].flipped \/ granted'.explicit # granted.explicit]]

Running == { r \in Runs : run'[r].at # "idle" }

Stay == UNCHANGED <<managed, granted, turns>>

-----------------------------------------------------------------------------
Begin(r, kind) ==
  /\ run[r].at = "idle"
  /\ kind = "prune" => ~managed
  /\ run' = [run EXCEPT ![r] = [IdleRun EXCEPT !.kind = kind,
               !.at = IF kind = "prune" THEN "rows" ELSE IF managed THEN "detail" ELSE "page"]]
  /\ UNCHANGED <<row, failures>> /\ Stay

(* Mutant: the list of an implicit tenant is taken at its word. *)
AnyMode(r) == TRUE

(* An empty list of an implicit tenant means "ask the license". *)
Explicit(r) == granted.explicit

(* TenantDetail: an implicit tenant without credentials cannot be synced. *)
ReadDetail(r) ==
  /\ run[r].at = "detail"
  /\ run' = [run EXCEPT ![r] = IF Explicit(r) THEN [@ EXCEPT !.at = "entitlements"] ELSE IdleRun]
  /\ UNCHANGED <<row, failures>> /\ Stay

(* Mutant: nothing entitled, nothing to do. *)
NextIfNone == "idle"

(* With nothing entitled there is nothing to upsert, and everything to delete. *)
AfterNone == "delete"

Entitlements(r) ==
  LET list == IF granted.explicit THEN granted.entitled ELSE {}
  IN  /\ run[r].at = "entitlements"
      /\ run' = [run EXCEPT ![r] = [@ EXCEPT !.list = list,
                   !.at = IF list = {} THEN AfterNone ELSE "page"]]
      /\ UNCHANGED <<row, failures>> /\ Stay

(* Mutant: the rows are read after the shares, when they are compared. *)
RowsNow(r) == Present

(* The rows the prune command read before it asked for the shares. *)
RowsRead(r) == run[r].list

ReadLocal(r) ==
  /\ run[r].at = "rows"
  /\ run' = [run EXCEPT ![r] = [@ EXCEPT !.list = Present, !.at = "page"]]
  /\ UNCHANGED <<row, failures>> /\ Stay

(* What a run does with the complete list of shares. *)
Todo(r, got) ==
  IF run[r].kind = "prune" THEN RowsRead(r) \ got
  ELSE IF managed THEN got \intersect run[r].list ELSE got

(* fetchPrivilegedVehiclesPage: one token a page, from the cursor on. *)
FetchPage(r) ==
  LET beyond == { v \in granted.shared : v > run[r].cursor }
      page   == IF beyond = {} THEN {} ELSE {Least(beyond)}
      got    == run[r].got \union page
      more   == beyond \ page # {}
  IN  /\ run[r].at = "page"
      /\ run' = [run EXCEPT ![r] = IF more THEN [@ EXCEPT !.got = got, !.cursor = Least(beyond)]
                   ELSE [@ EXCEPT !.got = got, !.at = "work", !.todo = Todo(r, got)]]
      /\ UNCHANGED <<row, failures>> /\ Stay

(* Where a run goes when it has no token left. *)
AfterWork(r) == IF run[r].kind = "sync" /\ managed THEN [run[r] EXCEPT !.at = "delete"] ELSE IdleRun

NoneLeft(r) ==
  /\ run[r].at = "work" /\ run[r].todo = {}
  /\ run' = [run EXCEPT ![r] = AfterWork(r)]
  /\ UNCHANGED <<row, failures>> /\ Stay

(* Mutant: the upsert writes every column. *)
UpsertAll(v) == [row EXCEPT ![v] = "bare"]

(* ON CONFLICT DO UPDATE SET of the whitelisted columns alone: what is     *)
(* local in a row that exists is kept.                                     *)
OnConflict(old, new) == IF old = "absent" THEN new ELSE old

Upsert(v) == [row EXCEPT ![v] = OnConflict(@, "bare")]

upsertIdentityVehicle(r) ==
  /\ run[r].at = "work" /\ run[r].kind = "sync" /\ run[r].todo # {}
  /\ row' = Upsert(Least(run[r].todo))
  /\ run' = [run EXCEPT ![r].todo = @ \ {Least(@)}]
  /\ UNCHANGED failures /\ Stay

(* DELETE by primary key. *)
DeleteRow(v) == [row EXCEPT ![v] = "absent"]

(* A failure is logged and the next one tried. *)
DeleteOne(r) ==
  /\ run[r].at = "work" /\ run[r].kind = "prune" /\ run[r].todo # {}
  /\ \/ /\ row' = DeleteRow(Least(run[r].todo))
        /\ UNCHANGED failures
     \/ /\ failures < MaxSyncFailures /\ failures' = failures + 1
        /\ UNCHANGED row
  /\ run' = [run EXCEPT ![r].todo = @ \ {Least(@)}]
  /\ Stay

(* NOT (token_id = ANY(entitled)), in one statement. *)
DeleteAll(list) == [v \in Tokens |-> IF v \in list THEN row[v] ELSE "absent"]

PruneRevoked(r) ==
  /\ run[r].at = "delete"
  /\ row' = DeleteAll(run[r].list)
  /\ run' = [run EXCEPT ![r] = IdleRun]
  /\ UNCHANGED failures /\ Stay

(* A call or a statement fails, or the process dies: what is done is done. *)
RunFails(r) ==
  /\ run[r].at # "idle" /\ failures < MaxSyncFailures
  /\ failures' = failures + 1
  /\ run' = [run EXCEPT ![r] = IdleRun]
  /\ UNCHANGED row /\ Stay

-----------------------------------------------------------------------------
Toggle(set, v) == IF v \in set THEN set \ {v} ELSE set \union {v}

(* Shares on chain, entitlements and the mode in the tenancy service. *)
TruthChanges ==
  /\ turns < MaxTruthChanges /\ turns' = turns + 1
  /\ \/ \E v \in Tokens : granted' = [granted EXCEPT !.shared = Toggle(@, v)]
     \/ \E v \in Tokens : managed /\ granted' = [granted EXCEPT !.entitled = Toggle(@, v)]
     \/ managed /\ granted' = [granted EXCEPT !.explicit = ~@]
  /\ UNCHANGED <<managed, row, run, failures>>

(* A fix, a plate or an assignment is stored: UPDATEs find no absent row. *)
Own(v) ==
  /\ row[v] = "bare"
  /\ row' = [row EXCEPT ![v] = "own"]
  /\ UNCHANGED <<run, failures>> /\ Stay

Init ==
  /\ managed \in BOOLEAN
  /\ granted \in [shared : SUBSET Tokens, entitled : IF managed THEN SUBSET Tokens ELSE {{}},
                  explicit : IF managed THEN BOOLEAN ELSE {FALSE}]
  /\ row = [v \in Tokens |-> "absent"]
  /\ run = [r \in Runs |-> IdleRun]
  /\ past = [r \in Runs |-> NoPast]
  /\ turns = 0 /\ failures = 0

RunSteps(r) ==
  \/ ReadDetail(r) \/ Entitlements(r) \/ ReadLocal(r) \/ FetchPage(r)
  \/ upsertIdentityVehicle(r) \/ DeleteOne(r) \/ NoneLeft(r) \/ PruneRevoked(r)

Act ==
  \/ \E r \in Runs : RunSteps(r) \/ RunFails(r) \/ (\E kind \in {"sync", "prune"} : Begin(r, kind))
  \/ TruthChanges
  \/ \E v \in Tokens : Own(v)

Next == Act /\ Witness(Running)

(* A run goes on; the nightly job and the button start another. *)
Fairness == \A r \in Runs : WF_syncVars(RunSteps(r) /\ Witness(Running))
                         /\ SF_syncVars(Begin(r, "sync") /\ Witness(Running))

Spec == Init /\ [][Next]_syncVars /\ Fairness

-----------------------------------------------------------------------------
(* Types: a run works on tokens it read. *)
TypeOK ==
  /\ granted.shared \subseteq Tokens /\ granted.entitled \subseteq Tokens
  /\ row \in [Tokens -> {"absent", "bare", "own"}]
  /\ \A r \in Runs :
       /\ run[r].at \in {"idle", "detail", "entitlements", "rows", "page", "work", "delete"}
       /\ run[r].list \subseteq Tokens /\ run[r].got \subseteq Tokens
       /\ run[r].todo \subseteq run[r].got \union run[r].list
       /\ past[r].gone \subseteq past[r].seen \intersect past[r].out

(***************************************************************************)
(* A row, and what only this application knows of the vehicle, is lost     *)
(* only by a run that may: one that, at some time since it began, could    *)
(* see the vehicle revoked; for the prune command, revoked while it had a  *)
(* row, so that what is shared and synced while it runs is safe.  An empty *)
(* list of a tenant without explicit entitlements is no revocation, unless *)
(* the mode changed between the two calls that read mode and list.         *)
(***************************************************************************)
MayRemove(r, v) ==
  IF run[r].kind = "prune" THEN v \in past[r].gone
                           ELSE managed /\ (v \in past[r].out \/ past[r].flipped)

Losses ==
  \A v \in Tokens :
    /\ row[v] # "absent" /\ row'[v] = "absent" =>
         \E r \in Runs : run[r] # run'[r] /\ MayRemove(r, v)
    /\ row[v] = "own" => row'[v] # "bare"

OnlyRevokedLose == [][Losses]_syncVars

(***************************************************************************)
(* Whatever overlapped or failed, when grants have settled the table comes *)
(* to hold every vehicle it should, and, in an operator-managed tenant, no *)
(* revoked one: the sync is additive only for tenants with a license.      *)
(***************************************************************************)
InStep ==
  /\ IF managed THEN granted.explicit => granted.shared \intersect granted.entitled \subseteq Present
                ELSE granted.shared \subseteq Present
  /\ managed /\ granted.explicit => Present \subseteq granted.entitled

SyncConverges == <>[]InStep
=============================================================================
