---------------------------- MODULE TenantStore ----------------------------
(***************************************************************************)
(* One tenant and its DIMO license: its record in fleet-tenancy-api, its   *)
(* row here, and the copy each replica caches for a day (tenant.go).       *)
(* Requests open the tenant, which mirrors one this database does not      *)
(* hold, create it, and change its license (controllers/tenants.go).       *)
(*                                                                         *)
(* A license is a client id and a key, which belong together when they are *)
(* the same number here.  A tenant without a client id is the operator's.  *)
(***************************************************************************)
EXTENDS Naturals

CONSTANTS
  Servers,     \* replicas of this application
  Jobs,        \* requests that can overlap
  Licenses,    \* client ids, and the numbers of their keys
  MaxWrites    \* bound: writes of the row by updates

VARIABLES
  remote,   \* the tenant in the tenancy service, and the pairs it ever accepted
  tenant,   \* its row: pair, updates so far, whether its last update was partial
  copy,     \* per replica, the cached copy; raced: looked up before a drop
  job,      \* the requests
  told,     \* a creation was answered with 201
  due       \* per replica, updates of the row when it last acknowledged one

tenantVars == <<remote, tenant, copy, job, told, due>>

NoPair  == [client |-> 0, key |-> 0]
NoRow   == [is |-> FALSE, pair |-> NoPair, n |-> 0, partial |-> FALSE]
NoCopy  == [is |-> FALSE, pair |-> NoPair, n |-> 0, raced |-> FALSE]
Idle    == [at |-> "idle", op |-> "none", on |-> "none", client |-> {}, key |-> {},
            got |-> NoRow, raced |-> FALSE]

(* The pair a request carries; a missing half is an empty set. *)
Carried(j, pair) ==
  [client |-> IF job[j].client = {} THEN pair.client ELSE CHOOSE c \in job[j].client : TRUE,
   key    |-> IF job[j].key = {} THEN pair.key ELSE CHOOSE k \in job[j].key : TRUE]
Full(j) == job[j].client # {} /\ job[j].key # {}

Goto(j, at) == job' = [job EXCEPT ![j].at = at]
Finish(j)   == job' = [job EXCEPT ![j] = Idle]
Stores  == <<remote, tenant>>
Answers == <<told, due>>
Elsewhere == UNCHANGED <<Stores, copy, Answers>>

-----------------------------------------------------------------------------
(* The tenant is loaded: an update of an operator's tenant is refused, the *)
(* others go on; a creation answers, and an opening is done.               *)
WithTenant(request, found) ==
  CASE request.op = "update" /\ found.pair.client # 0 -> [request EXCEPT !.at = "put"]
    [] request.op = "load" -> [request EXCEPT !.at = "created"]
    [] OTHER -> Idle

(* It could not be loaded: the guard of an update is skipped. *)
WithoutTenant(request, answer) ==
  CASE request.op = "update" -> [request EXCEPT !.at = "put"]
    [] request.op = "load"   -> [request EXCEPT !.at = "created"]
    [] OTHER -> answer
NotFound == [Idle EXCEPT !.at = "missing"]

(* GetTenantByID: the cached copy, or else the row. *)
Look(j, p, request) ==
  LET c == copy[p]
  IN  job' = [job EXCEPT ![j] =
        IF c.is THEN WithTenant(request, [NoRow EXCEPT !.pair = c.pair, !.n = c.n])
                ELSE [request EXCEPT !.on = p, !.at = "find", !.raced = FALSE]]

(* The first step of every request of the tenant: GetOrMirrorTenant. *)
Open(j, p) ==
  /\ job[j].at = "idle"
  /\ Look(j, p, [Idle EXCEPT !.op = "open"])
  /\ Elsewhere

(* UpdateSettings, of a half or of the pair; the client id can be blanked. *)
Update(j, p, client, key) ==
  /\ job[j].at = "idle"
  /\ Look(j, p, [Idle EXCEPT !.op = "update", !.on = p, !.client = client, !.key = key])
  /\ Elsewhere

FindTenant(j) ==
  /\ job[j].at = "find"
  /\ job' = [job EXCEPT ![j] = IF tenant.is THEN [@ EXCEPT !.at = "fill", !.got = tenant]
                              ELSE IF job[j].op = "load" THEN WithoutTenant(job[j], Idle)
                              ELSE [@ EXCEPT !.at = "detail"]]
  /\ Elsewhere

(* Mutant: only tenants without a license of their own are mirrored. *)
ManagedOnly == remote.is /\ remote.pair.client = 0

(* Any tenant the tenancy service answers for is mirrored. *)
Mirrorable == remote.is

TenantDetail(j) ==
  /\ job[j].at = "detail"
  /\ job' = [job EXCEPT ![j] = IF Mirrorable THEN [@ EXCEPT !.at = "mirror"]
                              ELSE WithoutTenant(job[j], NotFound)]
  /\ Elsewhere

(* A statement or a call fails, unlike one that finds nothing. *)
LoadFails(j) ==
  /\ job[j].at \in {"find", "detail", "mirror"}
  /\ job' = [job EXCEPT ![j] = WithoutTenant(job[j], Idle)]
  /\ Elsewhere

(* Mutant: the upsert updates every column. *)
MirrorAll == [NoRow EXCEPT !.is = TRUE, !.n = tenant.n]

(* Upsert with a whitelist: a row that meanwhile exists keeps its license. *)
Mirrored == IF tenant.is THEN tenant ELSE [NoRow EXCEPT !.is = TRUE]

Mirror(j) ==
  /\ job[j].at = "mirror"
  /\ tenant' = Mirrored
  /\ job' = [job EXCEPT ![j].at = "fill", ![j].got = NoRow]
  /\ UNCHANGED <<remote, copy, Answers>>

(* The copy is cached as it was read, whatever happened since. *)
Fill(j) ==
  /\ job[j].at = "fill"
  /\ copy' = [copy EXCEPT ![job[j].on] =
       [is |-> TRUE, pair |-> job[j].got.pair, n |-> job[j].got.n, raced |-> job[j].raced]]
  /\ job' = [job EXCEPT ![j] = WithTenant([@ EXCEPT !.got = NoRow, !.raced = FALSE], job[j].got)]
  /\ UNCHANGED <<Stores, Answers>>

-----------------------------------------------------------------------------
(* CreateTenant: the license mints, both here and in the tenancy service, *)
(* or the request is refused.  One with another license is another tenant. *)
Create(j, p, c) ==
  /\ job[j].at = "idle"
  /\ remote.is => c = remote.pair.client
  /\ job' = [job EXCEPT ![j] = [Idle EXCEPT !.at = "remote", !.op = "create", !.on = p,
               !.client = {c}, !.key = {c}]]
  /\ Elsewhere

Accept(pair) == remote' = [is |-> TRUE, pair |-> pair, seen |-> remote.seen \union {pair}]

(* A first license is accepted, though the answer may be lost; a second    *)
(* creation is refused, and the service may be down.                       *)
CreateSelfServeTenant(j) ==
  /\ job[j].at = "remote"
  /\ \/ /\ ~remote.is /\ Accept(Carried(j, NoPair))
        /\ Goto(j, "insert") \/ Finish(j)
     \/ UNCHANGED remote /\ Finish(j)
  /\ UNCHANGED <<tenant, copy, Answers>>

(* INSERT, which a row with the id makes fail. *)
InsertRow(pair) == ~tenant.is /\ tenant' = [NoRow EXCEPT !.is = TRUE, !.pair = pair]

(* The local row; when it is there already, or fails, the answer is 201 all the same. *)
Insert(j) ==
  /\ job[j].at = "insert"
  /\ \/ /\ InsertRow(Carried(j, NoPair))
        /\ Look(j, job[j].on, [job[j] EXCEPT !.op = "load"])
     \/ UNCHANGED tenant /\ Goto(j, "created")
  /\ UNCHANGED <<remote, copy, Answers>>

Created(j) ==
  /\ job[j].at = "created"
  /\ told' = TRUE /\ Finish(j)
  /\ UNCHANGED <<Stores, copy, due>>

-----------------------------------------------------------------------------
(* Mutant: only the client id has to reach the tenancy service. *)
ClientGoes(j) == job[j].client # {} /\ job[j].key = {}

(* Only a full pair goes to the tenancy service. *)
Goes(j) == Full(j)

PutTenantCredentials(j) ==
  /\ job[j].at = "put"
  /\ \/ ~Goes(j) /\ UNCHANGED remote /\ Goto(j, "read")
     \/ /\ Goes(j) /\ remote.is /\ Accept(Carried(j, remote.pair))
        /\ Goto(j, "read") \/ Finish(j)
     \/ Goes(j) /\ UNCHANGED remote /\ Finish(j)
  /\ UNCHANGED <<tenant, copy, Answers>>

(* UpdateCredentials reads the row ... *)
ReadRow(j) ==
  /\ job[j].at = "read"
  /\ \/ tenant.is /\ job' = [job EXCEPT ![j].at = "write", ![j].got = tenant]
     \/ Finish(j)
  /\ Elsewhere

(* UPDATE of every column. *)
UpdateRow(pair, full) ==
  tenant' = [is |-> TRUE, pair |-> pair, n |-> tenant.n + 1, partial |-> ~full]

(* ... and writes it back whole. *)
WriteRow(j) ==
  /\ job[j].at = "write" /\ tenant.n < MaxWrites
  /\ UpdateRow(Carried(j, job[j].got.pair), Full(j))
  /\ job' = [job EXCEPT ![j].at = "drop", ![j].got.n = tenant.n + 1]
  /\ UNCHANGED <<remote, copy, Answers>>

(* Mutant: the cached copy is left to expire. *)
CopyLeft(p) == copy[p]

CopyAfterUpdate(p) == NoCopy

(* This replica's copy is dropped; lookups under way go on. *)
DropCopy(j) ==
  LET p == job[j].on
      n == job[j].got.n
  IN  /\ job[j].at = "drop"
      /\ copy' = [copy EXCEPT ![p] = CopyAfterUpdate(p)]
      /\ due' = [due EXCEPT ![p] = IF n > @ THEN n ELSE @]
      /\ job' = [k \in Jobs |-> IF k = j THEN Idle
                  ELSE [job[k] EXCEPT !.raced = @ \/ job[k].on = p]]
      /\ UNCHANGED <<Stores, told>>

-----------------------------------------------------------------------------
Answer(j) == job[j].at = "missing" /\ Finish(j) /\ Elsewhere

Expire(p) ==
  /\ copy' = [copy EXCEPT ![p] = NoCopy]
  /\ UNCHANGED <<Stores, job, Answers>>

Restart(p) ==
  /\ copy' = [copy EXCEPT ![p] = NoCopy]
  /\ job' = [j \in Jobs |-> IF job[j].on = p THEN Idle ELSE job[j]]
  /\ UNCHANGED <<Stores, Answers>>

Init ==
  /\ remote \in [is : BOOLEAN, pair : {NoPair}, seen : {{}}]   \* an operator's, or none
  /\ tenant = NoRow /\ copy = [p \in Servers |-> NoCopy]
  /\ job = [j \in Jobs |-> Idle]
  /\ told = FALSE /\ due = [p \in Servers |-> 0]

Optional(set) == {{}} \union { {x} : x \in set }

Next ==
  \/ \E p \in Servers : Expire(p) \/ Restart(p)
  \/ \E j \in Jobs :
       \/ \E p \in Servers :
            \/ Open(j, p) \/ \E c \in Licenses : Create(j, p, c)
            \/ \E client \in Optional({0} \union Licenses), key \in Optional(Licenses) :
                 Update(j, p, client, key)
       \/ FindTenant(j) \/ TenantDetail(j) \/ LoadFails(j) \/ Mirror(j) \/ Fill(j)
       \/ CreateSelfServeTenant(j) \/ Insert(j) \/ Created(j)
       \/ PutTenantCredentials(j) \/ ReadRow(j) \/ WriteRow(j) \/ DropCopy(j) \/ Answer(j)

Spec == Init /\ [][Next]_tenantVars

-----------------------------------------------------------------------------
(* Types: the row and its copies hold what somebody entered. *)
TypeOK ==
  LET Halves == [client : {0} \union Licenses, key : {0} \union Licenses]
  IN  /\ remote.pair \in Halves /\ remote.seen \subseteq Halves
      /\ tenant \in [is : BOOLEAN, pair : Halves, n : 0..MaxWrites, partial : BOOLEAN]
      /\ copy \in [Servers -> [is : BOOLEAN, pair : Halves, n : 0..MaxWrites, raced : BOOLEAN]]
      /\ \A p \in Servers : due[p] <= tenant.n
      /\ \A j \in Jobs : job[j].got.n <= tenant.n

(***************************************************************************)
(* "A remote success followed by a local failure degrades safely": once a  *)
(* creation was answered with 201, no request is told that the tenant does *)
(* not exist, whichever of row, copy and mirror it meets.                  *)
(***************************************************************************)
NoNewMissing == told => \A j \in Jobs : job'[j].at = "missing" => job[j].at = "missing"

CreatedOpens == [][NoNewMissing]_tenantVars

(***************************************************************************)
(* "A rotation it never saw is a rotation that locks the tenant out": the  *)
(* license in the row was accepted by the tenancy service, in whatever     *)
(* order creations, mirrors and updates met and failed, unless the last    *)
(* update was of one half only.                                            *)
(***************************************************************************)
NoUnseenLicense ==
  tenant.is /\ tenant.pair # NoPair /\ ~tenant.partial => tenant.pair \in remote.seen

(***************************************************************************)
(* A mirror, or a creation, a retry or a failure that meets one, leaves    *)
(* the row's license alone: what makes the tenant look like an operator's  *)
(* is an update that blanks the client id, or one of the key alone that    *)
(* read the row while it had no client id and writes back what it read.    *)
(***************************************************************************)
OnlyUpdatesTake ==
  tenant.pair.client # 0 /\ tenant'.pair.client = 0 =>
    \E j \in Jobs : /\ job[j].at = "write"
                    /\ \/ job[j].client = {0}
                       \/ job[j].client = {} /\ job[j].got.pair.client = 0

LicensesStay == [][OnlyUpdatesTake]_tenantVars

(***************************************************************************)
(* An update answered by a replica shows there at once, a day before the   *)
(* cached copy would have expired, except through a lookup that overlapped *)
(* it and fills the cache with what it read before.                        *)
(***************************************************************************)
UpdatesShow == \A p \in Servers : copy[p].is /\ ~copy[p].raced => copy[p].n >= due[p]

(***************************************************************************)
(* Whatever order creations, mirrors, updates, failures and restarts of    *)
(* the replicas come in, the license of a tenant holds: what the row has   *)
(* the tenancy service has seen, no request but an update takes it away,   *)
(* and an update shows where it was made.                                  *)
(***************************************************************************)
LicenseHolds == [](NoUnseenLicense /\ UpdatesShow) /\ LicensesStay
=============================================================================
