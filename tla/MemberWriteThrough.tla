------------------------- MODULE MemberWriteThrough -------------------------
(***************************************************************************)
(* One wallet's membership of one tenant (member_writethrough.go, with the *)
(* tenant_users half in tenant.go).                                        *)
(*                                                                         *)
(* The shared record, in fleet-tenancy-api, alone decides access; the      *)
(* local row only lists the member.  GrantMember and ChangeMemberScope     *)
(* write the local row, then read, merge and PUT the shared record;        *)
(* RemoveMemberEverywhere deletes the shared record, then the local row.   *)
(* Nothing locks the two stores, and the console of another application    *)
(* writes the shared record as well.                                       *)
(***************************************************************************)
EXTENDS Integers

CONSTANTS
  Editors,       \* requests that can be running at once
  GroupScopes,   \* lists of fleet groups a member may be limited to
  Unrestricted,  \* the nil scope: all groups
  ConsoleCaps,   \* capabilities this app has no word for
  MaxConsole,    \* bound: writes by the console
  MaxFailures    \* bound: requests that may fail

OwnerCaps == {"manage_members", "manage_settings"}
Scopes    == GroupScopes \union {Unrestricted}
AppRoles  == {"owner", "member"}
NoRow     == [role |-> "", scope |-> Unrestricted]
NoRecord  == [role |-> "", scope |-> Unrestricted, perms |-> {}]

LocalRows == [role : AppRoles, scope : Scopes] \union {NoRow}
Records   ==
  [role : AppRoles \union {"admin"}, scope : Scopes, perms : SUBSET (OwnerCaps \union ConsoleCaps)]
    \union {NoRecord}

VARIABLES
  local,     \* the tenant_users row
  shared,    \* the membership in fleet-tenancy-api
  pc,        \* where each request is
  op,        \* what it was asked to do: kind, role, scope
  seen,      \* the shared record it read
  alone,     \* history: since it began, no other write and no failed read
  given,     \* history: capabilities the console gave, which must survive
  mixed,     \* history: the console, overlapping requests or a change of scope of an
             \* unlisted wallet wrote the record, and no lone grant or removal since
  settled,   \* history: the kind of the last edit, if it ran alone and succeeded
  consoles,
  failures

stores  == <<local, shared>>
request == <<pc, op, seen>>
bounds  == <<consoles, failures>>
vars    == <<stores, request, alone, given, mixed, settled, bounds>>

NoOp == [kind |-> "none", role |-> "", scope |-> Unrestricted]

-----------------------------------------------------------------------------
RolePermissions(role) == IF role = "owner" THEN OwnerCaps ELSE {}

roleRank(role) ==
  CASE role = "owner" -> 3 [] role = "admin" -> 2 [] role = "member" -> 1 [] OTHER -> 0

HigherLabel(r, q) == IF roleRank(q) > roleRank(r) THEN q ELSE r

(* Mutant: a scope edit without a local role sends the empty role. *)
RoleAsGiven(role) == role

OrMember(role) == IF role = "" THEN "member" ELSE role

(* Mutant: the PUT carries only this app's view of the member. *)
BlindWrite(o, remote) ==
  [role |-> OrMember(o.role), scope |-> o.scope, perms |-> RolePermissions(o.role)]

(* The record to PUT: what was read, with the asked-for scope. *)
MergedWrite(o, remote) ==
  [role  |-> OrMember(HigherLabel(o.role, remote.role)),
   scope |-> o.scope,
   perms |-> remote.perms \union RolePermissions(o.role)]

-----------------------------------------------------------------------------
(* A request begins. *)

Begin(e, o, stage) ==
  LET undisturbed == \A f \in Editors : pc[f] = "idle"
  IN  /\ pc[e] = "idle"
      /\ pc' = [pc EXCEPT ![e] = stage]
      /\ op' = [op EXCEPT ![e] = o]
      /\ alone' = [f \in Editors |-> f = e /\ undisturbed]
      /\ mixed' = (mixed \/ ~undisturbed)
      /\ settled' = "none"
      /\ UNCHANGED <<stores, seen, given, bounds>>

(* Mutant: the scope asked for an owner goes to the shared record. *)
ScopeAsAsked(role, scope) == scope

(* Owners are always unrestricted. *)
GrantScope(role, scope) == IF role = "owner" THEN Unrestricted ELSE scope

(* Mutant: the shared record is written before the local row. *)
GrantSharedFirst(e, role, scope) ==
  Begin(e, [kind |-> "grant", role |-> role, scope |-> GrantScope(role, scope)], "readShared")

GrantMember(e, role, scope) ==
  Begin(e, [kind |-> "grant", role |-> role, scope |-> GrantScope(role, scope)], "upsertLocal")

ChangeMemberScope(e, scope) ==
  Begin(e, [kind |-> "scope", role |-> "", scope |-> scope], "checkLocal")

(* Mutant: the local row goes first. *)
RemoveLocalFirst(e) ==
  Begin(e, [kind |-> "remove", role |-> "", scope |-> Unrestricted], "deleteLocal")

RemoveMemberEverywhere(e) ==
  Begin(e, [kind |-> "remove", role |-> "", scope |-> Unrestricted], "deleteShared")

Goto(e, stage) ==
  /\ pc' = [pc EXCEPT ![e] = stage]
  /\ UNCHANGED <<alone, settled, bounds>>

-----------------------------------------------------------------------------
(* The local row. *)

(* ON CONFLICT (tenant, wallet) DO UPDATE SET role and scope. *)
UpsertRow(role, scope) == local' = [role |-> role, scope |-> scope]

(* UPDATE of the scope, which finds no row that is not there. *)
UpdateScope(scope) == local' = IF local = NoRow THEN NoRow ELSE [local EXCEPT !.scope = scope]

DeleteRows == local' = NoRow

(* AddMember forces an owner's scope to NULL. *)
AddMember(e) ==
  /\ pc[e] = "upsertLocal"
  /\ UpsertRow(op[e].role, IF op[e].role = "owner" THEN Unrestricted ELSE op[e].scope)
  /\ Goto(e, "readShared")
  /\ UNCHANGED <<shared, op, seen, given, mixed>>

(* UpdateMemberAccess: no row is not an error, a limited owner is. *)
CheckLocal(e) ==
  /\ pc[e] = "checkLocal"
  /\ ~(local.role = "owner" /\ op[e].scope # Unrestricted)
  /\ Goto(e, IF local = NoRow THEN "readRole" ELSE "updateLocal")
  /\ UNCHANGED <<stores, op, seen, given, mixed>>

Finish(e) ==
  /\ pc' = [pc EXCEPT ![e] = "idle"]
  /\ op' = [op EXCEPT ![e] = NoOp]
  /\ seen' = [seen EXCEPT ![e] = NoRecord]
  /\ alone' = [alone EXCEPT ![e] = FALSE]

RefuseLimitedOwner(e) ==
  /\ pc[e] = "checkLocal"
  /\ local.role = "owner" /\ op[e].scope # Unrestricted
  /\ Finish(e)
  /\ UNCHANGED <<stores, given, mixed, settled, bounds>>

(* The UPDATE, of whatever row is there by now. *)
UpdateLocal(e) ==
  /\ pc[e] = "updateLocal"
  /\ UpdateScope(op[e].scope)
  /\ Goto(e, "readRole")
  /\ UNCHANGED <<shared, op, seen, given, mixed>>

(* GetMembershipRole: "" when there is no row. *)
ReadRole(e) ==
  /\ pc[e] = "readRole"
  /\ op' = [op EXCEPT ![e].role = local.role]
  /\ Goto(e, "readShared")
  /\ UNCHANGED <<stores, seen, given, mixed>>

(* A failed read of the row passes for "membership not found", as no row does. *)
LookupFails(e) ==
  /\ failures < MaxFailures
  /\ pc[e] \in {"checkLocal", "readRole"}
  /\ failures' = failures + 1
  /\ pc' = [pc EXCEPT ![e] = IF pc[e] = "checkLocal" THEN "readRole" ELSE "readShared"]
  /\ alone' = [alone EXCEPT ![e] = FALSE]
  /\ UNCHANGED <<stores, op, seen, given, mixed, settled, consoles>>

-----------------------------------------------------------------------------
(* The shared record. *)

ReadShared(e) ==
  /\ pc[e] = "readShared"
  /\ seen' = [seen EXCEPT ![e] = shared]
  /\ Goto(e, "put")
  /\ UNCHANGED <<stores, op, given, mixed>>

(* A change of scope of a wallet that nobody lists makes it a member.      *)
AdmitsUnlisted(e) == op[e].kind = "scope" /\ local = NoRow

Put(e) ==
  /\ pc[e] = "put"
  /\ shared' = MergedWrite(op[e], seen[e])
  /\ given' = IF seen[e] = shared THEN given ELSE {}
  /\ mixed' = IF alone[e] /\ op[e].kind = "grant" THEN FALSE ELSE mixed \/ AdmitsUnlisted(e)
  /\ Goto(e, "reply")
  /\ UNCHANGED <<local, op, seen>>

DeleteShared(e) ==
  /\ pc[e] = "deleteShared"
  /\ shared' = NoRecord
  /\ given' = {}
  /\ Goto(e, "deleteLocal")
  /\ UNCHANGED <<local, op, seen, mixed>>

RemoveMember(e) ==
  /\ pc[e] = "deleteLocal"
  /\ DeleteRows
  /\ mixed' = (mixed /\ ~alone[e])
  /\ Goto(e, "reply")
  /\ UNCHANGED <<shared, op, seen, given>>

Reply(e) ==
  /\ pc[e] = "reply"
  /\ settled' = IF alone[e] THEN op[e].kind ELSE "none"
  /\ Finish(e)
  /\ UNCHANGED <<stores, given, mixed, bounds>>

(* A call fails, before or after it took effect, or the replica dies. *)
Fail(e) ==
  /\ failures < MaxFailures
  /\ pc[e] # "idle"
  /\ failures' = failures + 1
  /\ Finish(e)
  /\ UNCHANGED <<stores, given, mixed, settled, consoles>>

(* The console replaces or deletes the shared record. *)
Console ==
  /\ consoles < MaxConsole
  /\ consoles' = consoles + 1
  /\ shared' \in Records
  /\ given' = shared'.perms
  /\ alone' = [f \in Editors |-> FALSE]
  /\ mixed' = TRUE
  /\ settled' = "none"
  /\ UNCHANGED <<local, request, failures>>

-----------------------------------------------------------------------------
Init ==
  /\ local \in { NoRow, [role |-> "owner", scope |-> Unrestricted] }
  /\ shared \in { NoRecord, [role |-> "owner", scope |-> Unrestricted, perms |-> OwnerCaps] }
  /\ local = NoRow \/ shared # NoRecord
  /\ pc = [e \in Editors |-> "idle"]
  /\ op = [e \in Editors |-> NoOp]
  /\ seen = [e \in Editors |-> NoRecord]
  /\ alone = [e \in Editors |-> FALSE]
  /\ given = {}
  /\ mixed = (local = NoRow /\ shared # NoRecord)
  /\ settled = "none"
  /\ consoles = 0 /\ failures = 0

Ask(e) ==
  \/ \E role \in AppRoles, scope \in Scopes : GrantMember(e, role, scope)
  \/ \E scope \in Scopes : ChangeMemberScope(e, scope)
  \/ RemoveMemberEverywhere(e)

Step(e) ==
  \/ AddMember(e) \/ CheckLocal(e) \/ RefuseLimitedOwner(e) \/ UpdateLocal(e) \/ ReadRole(e)
  \/ LookupFails(e) \/ ReadShared(e) \/ Put(e) \/ DeleteShared(e) \/ RemoveMember(e) \/ Reply(e)

Next ==
  \/ Console
  \/ \E e \in Editors : Ask(e) \/ Step(e) \/ Fail(e)

Spec == Init /\ [][Next]_vars

-----------------------------------------------------------------------------
(* Properties *)

Stages == {"idle", "upsertLocal", "checkLocal", "updateLocal", "readRole", "readShared", "put",
           "deleteShared", "deleteLocal", "reply"}

(* Types: the PUT never carries an empty role, and never an unknown one. *)
TypeOK ==
  /\ local \in LocalRows /\ shared \in Records
  /\ pc \in [Editors -> Stages]
  /\ op \in [Editors -> [kind : {"none", "grant", "scope", "remove"},
                         role : AppRoles \union {""}, scope : Scopes]]
  /\ seen \in [Editors -> Records]
  /\ alone \in [Editors -> BOOLEAN] /\ mixed \in BOOLEAN
  /\ given \subseteq OwnerCaps \union ConsoleCaps
  /\ settled \in {"none", "grant", "scope", "remove"}

(***************************************************************************)
(* "An edit from this app must never strip a capability another surface    *)
(* granted": what the console gave survives every later edit, until the    *)
(* membership is removed, the console writes again, or a PUT overlaps with *)
(* another write.                                                          *)
(***************************************************************************)
CapabilitiesSurvive == given \subseteq shared.perms

(***************************************************************************)
(* The ordering rule: whatever step a grant or a revocation dies at, the   *)
(* member has access only while the local row lists them ("never more").   *)
(* Left out, until a lone grant or removal puts it right, is a record that *)
(* the console or overlapping requests wrote, that was there unlisted from *)
(* the start, as in an operator-managed tenant, or that a change of scope  *)
(* made for a wallet without a row (ChangeMemberScope skips the row that   *)
(* is missing and PUTs all the same).                                      *)
(***************************************************************************)
NobodyInUnlisted == ~mixed /\ shared # NoRecord => local # NoRow

(***************************************************************************)
(* An edit that ran alone and was reported done holds in both stores: the  *)
(* scopes agree, the member has what the local role confers, and a removed *)
(* member is in neither.                                                   *)
(***************************************************************************)
EditsReachBothStores ==
  /\ settled = "grant" => local # NoRow
  /\ settled \in {"grant", "scope"} /\ local # NoRow =>
       /\ shared # NoRecord
       /\ shared.scope = local.scope
       /\ RolePermissions(local.role) \subseteq shared.perms
  /\ settled = "remove" => local = NoRow /\ shared = NoRecord

(***************************************************************************)
(* The owner rule: "owners cannot be limited", and only the absence of a   *)
(* local row skips it, not "a general error swallow".  While the row says  *)
(* owner, a change of scope leaves the shared record unrestricted.         *)
(***************************************************************************)
OwnersCannotBeLimited ==
  [][ \A e \in Editors :
        op[e].kind = "scope" /\ local.role = "owner" /\ shared' # shared
          => shared'.scope = Unrestricted ]_vars

=============================================================================
