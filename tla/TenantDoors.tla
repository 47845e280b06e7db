----------------------------- MODULE TenantDoors -----------------------------
(***************************************************************************)
(* The routes a wallet reaches without choosing a fleet (the JWT-only half *)
(* of App in app.go, with requireMember and the reads of tenants.go), and  *)
(* the two reads of its own access behind NewTenantMiddleware.  Membership *)
(* is looked up in two stores that agree only by the care of their         *)
(* writers: tenant_users rows here, memberships in fleet-tenancy-api, the  *)
(* latter through cached answers.  One tenant, one request, of which each  *)
(* read and each write is a step; the writers are MemberWriteThrough.      *)
(***************************************************************************)
EXTENDS FiniteSets, Naturals, Sequences

CONSTANTS
  Wallets, Me, \* the wallets, and the one that asks
  MaxTurns     \* bound: changes made by others

VARIABLES
  managed,     \* the operator's tenant: no credentials and no local rows of its own
  world,       \* [rows, members]: the two stores
  cached,      \* the kept authz answer for Me, a set of at most one
  request,
  since,       \* history: the worlds since the request began or its answer was read
  meant,       \* history: the local rows as edits of members alone made them
  turns

doorVars == <<managed, world, cached, request, since, meant, turns>>

No     == [role |-> "none", limited |-> FALSE, via |-> "none", stamped |-> FALSE]
Rows   == {No} \union [role : {"owner", "member"}, limited : BOOLEAN, via : {"direct"}, stamped : BOOLEAN]
Members == Rows \union [role : {"member"}, limited : {FALSE}, via : {"delegation"}, stamped : BOOLEAN]

(* The caller's row, if any; the wallets with a row, or membership, in a store. *)
Row == world.rows[Me]
In(store) == { w \in Wallets : store[w] # No }

-----------------------------------------------------------------------------
(* The way in *)

ByRow   == {"settings", "sync", "members", "login"}     \* behind requireMember
ByAuthz == {"access", "memberships"}                    \* behind NewTenantMiddleware
Kinds   == ByRow \union ByAuthz \union {"tenants"}

Idle == [at |-> "idle", kind |-> "none", row |-> No, status |-> 0,
         shown |-> <<>>, enforced |-> FALSE, lost |-> FALSE]

(* What a handler does once its caller is known to be a member. *)
First(kind) ==
  CASE kind = "members" -> "list"
    [] kind = "login"   -> "find"
    [] kind = "access"  -> "active"
    [] kind = "memberships" -> "page"
    [] OTHER -> "done"

Admit(q) == [q EXCEPT !.at = First(q.kind), !.status = 200]

Answered(status) == [request EXCEPT !.at = "done", !.status = status]

(* RequireTokenAudience: a token of another app is not let in. *)
AudienceIsOurs(audiences) == "fleet-lite" \in audiences

Begin(kind, audiences) ==
  /\ request.at = "idle"
  /\ request' = IF AudienceIsOurs(audiences)
                THEN [Idle EXCEPT !.kind = kind,
                        !.at = CASE kind \in ByRow -> "row" [] kind \in ByAuthz -> "tenant" [] OTHER -> "mine"]
                ELSE [Idle EXCEPT !.kind = kind, !.at = "done", !.status = 401]
  /\ since' = {world} \union { a.of : a \in cached }
  /\ UNCHANGED <<managed, world, cached, meant, turns>>

(* GetMembershipRole: a row lets in; none, or a failed read, asks the service. *)
requireMember ==
  /\ request.at = "row"
  /\ \E found \in BOOLEAN :
       request' = IF found /\ Row # No THEN Admit(request)
                  ELSE [request EXCEPT !.at = "tenant"]
  /\ UNCHANGED <<managed, world, cached, since, meant, turns>>

(* GetOrMirrorTenant: requireMember refuses what the middleware calls its  *)
(* own failure.                                                            *)
LoadTenant ==
  /\ request.at = "tenant"
  /\ \/ request' = [request EXCEPT !.at = "authz"]
     \/ request' = [Answered(IF request.kind \in ByRow THEN 403 ELSE 500) EXCEPT !.lost = TRUE]
  /\ UNCHANGED <<managed, world, cached, since, meant, turns>>

(* Mutant: whoever has rights in the tenant is let in, operators too. *)
MemberAtAll(answer) == answer # No

(* A delegation is never a session. *)
DirectMember(answer) == answer.via = "direct"

(* The kept answer or a new one, which is kept; no answer is a 503. *)
Authz ==
  /\ request.at = "authz"
  /\ \/ \E a \in cached \union {[of |-> world]} :
          /\ cached # {} => a \in cached
          /\ request' = IF DirectMember(a.of.members[Me]) THEN Admit(request) ELSE Answered(403)
          /\ cached' = {a}
     \/ cached = {} /\ request' = [Answered(503) EXCEPT !.lost = TRUE] /\ UNCHANGED cached
  /\ UNCHANGED <<managed, world, since, meant, turns>>

-----------------------------------------------------------------------------
(* The handlers.  What they list is a sequence, each entry a wallet or a   *)
(* tenant with what is said of it.                                         *)

AsList(set) == CHOOSE s \in [1..Cardinality(set) -> set] : \A i, j \in 1..Cardinality(set) : i # j => s[i] # s[j]

(* Mutant: an owner's leftover groups are shown for a limit. *)
ShownAsStored(w, m) == [of |-> w, role |-> m.role, limited |-> m.limited]

(* memberJSON: owners are never limited, whatever the record holds. *)
ToMember(w, m) == [of |-> w, role |-> m.role, limited |-> m.limited /\ m.role # "owner"]

MembersOf(store) == AsList({ ToMember(w, store[w]) : w \in In(store) })

Steps(at) == request.at = at /\ UNCHANGED <<managed, cached, since, meant, turns>>

(* An operator's tenant lists the memberships, another its rows. *)
GetMembers ==
  /\ Steps("list") /\ UNCHANGED world
  /\ \E loaded \in BOOLEAN :     \* GetOrMirrorTenant may fail here too
       \/ request' = [Answered(200) EXCEPT !.shown =
                        MembersOf(IF loaded /\ managed THEN world.members ELSE world.rows),
                        !.lost = managed /\ ~loaded]
       \/ request' = [Answered(IF loaded /\ managed THEN 503 ELSE 500) EXCEPT !.lost = TRUE]

(* TouchLogin reads the caller's row ... *)
TouchFinds ==
  /\ Steps("find") /\ UNCHANGED world
  /\ \/ request' = [request EXCEPT !.row = Row,
                      !.at = IF Row = No THEN "stamp" ELSE "touch"]
     \/ request' = [request EXCEPT !.at = "stamp"]

(* Mutant: the row as it was read is written whole. *)
StampWhole(row, read) == IF row = No THEN No ELSE [read EXCEPT !.stamped = TRUE]

(* ... and updates the columns of the login alone, of a row that is still there. *)
Stamp(row, read) == IF row = No THEN No ELSE [row EXCEPT !.stamped = TRUE]

TouchLogin ==
  /\ Steps("touch")
  /\ request' = [request EXCEPT !.at = "stamp"]
  /\ \/ world' = [world EXCEPT !.rows[Me] = Stamp(@, request.row)]
     \/ UNCHANGED world

(* The shared record is stamped by the service; whatever fails, the login  *)
(* is answered ok.                                                         *)
LoginTouch ==
  /\ Steps("stamp")
  /\ request' = Answered(200)
  /\ \/ world' = [world EXCEPT !.members[Me] = Stamp(@, @)]
     \/ UNCHANGED world

(* ListTenantsForWallet; then the service's list, each tenant once. *)
ListTenantsForWallet ==
  /\ Steps("mine") /\ UNCHANGED world
  /\ \/ request' = [request EXCEPT !.at = "theirs", !.shown = IF Row = No THEN <<>> ELSE <<"tenant">>]
     \/ request' = [Answered(500) EXCEPT !.lost = TRUE]

Elements(list) == { list[i] : i \in DOMAIN list }

(* Mutant: the two lists are appended. *)
BothLists(mine, theirs) == mine \o theirs

Union(mine, theirs) == mine \o AsList(Elements(theirs) \ Elements(mine))

GetTenants ==
  /\ Steps("theirs") /\ UNCHANGED world
  /\ \/ request' = [Answered(200) EXCEPT !.shown =
                      Union(@, IF world.members[Me] = No THEN <<>> ELSE <<"tenant">>)]
     \/ request' = [Answered(200) EXCEPT !.lost = TRUE]

(* The caption of /me/access is false when the state is not to be had; the *)
(* memberships page says 404 where the service has none, and 503 otherwise.*)
GetMyAccess ==
  /\ Steps("active") /\ UNCHANGED world
  /\ \E enforced \in BOOLEAN : request' = [Answered(200) EXCEPT !.enforced = enforced]

GetMemberships ==
  /\ Steps("page") /\ UNCHANGED world
  /\ \E status \in {200, 404, 503} : request' = [Answered(status) EXCEPT !.lost = status # 200]

(* ErrorHandler answers with the status it is given. *)
Reply ==
  /\ Steps("done") /\ UNCHANGED world
  /\ request' = Idle

-----------------------------------------------------------------------------
(* Members come, go, are narrowed and made owners, here, in the console or *)
(* in both.                                                                *)
Edit(w, as, places) ==
  /\ turns < MaxTurns /\ turns' = turns + 1
  /\ world' = [rows    |-> IF "rows" \in places THEN [world.rows EXCEPT ![w] = as] ELSE world.rows,
               members |-> IF "members" \in places THEN [world.members EXCEPT ![w] = as] ELSE world.members]
  /\ meant' = world'.rows
  /\ since' = IF request.at = "idle" THEN {} ELSE since \union {world'}
  /\ UNCHANGED <<managed, cached, request>>

Expire ==
  /\ cached # {} /\ cached' = {}
  /\ UNCHANGED <<managed, world, request, since, meant, turns>>

Owner == [role |-> "owner", limited |-> FALSE, via |-> "direct", stamped |-> FALSE]

Init ==
  /\ managed \in BOOLEAN
  /\ world \in [rows : {[w \in Wallets |-> IF managed THEN No ELSE Owner]},
                members : {[w \in Wallets |-> Owner]}]
  /\ cached = {} /\ request = Idle /\ since = {}
  /\ meant = world.rows /\ turns = 0

Next ==
  \/ \E kind \in Kinds, audiences \in SUBSET {"fleet-lite", "another"} : Begin(kind, audiences)
  \/ requireMember \/ LoadTenant \/ Authz
  \/ GetMembers \/ TouchFinds \/ TouchLogin \/ LoginTouch
  \/ ListTenantsForWallet \/ GetTenants \/ GetMyAccess \/ GetMemberships
  \/ Reply \/ Expire
  \/ \E w \in Wallets :
       \/ \E as \in { r \in Rows : ~r.stamped }, places \in SUBSET {"rows", "members"} :
            (managed => "rows" \notin places) /\ Edit(w, as, places)
       \/ \E as \in { m \in Members : ~m.stamped } : Edit(w, as, {"members"})

Spec == Init /\ [][Next]_doorVars

-----------------------------------------------------------------------------
(* Types. *)
TypeOK ==
  /\ world \in [rows : [Wallets -> Rows], members : [Wallets -> Members]]
  /\ request.status \in {0, 200, 401, 403, 404, 500, 503}
  /\ Cardinality(cached) <= 1 /\ turns \in 0..MaxTurns

Was(P(_)) == \E w \in since : P(w)

(* "Fail closed, and as unavailability rather than refusal": a wallet gets *)
(* past a door only if a store held it as a direct member since the        *)
(* request began, or when the answer it rests on was read, and past the    *)
(* middleware only if the shared store did; and unless a read failed, one  *)
(* is refused only if it was no such member at some time.  Its own list of *)
(* tenants names the tenant once, if a store held the wallet at some time, *)
(* and surely if one store did all along (GetTenants, the union).          *)
DoorsHold ==
  LET Local(w)  == w.rows[Me] # No
      Shared(w) == w.members[Me].via = "direct"
      Either(w) == Local(w) \/ Shared(w)
  IN  request.at = "done" =>
        /\ request.kind \in ByRow /\ request.status = 200 => Was(Either)
        /\ request.kind \in ByAuthz /\ request.status = 200 => Was(Shared)
        /\ request.status = 403 /\ ~request.lost => \E w \in since : ~Shared(w)
        /\ request.kind = "tenants" =>
             /\ Len(request.shown) <= 1
             /\ Len(request.shown) = 1 => \E w \in since : Local(w) \/ w.members[Me] # No
             /\ request.status = 200 /\ ~request.lost =>
                  ((\A w \in since : Local(w)) \/ (\A w \in since : w.members[Me] # No)
                     => Len(request.shown) = 1)

(* The list of members names each wallet once and each only as the tenant's *)
(* own store held it since the request began, owners never as limited, and  *)
(* leaves none out that was there all along, unless a read failed.          *)
MembersAsStored ==
  LET Store(w) == IF managed THEN w.members ELSE w.rows
      shown    == request.shown
  IN  request.at = "done" /\ request.kind = "members" /\ request.status = 200 /\ ~request.lost =>
        /\ \A i, j \in DOMAIN shown : i # j => shown[i].of # shown[j].of
        /\ \A i \in DOMAIN shown :
             /\ shown[i].role = "owner" => ~shown[i].limited
             /\ \E w \in since : shown[i].of \in In(Store(w)) /\ shown[i].role = Store(w)[shown[i].of].role
        /\ \A m \in Wallets :
             (\A w \in since : m \in In(Store(w))) => \E i \in DOMAIN shown : shown[i].of = m

(* A login that raced a change of its member, a removal or a new scope,    *)
(* never undoes it: the stamp is all it writes (TouchLogin's whitelist).   *)
StampsUndoNothing ==
  \A w \in Wallets : [world.rows[w] EXCEPT !.stamped = FALSE] = [meant[w] EXCEPT !.stamped = FALSE]
=============================================================================
