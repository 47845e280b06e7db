-------------------------- MODULE Reconciliation --------------------------
(***************************************************************************)
(* Three commands that only read, and whose exit code says whether this    *)
(* application's tables and fleet-tenancy-api agree (tenancy_check.go,     *)
(* tenancy_diff.go, vehicles_diff.go).  They read table and service at     *)
(* different times, tenant by tenant, while both go on changing.           *)
(***************************************************************************)
EXTENDS Naturals, FiniteSets

CONSTANTS
  Tenants,      \* numbers, in the order of their names
  Wallets, Groups, Cars,
  MaxChanges    \* bound: changes of tables and service

VARIABLES
  licensed,  \* tenants with a DIMO client id
  trusted,   \* tenants as which the service lets this application in
  row,       \* per tenant and wallet: the membership row
  answer,    \* per tenant and wallet: what the service grants
  fleet,     \* per tenant: its mode, the entitled cars and those with a row
  cmd,       \* the command: what is left to do, what it has counted
  steady,    \* history: what has not changed since the command began
  changes

toolVars == <<licensed, trusted, row, answer, fleet, cmd, steady, changes>>

Capabilities == {"manage_members", "manage_settings"}
Everything   == [open |-> TRUE, groups |-> {}]
Scopes       == {Everything} \union [open : {FALSE}, groups : SUBSET Groups]

NoRow  == [role |-> "none", scope |-> Everything]
Rows   == {NoRow} \union [role : {"owner", "member"}, scope : Scopes]
Denied == [via |-> "none", role |-> "none", caps |-> {}, scope |-> [open |-> FALSE, groups |-> {}]]

Nowhere == [kind |-> "none", at |-> "idle", asked |-> {}, tenants |-> {}, members |-> {},
            list |-> {}, bad |-> FALSE]

-----------------------------------------------------------------------------
(* fleetLiteLocalAccess: what a row grants, in the service's vocabulary. *)
fleetLiteLocalAccess(r) ==
  [role  |-> r.role,
   caps  |-> IF r.role = "owner" THEN Capabilities ELSE {},
   scope |-> r.scope]

(* Mutant: an empty list of groups is taken for none, and so for all. *)
ScopeByLength(local, remote) ==
  IF remote.scope.groups = {} THEN "agree"
  ELSE IF local.scope.groups = {} THEN "differ"
  ELSE IF ~(local.scope.groups \subseteq remote.scope.groups) THEN "differ"
  ELSE IF local.scope.groups # remote.scope.groups THEN "remote-extra" ELSE "agree"

compareScope(local, remote) ==
  IF local.scope.open THEN (IF remote.scope.open THEN "agree" ELSE "differ")
  ELSE IF remote.scope.open THEN "remote-extra"
  ELSE IF ~(local.scope.groups \subseteq remote.scope.groups) THEN "differ"
  ELSE IF local.scope.groups # remote.scope.groups THEN "remote-extra" ELSE "agree"

compareAccess(local, remote) ==
  LET scope == compareScope(local, remote)
  IN  IF remote.via = "none" THEN "missing-remote"
      ELSE IF scope = "differ" \/ local.caps \ remote.caps # {} THEN "differ"
      ELSE IF remote.caps # local.caps \/ scope = "remote-extra" THEN "remote-extra"
      ELSE IF local.role # remote.role THEN "role-differs" ELSE "agree"

(* What one side has and the other lacks, of entitled and local cars. *)
compareVehicleSets(entitled, local) ==
  [missing |-> entitled \ local, extra |-> local \ entitled]

-----------------------------------------------------------------------------
(* Which tenants a command is for: one named, or by who holds the license. *)
(* tenancy-diff skips a named tenant without one; the others do not.       *)
resolveTenantIDs(kind, named) ==
  IF kind = "diff" THEN licensed \intersect named
  ELSE IF named # Tenants THEN named
  ELSE IF kind = "check" THEN licensed ELSE Tenants \ licensed

(* tenancy-check fails when nobody holds a license. *)
Begin(kind, named) ==
  LET asked == resolveTenantIDs(kind, named)
  IN  /\ cmd.at = "idle"
      /\ cmd' = [Nowhere EXCEPT !.kind = kind, !.asked = asked, !.tenants = asked,
                   !.at = IF kind = "check" /\ asked = {} THEN "failure" ELSE "tenant"]
      /\ steady' = Tenants \X ({"itself"} \union Wallets \union Cars)
      /\ UNCHANGED <<licensed, trusted, row, answer, fleet, changes>>

Current == CHOOSE t \in cmd.tenants : \A u \in cmd.tenants : t <= u

Moves(to) ==
  /\ cmd' = to
  /\ UNCHANGED <<licensed, trusted, row, answer, fleet, steady, changes>>

NextTenant(bad) == [cmd EXCEPT !.at = "tenant", !.bad = @ \/ bad,
                               !.tenants = @ \ {Current}, !.members = {}, !.list = {}]

(* tenancy-check asks once per tenant, and goes on after a failure. *)
CheckTenant ==
  /\ cmd.at = "tenant" /\ cmd.kind = "check" /\ cmd.tenants # {}
  /\ \/ Moves(NextTenant(Current \notin trusted))
     \/ Moves(NextTenant(TRUE))

(* tenancy-diff reads the members of a tenant, and then asks for each. *)
ListMembers ==
  /\ cmd.at = "tenant" /\ cmd.kind = "diff" /\ cmd.tenants # {}
  /\ Moves([cmd EXCEPT !.at = "members",
              !.members = { [wallet |-> w, row |-> row[Current, w]] :
                              w \in { x \in Wallets : row[Current, x] # NoRow } }])

(* Mutant: only a lost membership counts, not a narrowed one. *)
LostOnly == {"missing-remote"}

Losses == {"differ", "missing-remote"}

CompareMember(m) ==
  /\ cmd.at = "members" /\ m \in cmd.members /\ Current \in trusted
  /\ LET verdict == compareAccess(fleetLiteLocalAccess(m.row), answer[Current, m.wallet])
     IN  Moves([cmd EXCEPT !.members = @ \ {m}, !.bad = @ \/ verdict \in Losses])

NoMemberLeft ==
  /\ cmd.at = "members" /\ cmd.members = {}
  /\ Moves(NextTenant(FALSE))

(* vehicles-diff asks for mode and entitlements, and then reads the rows. *)
ReadMode ==
  /\ cmd.at = "tenant" /\ cmd.kind = "vehicles" /\ cmd.tenants # {}
  /\ Moves(IF fleet[Current].explicit THEN [cmd EXCEPT !.at = "entitled"]
                                      ELSE NextTenant(FALSE))

ReadEntitled ==
  /\ cmd.at = "entitled" /\ Current \in trusted
  /\ Moves([cmd EXCEPT !.at = "rows",
              !.list = IF fleet[Current].explicit THEN fleet[Current].entitled ELSE {}])

readLocalVehicleTokenIDs ==
  LET d == compareVehicleSets(cmd.list, fleet[Current].local)
  IN  /\ cmd.at = "rows"
      /\ Moves(NextTenant(d.missing # {} \/ d.extra # {}))

(* One failed call or read is a failed comparison, whatever is left. *)
Aborts ==
  /\ cmd.at \in {"tenant", "members", "entitled", "rows"}
  /\ cmd.kind # "check" /\ cmd.tenants # {}
  /\ Moves([cmd EXCEPT !.at = "failure"])

Finish ==
  /\ cmd.at = "tenant" /\ cmd.tenants = {}
  /\ Moves([cmd EXCEPT !.at = IF cmd.bad THEN "failure" ELSE "success"])

-----------------------------------------------------------------------------
(* External: members are edited here and there, entitlements given and     *)
(* taken, vehicles synced and pruned, credentials rotated.                 *)
Drift(key) ==
  /\ cmd.at \notin {"success", "failure"} /\ changes < MaxChanges
  /\ changes' = changes + 1
  /\ steady' = steady \ {key}
  /\ UNCHANGED <<licensed, cmd>>

Toggle(set, e) == IF e \in set THEN set \ {e} ELSE set \union {e}

MembershipDrifts(t, w) ==
  /\ Drift(<<t, w>>)
  /\ \/ /\ \E r \in Rows : row' = [row EXCEPT ![<<t, w>>] = r]
        /\ UNCHANGED answer
     \/ /\ \E a \in {Denied} \union [via : {"direct"}, role : {"owner", "member"},
                                     caps : SUBSET Capabilities, scope : Scopes] :
             answer' = [answer EXCEPT ![<<t, w>>] = a]
        /\ UNCHANGED row
  /\ UNCHANGED <<trusted, fleet>>

FleetDrifts(t, c) ==
  /\ Drift(<<t, c>>)
  /\ \/ fleet' = [fleet EXCEPT ![t].entitled = Toggle(@, c)]
     \/ fleet' = [fleet EXCEPT ![t].local = Toggle(@, c)]
  /\ UNCHANGED <<trusted, row, answer>>

TenantDrifts(t) ==
  /\ Drift(<<t, "itself">>)
  /\ \/ /\ trusted' = Toggle(trusted, t)
        /\ UNCHANGED fleet
     \/ /\ t \notin licensed
        /\ fleet' = [fleet EXCEPT ![t].explicit = ~@]
        /\ UNCHANGED trusted
  /\ UNCHANGED <<row, answer>>

(* The two sides start out equal, as backfill and sync leave them; what no *)
(* command compares, the members of a tenant without license and the cars  *)
(* of one that has it, is left out.                                        *)
Mirror(r) == IF r = NoRow THEN Denied
             ELSE [via |-> "direct", role |-> r.role, scope |-> r.scope,
                   caps |-> fleetLiteLocalAccess(r).caps]

Init ==
  /\ licensed \in SUBSET Tenants /\ trusted = Tenants
  /\ row \in { r \in [Tenants \X Wallets -> Rows] :
                 \A k \in DOMAIN r : k[1] \notin licensed => r[k] = NoRow }
  /\ answer = [k \in Tenants \X Wallets |-> Mirror(row[k])]
  /\ fleet \in { [t \in Tenants |-> [explicit |-> t \notin licensed, entitled |-> owned[t],
                                     local |-> owned[t]]] :
                   owned \in { o \in [Tenants -> SUBSET Cars] : \A t \in licensed : o[t] = {} } }
  /\ cmd = Nowhere /\ steady = {} /\ changes = 0

Next ==
  \/ \E kind \in {"check", "diff", "vehicles"},
        named \in {Tenants} \union { {t} : t \in Tenants } : Begin(kind, named)
  \/ CheckTenant \/ ListMembers \/ NoMemberLeft
  \/ \E m \in cmd.members : CompareMember(m)
  \/ ReadMode \/ ReadEntitled \/ readLocalVehicleTokenIDs
  \/ Aborts \/ Finish
  \/ \E t \in Tenants :
       \/ TenantDrifts(t)
       \/ \E w \in Wallets : t \in licensed /\ MembershipDrifts(t, w)
       \/ \E c \in Cars : t \notin licensed /\ FleetDrifts(t, c)

Spec == Init /\ [][Next]_toolVars

-----------------------------------------------------------------------------
TypeOK ==
  /\ licensed \subseteq Tenants /\ trusted \subseteq Tenants
  /\ row \in [Tenants \X Wallets -> Rows]
  /\ cmd.at \in {"idle", "tenant", "members", "entitled", "rows", "success", "failure"}
  /\ cmd.tenants \subseteq cmd.asked /\ cmd.asked \subseteq Tenants
  /\ cmd.list \subseteq Cars

(* What a scope lets a member see; vehicles in no group only unrestricted. *)
Sees(scope) == IF scope.open THEN Groups \union {"ungrouped"} ELSE scope.groups

(***************************************************************************)
(* An exit code of success can be relied on for whatever did not change    *)
(* while the command ran: the service lets every tenant asked in; no       *)
(* membership row grants a capability or shows a group that the service's  *)
(* answer withholds, nothing being as much as everything when the scope is *)
(* empty; an explicit tenant's rows are the cars it is entitled to.        *)
(***************************************************************************)
SuccessHolds ==
  cmd.at = "success" =>
    \A t \in cmd.asked :
      /\ cmd.kind = "check" /\ <<t, "itself">> \in steady => t \in trusted
      /\ cmd.kind = "diff" =>
           \A w \in { x \in Wallets : <<t, x>> \in steady /\ row[t, x] # NoRow } :
             /\ answer[t, w].via # "none"
             /\ row[t, w].role = "owner" => Capabilities \subseteq answer[t, w].caps
             /\ Sees(row[t, w].scope) \subseteq Sees(answer[t, w].scope)
      /\ cmd.kind = "vehicles" /\ <<t, "itself">> \in steady /\ fleet[t].explicit =>
           \A c \in { x \in Cars : <<t, x>> \in steady } :
             c \in fleet[t].entitled <=> c \in fleet[t].local
=============================================================================
