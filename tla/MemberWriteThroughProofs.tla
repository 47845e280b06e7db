---------------------- MODULE MemberWriteThroughProofs ----------------------
(***************************************************************************)
(* Proofs about MemberWriteThrough, for every set of concurrent edits,     *)
(* every list of group scopes, every vocabulary of the console and any     *)
(* number of console writes and failures.                                  *)
(***************************************************************************)
EXTENDS MemberWriteThrough, TLAPS

-----------------------------------------------------------------------------
(* What the helpers return. *)

(* A row with a role is not the absent row, nor such a record the absent one. *)
LEMMA RowIsThere ==
  ASSUME NEW row, row.role \in AppRoles
  PROVE  row # NoRow
<1>1. NoRow.role = ""
  BY DEF NoRow
<1> QED
  BY <1>1 DEF AppRoles

(* What a local row and a shared record consist of. *)
LEMMA RowFields ==
  ASSUME NEW row \in LocalRows
  PROVE  row.role \in AppRoles \union {""} /\ row.scope \in Scopes
<1>1. CASE row = NoRow
  <2>1. row.role = "" /\ row.scope = Unrestricted
    BY <1>1 DEF NoRow
  <2> QED
    BY <2>1 DEF Scopes
<1>2. CASE row \in [role : AppRoles, scope : Scopes]
  BY <1>2
<1> QED
  BY <1>1, <1>2 DEF LocalRows

LEMMA RecordFields ==
  ASSUME NEW record \in Records
  PROVE  /\ record.role \in AppRoles \union {"admin", ""}
         /\ record.scope \in Scopes
         /\ record.perms \in SUBSET (OwnerCaps \union ConsoleCaps)
<1>1. CASE record = NoRecord
  <2>1. record.role = "" /\ record.scope = Unrestricted /\ record.perms = {}
    BY <1>1 DEF NoRecord
  <2> QED
    BY <2>1 DEF Scopes
<1>2. CASE record \in [role : AppRoles \union {"admin"}, scope : Scopes, perms : SUBSET (OwnerCaps \union ConsoleCaps)]
  BY <1>2
<1> QED
  BY <1>1, <1>2 DEF Records

LEMMA RecordOfFields ==
  ASSUME NEW role \in AppRoles \union {"admin"}, NEW scope \in Scopes,
         NEW perms \in SUBSET (OwnerCaps \union ConsoleCaps),
         NEW record, record = [role |-> role, scope |-> scope, perms |-> perms]
  PROVE  record \in Records /\ record # NoRecord /\ record.scope = scope /\ record.perms = perms
<1>1. record \in Records
  BY DEF Records
<1>2. record.role = role /\ role # "" /\ NoRecord.role = ""
  BY DEF AppRoles, NoRecord
<1>3. record.scope = scope /\ record.perms = perms
  OBVIOUS
<1> QED
  BY <1>1, <1>2, <1>3

(* What a PUT carries is a membership: "the write path never sends an empty role". *)
LEMMA MergedIsARecord ==
  ASSUME NEW o, o.role \in AppRoles \union {""}, o.scope \in Scopes, NEW remote \in Records
  PROVE  /\ MergedWrite(o, remote) \in Records
         /\ MergedWrite(o, remote) # NoRecord
         /\ MergedWrite(o, remote).scope = o.scope
         /\ RolePermissions(o.role) \subseteq MergedWrite(o, remote).perms
         /\ remote.perms \subseteq MergedWrite(o, remote).perms
<1>1. remote.role \in AppRoles \union {"admin", ""} /\ remote.perms \subseteq OwnerCaps \union ConsoleCaps
  BY RecordFields
<1>2. OrMember(HigherLabel(o.role, remote.role)) \in AppRoles \union {"admin"}
  BY <1>1 DEF OrMember, HigherLabel, AppRoles
<1>3. remote.perms \union RolePermissions(o.role) \in SUBSET (OwnerCaps \union ConsoleCaps)
  BY <1>1 DEF RolePermissions
<1>4. PICK role \in AppRoles \union {"admin"} : role = OrMember(HigherLabel(o.role, remote.role))
  BY <1>2
<1>5. PICK perms \in SUBSET (OwnerCaps \union ConsoleCaps) : perms = remote.perms \union RolePermissions(o.role)
  BY <1>3
<1>6. PICK scope \in Scopes : scope = o.scope
  OBVIOUS
<1>7. MergedWrite(o, remote) = [role |-> role, scope |-> scope, perms |-> perms]
  BY <1>4, <1>5, <1>6 DEF MergedWrite
<1>8. /\ MergedWrite(o, remote) \in Records /\ MergedWrite(o, remote) # NoRecord
      /\ MergedWrite(o, remote).scope = scope /\ MergedWrite(o, remote).perms = perms
  BY ONLY <1>7, RecordOfFields
<1> QED
  BY <1>5, <1>6, <1>8

-----------------------------------------------------------------------------
(***************************************************************************)
(* The inductive invariant.  What an edit leaves behind depends on what it *)
(* was asked, on what it did to the local row before it wrote the shared   *)
(* record, and on whether anybody else wrote in between.                   *)
(***************************************************************************)
(* Each stage belongs to one kind of edit; a grant names a role. *)
Fits(stage, o) ==
  /\ stage = "upsertLocal" => o.kind = "grant"
  /\ stage \in {"checkLocal", "updateLocal", "readRole"} => o.kind = "scope"
  /\ stage \in {"readShared", "put"} => o.kind \in {"grant", "scope"}
  /\ stage \in {"deleteShared", "deleteLocal"} => o.kind = "remove"
  /\ o.kind = "grant" => o.role \in AppRoles /\ (o.role = "owner" => o.scope = Unrestricted)

StageFits == \A e \in Editors : Fits(pc[e], op[e])

(* An edit that is alone is the only one running. *)
AloneIsOnly ==
  \A e \in Editors : alone[e] => pc[e] # "idle" /\ \A f \in Editors : pc[f] # "idle" => f = e

(* A record that is not mixed was written by edits one after the other. *)
UnmixedIsSequential ==
  ~mixed => \A e, f \in Editors : pc[e] # "idle" /\ pc[f] # "idle" => e = f

(* A revocation drops the listing only after the access. *)
AccessGoesFirst ==
  \A e \in Editors : pc[e] = "deleteLocal" /\ (alone[e] \/ ~mixed) => shared = NoRecord

(* The local row, once an edit that is alone has written it, is what the   *)
(* edit carries to the shared record.                                      *)
LocalAsAsked ==
  \A e \in Editors : alone[e] /\ op[e].kind \in {"grant", "scope"} =>
    /\ pc[e] \in {"readRole", "readShared", "put", "reply"} /\ local # NoRow =>
         local.scope = op[e].scope
    /\ pc[e] \in {"readShared", "put", "reply"} =>
         local.role = op[e].role /\ (op[e].kind = "grant" => local # NoRow)

(* A grant lists the member before it gives access. *)
GrantIsListed ==
  \A e \in Editors : op[e].kind = "grant" /\ pc[e] \in {"readShared", "put"} /\ ~mixed => local # NoRow

(* What an edit that ran alone has done by the time it replies. *)
DoneInBoth ==
  \A e \in Editors : alone[e] /\ pc[e] = "reply" =>
    /\ op[e].kind \in {"grant", "scope"} =>
         /\ shared # NoRecord /\ shared.scope = op[e].scope
         /\ RolePermissions(op[e].role) \subseteq shared.perms
    /\ op[e].kind = "remove" => local = NoRow /\ shared = NoRecord

(* Nothing runs while the last edit still counts as settled. *)
SettledIsQuiet == settled # "none" => \A e \in Editors : pc[e] = "idle"

IInv ==
  /\ TypeOK
  /\ StageFits
  /\ AloneIsOnly
  /\ UnmixedIsSequential
  /\ AccessGoesFirst
  /\ LocalAsAsked
  /\ GrantIsListed
  /\ DoneInBoth
  /\ SettledIsQuiet
  /\ CapabilitiesSurvive
  /\ NobodyInUnlisted
  /\ EditsReachBothStores

-----------------------------------------------------------------------------
(* Type correctness.  That a grant names a role is needed for the row it writes. *)

LEMMA InitTypeOK == Init => TypeOK
<1> SUFFICES ASSUME Init
             PROVE  TypeOK
  OBVIOUS
<1>1. local \in LocalRows
  BY DEF Init, LocalRows, AppRoles, Scopes
<1>2. shared \in Records
  BY DEF Init, Records, AppRoles, Scopes
<1>3. NoOp \in [kind : {"none", "grant", "scope", "remove"}, role : AppRoles \union {""}, scope : Scopes]
  BY DEF NoOp, Scopes
<1>4. NoRecord \in Records
  BY DEF Records
<1> QED
  BY <1>1, <1>2, <1>3, <1>4 DEF Init, TypeOK, Stages

LEMMA NextTypeOK == TypeOK /\ StageFits /\ [Next]_vars => TypeOK'
<1> SUFFICES ASSUME TypeOK, StageFits, [Next]_vars
             PROVE  TypeOK'
  OBVIOUS
<1> USE DEF TypeOK, Stages, stores, request, bounds
<1>1. NoOp \in [kind : {"none", "grant", "scope", "remove"}, role : AppRoles \union {""}, scope : Scopes]
  BY DEF NoOp, Scopes
<1>2. NoRecord \in Records /\ NoRow \in LocalRows
  BY DEF Records, LocalRows
<1>3. CASE Console
  <2>1. shared' \in Records /\ shared'.perms \in SUBSET (OwnerCaps \union ConsoleCaps)
    BY <1>3, RecordFields DEF Console
  <2> QED
    BY <1>3, <2>1 DEF Console
<1>4. ASSUME NEW e \in Editors, Ask(e)
      PROVE  TypeOK'
  <2>1. ASSUME NEW role \in AppRoles, NEW scope \in Scopes, GrantMember(e, role, scope)
        PROVE  TypeOK'
    BY <2>1 DEF GrantMember, Begin, GrantScope, Scopes
  <2>2. ASSUME NEW scope \in Scopes, ChangeMemberScope(e, scope)
        PROVE  TypeOK'
    BY <2>2 DEF ChangeMemberScope, Begin
  <2>3. CASE RemoveMemberEverywhere(e)
    BY <2>3 DEF RemoveMemberEverywhere, Begin, Scopes
  <2> QED
    BY <1>4, <2>1, <2>2, <2>3 DEF Ask
<1>5. ASSUME NEW e \in Editors, AddMember(e)
      PROVE  TypeOK'
  <2>1. op[e].role \in AppRoles /\ op[e].scope \in Scopes
    BY <1>5 DEF AddMember, StageFits, Fits
  <2> QED
    BY <1>5, <2>1 DEF AddMember, UpsertRow, Goto, LocalRows, Scopes
<1>6. ASSUME NEW e \in Editors, CheckLocal(e)
      PROVE  TypeOK'
  BY <1>6 DEF CheckLocal, Goto
<1>7. ASSUME NEW e \in Editors, RefuseLimitedOwner(e)
      PROVE  TypeOK'
  BY <1>7, <1>1, <1>2 DEF RefuseLimitedOwner, Finish
<1>8. ASSUME NEW e \in Editors, UpdateLocal(e)
      PROVE  TypeOK'
  BY <1>8 DEF UpdateLocal, UpdateScope, Goto, LocalRows, NoRow
<1>9. ASSUME NEW e \in Editors, ReadRole(e)
      PROVE  TypeOK'
  <2>1. local.role \in AppRoles \union {""}
    BY RowFields
  <2> QED
    BY <1>9, <2>1 DEF ReadRole, Goto
<1>10. ASSUME NEW e \in Editors, LookupFails(e)
       PROVE  TypeOK'
  BY <1>10 DEF LookupFails
<1>11. ASSUME NEW e \in Editors, ReadShared(e)
       PROVE  TypeOK'
  BY <1>11 DEF ReadShared, Goto
<1>12. ASSUME NEW e \in Editors, Put(e)
       PROVE  TypeOK'
  <2>1. MergedWrite(op[e], seen[e]) \in Records
    BY MergedIsARecord
  <2>2. mixed' \in BOOLEAN
    BY <1>12, Zenon DEF Put, AdmitsUnlisted
  <2> QED
    BY <1>12, <2>1, <2>2 DEF Put, Goto
<1>13. ASSUME NEW e \in Editors, DeleteShared(e)
       PROVE  TypeOK'
  BY <1>13, <1>2 DEF DeleteShared, Goto
<1>14. ASSUME NEW e \in Editors, RemoveMember(e)
       PROVE  TypeOK'
  BY <1>14, <1>2 DEF RemoveMember, DeleteRows, Goto
<1>15. ASSUME NEW e \in Editors, Reply(e)
       PROVE  TypeOK'
  BY <1>15, <1>1, <1>2 DEF Reply, Finish
<1>16. ASSUME NEW e \in Editors, Fail(e)
       PROVE  TypeOK'
  BY <1>16, <1>1, <1>2 DEF Fail, Finish
<1>17. CASE UNCHANGED vars
  BY <1>17 DEF vars
<1> QED
  BY <1>3, <1>4, <1>5, <1>6, <1>7, <1>8, <1>9, <1>10, <1>11, <1>12, <1>13, <1>14, <1>15, <1>16, <1>17
     DEF Next, Step

-----------------------------------------------------------------------------
(* What the console gave.  The promise is inductive by itself: it is kept  *)
(* by the merge of a PUT, and by its check that nobody wrote in between.   *)

LEMMA NextCapabilities == TypeOK /\ CapabilitiesSurvive /\ [Next]_vars => CapabilitiesSurvive'
<1> SUFFICES ASSUME TypeOK, CapabilitiesSurvive, [Next]_vars
             PROVE  CapabilitiesSurvive'
  OBVIOUS
<1> USE DEF CapabilitiesSurvive
<1>1. CASE Console
  BY <1>1 DEF Console
<1>2. ASSUME NEW e \in Editors, Put(e)
      PROVE  CapabilitiesSurvive'
  <2>1. op[e].role \in AppRoles \union {""} /\ op[e].scope \in Scopes /\ seen[e] \in Records
    BY DEF TypeOK
  <2>2. shared' = MergedWrite(op[e], seen[e]) /\ given' = (IF seen[e] = shared THEN given ELSE {})
    BY <1>2 DEF Put
  <2>3. seen[e].perms \subseteq shared'.perms
    BY <2>1, <2>2, MergedIsARecord
  <2> QED
    BY <2>2, <2>3
<1>3. ASSUME NEW e \in Editors, DeleteShared(e)
      PROVE  CapabilitiesSurvive'
  BY <1>3 DEF DeleteShared
<1>4. ASSUME NEW e \in Editors, Ask(e) \/ Step(e) \/ Fail(e), ~Put(e), ~DeleteShared(e)
      PROVE  CapabilitiesSurvive'
  <2>1. UNCHANGED <<shared, given>>
    BY <1>4 DEF Ask, GrantMember, ChangeMemberScope, RemoveMemberEverywhere, Begin, Step, AddMember, CheckLocal,
                RefuseLimitedOwner, UpdateLocal, ReadRole, LookupFails, ReadShared, RemoveMember, Reply, Fail,
                stores
  <2> QED
    BY <2>1
<1>5. CASE UNCHANGED vars
  BY <1>5 DEF vars, stores
<1> QED
  BY <1>1, <1>2, <1>3, <1>4, <1>5 DEF Next

-----------------------------------------------------------------------------
(* Which edits run next to whom. *)

Company == AloneIsOnly /\ UnmixedIsSequential /\ SettledIsQuiet

(* An edit that goes on changes nothing about who runs; a removal may      *)
(* unmix the record, if it is alone.                                       *)
LEMMA MoveKeepsCompany ==
  ASSUME TypeOK, Company, NEW e \in Editors, pc[e] # "idle",
         NEW stage \in Stages \ {"idle"}, pc' = [pc EXCEPT ![e] = stage],
         \A f \in Editors : alone'[f] => alone[f],
         ~mixed' => ~mixed \/ alone[e],
         UNCHANGED settled
  PROVE  Company'
<1>1. pc \in [Editors -> Stages] /\ settled = "none"
  BY DEF TypeOK, Company, SettledIsQuiet
<1>2. \A f \in Editors : pc'[f] # "idle" => pc[f] # "idle"
  BY <1>1
<1>3. \A f \in Editors : pc[f] # "idle" => pc'[f] # "idle"
  BY <1>1
<1>4. AloneIsOnly'
  BY <1>2, <1>3 DEF Company, AloneIsOnly
<1>5. UnmixedIsSequential'
  BY <1>2 DEF Company, AloneIsOnly, UnmixedIsSequential
<1> QED
  BY <1>1, <1>4, <1>5 DEF Company, SettledIsQuiet

(* Nor does one that ends for those that go on. *)
LEMMA EndKeepsCompany ==
  ASSUME TypeOK, Company, NEW e \in Editors, pc[e] # "idle", Finish(e), UNCHANGED mixed,
         settled' \in {"none", settled} \/ alone[e]
  PROVE  Company'
<1>1. /\ pc \in [Editors -> Stages] /\ settled = "none"
      /\ \A f \in Editors : pc'[f] # "idle" => pc[f] # "idle" /\ f # e
  BY DEF TypeOK, Company, SettledIsQuiet, Finish
<1>2. \A f \in Editors : alone'[f] => alone[f] /\ f # e /\ pc'[f] = pc[f]
  BY DEF TypeOK, Finish
<1>3. AloneIsOnly'
  BY <1>1, <1>2 DEF Company, AloneIsOnly
<1>4. UnmixedIsSequential'
  BY <1>1 DEF Company, UnmixedIsSequential
<1>5. SettledIsQuiet'
  BY <1>1 DEF Company, AloneIsOnly, SettledIsQuiet
<1> QED
  BY <1>3, <1>4, <1>5 DEF Company

(* One that begins is alone if nobody else runs, and mixes the record if somebody does. *)
LEMMA BeginKeepsCompany ==
  ASSUME TypeOK, Company, NEW e \in Editors, NEW o, NEW stage \in Stages \ {"idle"}, Begin(e, o, stage)
  PROVE  Company'
<1>1. pc \in [Editors -> Stages] /\ pc[e] = "idle" /\ pc' = [pc EXCEPT ![e] = stage]
  BY DEF TypeOK, Begin
<1>2. pc'[e] # "idle" /\ \A f \in Editors : pc'[f] # "idle" => f = e \/ pc[f] # "idle"
  BY <1>1
<1>3. \A f \in Editors : alone'[f] => f = e /\ \A g \in Editors : pc[g] = "idle"
  BY DEF Begin
<1>4. ~mixed' => ~mixed /\ \A g \in Editors : pc[g] = "idle"
  BY DEF Begin
<1>5. AloneIsOnly'
  BY <1>2, <1>3 DEF AloneIsOnly
<1>6. UnmixedIsSequential'
  BY <1>2, <1>4 DEF UnmixedIsSequential
<1>7. SettledIsQuiet'
  BY DEF Begin, SettledIsQuiet
<1> QED
  BY <1>5, <1>6, <1>7 DEF Company

LEMMA InitCompany == Init => Company
BY DEF Init, Company, AloneIsOnly, UnmixedIsSequential, SettledIsQuiet

LEMMA NextCompany == TypeOK /\ Company /\ [Next]_vars => Company'
<1> SUFFICES ASSUME TypeOK, Company, [Next]_vars
             PROVE  Company'
  OBVIOUS
<1>1. CASE Console
  BY <1>1 DEF Console, request, TypeOK, Company, AloneIsOnly, UnmixedIsSequential, SettledIsQuiet
<1>2. ASSUME NEW e \in Editors, Ask(e)
      PROVE  Company'
  <2>1. ASSUME NEW role \in AppRoles, NEW scope \in Scopes, GrantMember(e, role, scope)
        PROVE  Company'
    BY <2>1, BeginKeepsCompany DEF GrantMember, Stages
  <2>2. ASSUME NEW scope \in Scopes, ChangeMemberScope(e, scope)
        PROVE  Company'
    BY <2>2, BeginKeepsCompany DEF ChangeMemberScope, Stages
  <2>3. CASE RemoveMemberEverywhere(e)
    BY <2>3, BeginKeepsCompany DEF RemoveMemberEverywhere, Stages
  <2> QED
    BY <1>2, <2>1, <2>2, <2>3 DEF Ask
<1>3. ASSUME NEW e \in Editors, Step(e) \/ Fail(e), ~(RefuseLimitedOwner(e) \/ Reply(e) \/ Fail(e))
      PROVE  Company'
  <2>1. PICK stage \in Stages \ {"idle"} : pc' = [pc EXCEPT ![e] = stage]
    BY <1>3 DEF Step, AddMember, CheckLocal, UpdateLocal, ReadRole, LookupFails, ReadShared, Put,
                DeleteShared, RemoveMember, Goto, Stages
  <2>2. pc[e] # "idle" /\ UNCHANGED settled
    BY <1>3 DEF Step, AddMember, CheckLocal, UpdateLocal, ReadRole, LookupFails, ReadShared, Put,
                DeleteShared, RemoveMember, Goto
  <2>3. alone' = alone \/ alone' = [alone EXCEPT ![e] = FALSE]
    BY <1>3 DEF Step, AddMember, CheckLocal, UpdateLocal, ReadRole, LookupFails, ReadShared, Put,
                DeleteShared, RemoveMember, Goto
  <2>4. ~mixed' => ~mixed \/ alone[e]
    BY <1>3 DEF Step, AddMember, CheckLocal, UpdateLocal, ReadRole, LookupFails, ReadShared, Put,
                DeleteShared, RemoveMember, Goto
  <2>5. \A f \in Editors : alone'[f] => alone[f]
    BY <2>3 DEF TypeOK
  <2> QED
    BY <2>1, <2>2, <2>4, <2>5, MoveKeepsCompany
<1>4. ASSUME NEW e \in Editors, RefuseLimitedOwner(e) \/ Reply(e) \/ Fail(e)
      PROVE  Company'
  <2>1. pc[e] # "idle" /\ Finish(e) /\ UNCHANGED mixed
    BY <1>4 DEF RefuseLimitedOwner, Reply, Fail
  <2>2. settled' \in {"none", settled} \/ alone[e]
    BY <1>4 DEF RefuseLimitedOwner, Reply, Fail
  <2> QED
    BY <2>1, <2>2, EndKeepsCompany
<1>5. CASE UNCHANGED vars
  BY <1>5 DEF vars, request, Company, AloneIsOnly, UnmixedIsSequential, SettledIsQuiet
<1> QED
  BY <1>1, <1>2, <1>3, <1>4, <1>5 DEF Next

-----------------------------------------------------------------------------
(* What each edit is at. *)

LEMMA InitStageFits == Init => StageFits
<1>1. NoOp.kind = "none"
  BY DEF NoOp
<1>2. Init => \A e \in Editors : pc[e] = "idle" /\ op[e] = NoOp
  BY DEF Init
<1> QED
  BY <1>1, <1>2 DEF StageFits, Fits

LEMMA NextStageFits == TypeOK /\ StageFits /\ [Next]_vars => StageFits'
<1> SUFFICES ASSUME TypeOK, StageFits, [Next]_vars
             PROVE  StageFits'
  OBVIOUS
<1> USE DEF stores, request, bounds
<1>1. CASE Console \/ UNCHANGED vars
  BY <1>1 DEF Console, vars, StageFits
<1>2. ASSUME NEW e \in Editors, \A f \in Editors \ {e} : pc'[f] = pc[f] /\ op'[f] = op[f],
             Fits(pc'[e], op'[e])
      PROVE  StageFits'
  BY <1>2 DEF StageFits
<1>3. ASSUME NEW e \in Editors, NEW stage, NEW o, Begin(e, o, stage), Fits(stage, o)
      PROVE  StageFits'
  <2>1. pc'[e] = stage /\ op'[e] = o /\ \A f \in Editors \ {e} : pc'[f] = pc[f] /\ op'[f] = op[f]
    BY <1>3 DEF Begin, TypeOK
  <2> QED
    BY <1>2, <1>3, <2>1
<1>4. ASSUME NEW e \in Editors, Ask(e)
      PROVE  StageFits'
  <2>1. ASSUME NEW role \in AppRoles, NEW scope \in Scopes, GrantMember(e, role, scope)
        PROVE  StageFits'
    BY <1>3, <2>1 DEF GrantMember, Fits, GrantScope
  <2>2. ASSUME NEW scope \in Scopes, ChangeMemberScope(e, scope)
        PROVE  StageFits'
    BY <1>3, <2>2 DEF ChangeMemberScope, Fits
  <2>3. CASE RemoveMemberEverywhere(e)
    BY <1>3, <2>3 DEF RemoveMemberEverywhere, Fits
  <2> QED
    BY <1>4, <2>1, <2>2, <2>3 DEF Ask
<1>5. ASSUME NEW e \in Editors, NEW stage, pc' = [pc EXCEPT ![e] = stage], UNCHANGED op, Fits(stage, op[e])
      PROVE  StageFits'
  BY <1>2, <1>5 DEF TypeOK
<1>6. ASSUME NEW e \in Editors, Step(e) \/ Fail(e), ~ReadRole(e), ~Finish(e)
      PROVE  StageFits'
  <2>1. Fits(pc[e], op[e])
    BY DEF StageFits
  <2>2. PICK stage : pc' = [pc EXCEPT ![e] = stage] /\ UNCHANGED op /\ Fits(stage, op[e])
    <3>1. CASE AddMember(e)
      BY <2>1, <3>1 DEF AddMember, Goto, Fits
    <3>2. CASE CheckLocal(e)
      BY <2>1, <3>2 DEF CheckLocal, Goto, Fits
    <3>3. CASE UpdateLocal(e)
      BY <2>1, <3>3 DEF UpdateLocal, Goto, Fits
    <3>4. CASE LookupFails(e)
      BY <2>1, <3>4 DEF LookupFails, Fits
    <3>5. CASE ReadShared(e)
      BY <2>1, <3>5 DEF ReadShared, Goto, Fits
    <3>6. CASE Put(e)
      BY <2>1, <3>6 DEF Put, Goto, Fits
    <3>7. CASE DeleteShared(e)
      BY <2>1, <3>7 DEF DeleteShared, Goto, Fits
    <3>8. CASE RemoveMember(e)
      BY <2>1, <3>8 DEF RemoveMember, Goto, Fits
    <3> QED
      BY <1>6, <3>1, <3>2, <3>3, <3>4, <3>5, <3>6, <3>7, <3>8 DEF Step, RefuseLimitedOwner, Reply, Fail
  <2> QED
    BY <1>5, <2>2
<1>7. ASSUME NEW e \in Editors, ReadRole(e)
      PROVE  StageFits'
  <2>1. pc[e] = "readRole" /\ pc' = [pc EXCEPT ![e] = "readShared"]
    BY <1>7 DEF ReadRole, Goto
  <2>2. op'[e].kind = op[e].kind /\ \A f \in Editors \ {e} : op'[f] = op[f]
    BY <1>7 DEF ReadRole, TypeOK
  <2>3. op[e].kind = "scope"
    BY <2>1 DEF StageFits, Fits
  <2> QED
    BY <1>2, <2>1, <2>2, <2>3 DEF Fits, TypeOK
<1>8. ASSUME NEW e \in Editors, Finish(e)
      PROVE  StageFits'
  <2>1. /\ pc'[e] = "idle" /\ op'[e].kind = "none"
        /\ \A f \in Editors \ {e} : pc'[f] = pc[f] /\ op'[f] = op[f]
    BY <1>8 DEF Finish, NoOp, TypeOK
  <2> QED
    BY <1>2, <2>1 DEF Fits
<1> QED
  BY <1>1, <1>4, <1>6, <1>7, <1>8 DEF Next

-----------------------------------------------------------------------------
(* What is in the two stores. *)

(* Next to an edit that takes a step nobody is alone, and whoever else runs mixes the record. *)
LEMMA Undisturbed ==
  ASSUME TypeOK, Company, NEW e \in Editors, Ask(e) \/ Step(e) \/ Fail(e), NEW f \in Editors \ {e}
  PROVE  ~alone'[f] /\ (pc'[f] # "idle" => mixed')
<1>1. ASSUME NEW o, NEW stage, Begin(e, o, stage)
      PROVE  ~alone'[f] /\ (pc'[f] # "idle" => mixed')
  <2>1. ~alone'[f]
    BY <1>1 DEF Begin
  <2>2. pc'[f] = pc[f]
    BY <1>1 DEF Begin, TypeOK
  <2>3. pc[f] # "idle" => mixed'
    BY <1>1 DEF Begin
  <2> QED
    BY <2>1, <2>2, <2>3
<1>2. ASSUME pc[e] # "idle", \E stage : pc' = [pc EXCEPT ![e] = stage],
             alone' = alone \/ alone' = [alone EXCEPT ![e] = FALSE],
             ~mixed' => ~mixed \/ alone[e]
      PROVE  ~alone'[f] /\ (pc'[f] # "idle" => mixed')
  <2>1. pc'[f] = pc[f] /\ alone'[f] = alone[f]
    BY <1>2 DEF TypeOK
  <2>2. ~alone[f]
    BY <1>2 DEF Company, AloneIsOnly
  <2>3. pc[f] # "idle" => mixed /\ ~alone[e]
    BY <1>2 DEF Company, AloneIsOnly, UnmixedIsSequential
  <2> QED
    BY <1>2, <2>1, <2>2, <2>3
<1>3. CASE Ask(e)
  BY <1>1, <1>3 DEF Ask, GrantMember, ChangeMemberScope, RemoveMemberEverywhere
<1>4. CASE Step(e) \/ Fail(e)
  <2> USE DEF Step, Fail, AddMember, CheckLocal, RefuseLimitedOwner, UpdateLocal, ReadRole, LookupFails,
              ReadShared, Put, DeleteShared, RemoveMember, Reply, Goto, Finish
  <2>1. pc[e] # "idle"
    BY <1>4
  <2>2. \E stage : pc' = [pc EXCEPT ![e] = stage]
    BY <1>4
  <2>3. alone' = alone \/ alone' = [alone EXCEPT ![e] = FALSE]
    BY <1>4
  <2>4. ~mixed' => ~mixed \/ alone[e]
    BY <1>4
  <2> QED
    BY <1>2, <2>1, <2>2, <2>3, <2>4
<1> QED
  BY <1>3, <1>4

Stores ==
  AccessGoesFirst /\ LocalAsAsked /\ GrantIsListed /\ DoneInBoth /\ NobodyInUnlisted /\ EditsReachBothStores

LEMMA InitStores == Init => Stores
<1> SUFFICES ASSUME Init
             PROVE  Stores
  OBVIOUS
<1>1. \A e \in Editors : pc[e] = "idle" /\ ~alone[e]
  BY DEF Init
<1>2. settled = "none"
  BY DEF Init
<1>3. NobodyInUnlisted
  BY DEF Init, NobodyInUnlisted
<1> QED
  BY <1>1, <1>2, <1>3 DEF Stores, AccessGoesFirst, LocalAsAsked, GrantIsListed, DoneInBoth, EditsReachBothStores

(* An edit at work: what the stores say of it is about that edit alone. *)
LEMMA StoresOfOne ==
  ASSUME TypeOK, Company, NEW e \in Editors, Ask(e) \/ Step(e) \/ Fail(e),
         pc'[e] = "deleteLocal" /\ (alone'[e] \/ ~mixed') => shared' = NoRecord,
         alone'[e] /\ op'[e].kind \in {"grant", "scope"} =>
           /\ pc'[e] \in {"readRole", "readShared", "put", "reply"} /\ local' # NoRow =>
                local'.scope = op'[e].scope
           /\ pc'[e] \in {"readShared", "put", "reply"} =>
                local'.role = op'[e].role /\ (op'[e].kind = "grant" => local' # NoRow),
         op'[e].kind = "grant" /\ pc'[e] \in {"readShared", "put"} /\ ~mixed' => local' # NoRow,
         alone'[e] /\ pc'[e] = "reply" =>
           /\ op'[e].kind \in {"grant", "scope"} =>
                /\ shared' # NoRecord /\ shared'.scope = op'[e].scope
                /\ RolePermissions(op'[e].role) \subseteq shared'.perms
           /\ op'[e].kind = "remove" => local' = NoRow /\ shared' = NoRecord
  PROVE  AccessGoesFirst' /\ LocalAsAsked' /\ GrantIsListed' /\ DoneInBoth'
<1>1. \A f \in Editors : f # e => ~alone'[f] /\ (pc'[f] # "idle" => mixed')
  BY Undisturbed
<1>2. AccessGoesFirst'
  BY <1>1 DEF AccessGoesFirst
<1>3. LocalAsAsked'
  BY <1>1 DEF LocalAsAsked
<1>4. DoneInBoth'
  BY <1>1 DEF DoneInBoth
<1>5. GrantIsListed'
  BY <1>1 DEF GrantIsListed
<1> QED
  BY <1>2, <1>3, <1>4, <1>5

LEMMA NextStores == TypeOK /\ StageFits /\ Company /\ Stores /\ [Next]_vars => Stores'
<1> SUFFICES ASSUME TypeOK, StageFits, Company, Stores, [Next]_vars
             PROVE  Stores'
  OBVIOUS
<1> USE DEF stores, request, bounds
<1>1. CASE Console
  <2>1. \A e \in Editors : ~alone'[e]
    BY <1>1 DEF Console
  <2>2. mixed' /\ settled' = "none"
    BY <1>1 DEF Console
  <2> QED
    BY <2>1, <2>2 DEF Stores, AccessGoesFirst, LocalAsAsked, GrantIsListed, DoneInBoth, NobodyInUnlisted, EditsReachBothStores
<1>2. ASSUME NEW e \in Editors, NEW o, NEW stage \in {"upsertLocal", "checkLocal", "deleteShared"},
             Ask(e), Begin(e, o, stage)
      PROVE  Stores'
  <2>1. pc'[e] = stage
    BY <1>2 DEF Begin, TypeOK
  <2>2. AccessGoesFirst' /\ LocalAsAsked' /\ GrantIsListed' /\ DoneInBoth'
    BY <1>2, <2>1, StoresOfOne
  <2>3. NobodyInUnlisted' /\ EditsReachBothStores'
    BY <1>2 DEF Begin, Stores, NobodyInUnlisted, EditsReachBothStores
  <2> QED
    BY <2>2, <2>3 DEF Stores
<1>3. ASSUME NEW e \in Editors, Ask(e)
      PROVE  Stores'
  <2>1. ASSUME NEW role \in AppRoles, NEW scope \in Scopes, GrantMember(e, role, scope)
        PROVE  Stores'
    BY <1>2, <1>3, <2>1 DEF GrantMember
  <2>2. ASSUME NEW scope \in Scopes, ChangeMemberScope(e, scope)
        PROVE  Stores'
    BY <1>2, <1>3, <2>2 DEF ChangeMemberScope
  <2>3. CASE RemoveMemberEverywhere(e)
    BY <1>2, <1>3, <2>3 DEF RemoveMemberEverywhere
  <2> QED
    BY <1>3, <2>1, <2>2, <2>3 DEF Ask
<1>4. ASSUME UNCHANGED settled, \E e \in Editors : pc[e] # "idle"
      PROVE  EditsReachBothStores'
  BY <1>4 DEF Company, SettledIsQuiet, EditsReachBothStores
<1>5. ASSUME NEW e \in Editors, AddMember(e)
      PROVE  Stores'
  <2>1. pc[e] = "upsertLocal" /\ pc'[e] = "readShared" /\ UNCHANGED <<shared, op, settled>>
    BY <1>5 DEF AddMember, Goto, TypeOK
  <2>2. op[e].kind = "grant" /\ op[e].role \in AppRoles /\ (op[e].role = "owner" => op[e].scope = Unrestricted)
    BY <2>1 DEF StageFits, Fits
  <2>3. local'.role = op[e].role /\ local'.scope = op[e].scope
    BY <1>5, <2>2 DEF AddMember, UpsertRow
  <2>4. local' # NoRow
    BY <2>2, <2>3, RowIsThere
  <2>5. AccessGoesFirst' /\ LocalAsAsked' /\ GrantIsListed' /\ DoneInBoth'
    BY <1>5, <2>1, <2>2, <2>3, <2>4, StoresOfOne DEF Step
  <2> QED
    BY <1>4, <2>1, <2>4, <2>5 DEF Stores, NobodyInUnlisted
<1>6. ASSUME NEW e \in Editors, CheckLocal(e)
      PROVE  Stores'
  <2>1. /\ pc[e] = "checkLocal" /\ pc'[e] = (IF local = NoRow THEN "readRole" ELSE "updateLocal")
        /\ UNCHANGED <<local, shared, op, mixed, settled>>
    BY <1>6 DEF CheckLocal, Goto, TypeOK
  <2>2. AccessGoesFirst' /\ LocalAsAsked' /\ GrantIsListed' /\ DoneInBoth'
    BY <1>6, <2>1, StoresOfOne DEF Step
  <2> QED
    BY <1>4, <2>1, <2>2 DEF Stores, NobodyInUnlisted
<1>7. ASSUME NEW e \in Editors, UpdateLocal(e)
      PROVE  Stores'
  <2>1. /\ pc[e] = "updateLocal" /\ pc'[e] = "readRole"
        /\ UNCHANGED <<shared, op, mixed, settled>>
    BY <1>7 DEF UpdateLocal, Goto, TypeOK
  <2>2. local = NoRow => local' = NoRow
    BY <1>7 DEF UpdateLocal, UpdateScope
  <2>3. local # NoRow => local' # NoRow /\ local'.scope = op[e].scope
    <3>1. SUFFICES ASSUME local # NoRow
                   PROVE  local' # NoRow /\ local'.scope = op[e].scope
      OBVIOUS
    <3>2. local \in [role : AppRoles, scope : Scopes]
      BY <3>1 DEF TypeOK, LocalRows
    <3>3. local' = [local EXCEPT !.scope = op[e].scope]
      BY <1>7, <3>1 DEF UpdateLocal, UpdateScope
    <3>4. local'.role \in AppRoles /\ local'.scope = op[e].scope
      BY <3>2, <3>3
    <3> QED
      BY <3>4, RowIsThere
  <2>4. AccessGoesFirst' /\ LocalAsAsked' /\ GrantIsListed' /\ DoneInBoth'
    BY <1>7, <2>1, <2>2, <2>3, StoresOfOne DEF Step
  <2> QED
    BY <1>4, <2>1, <2>3, <2>4 DEF Stores, NobodyInUnlisted
<1>8. ASSUME NEW e \in Editors, ReadRole(e)
      PROVE  Stores'
  <2>1. /\ pc[e] = "readRole" /\ pc'[e] = "readShared"
        /\ UNCHANGED <<local, shared, alone, mixed, settled>>
    BY <1>8 DEF ReadRole, Goto, TypeOK
  <2>2. /\ op'[e].role = local.role
        /\ op'[e].kind = op[e].kind /\ op'[e].scope = op[e].scope
    BY <1>8 DEF ReadRole, TypeOK
  <2>3. op[e].kind = "scope"
    BY <2>1 DEF StageFits, Fits
  <2>4. alone[e] /\ local # NoRow => local.scope = op[e].scope
    BY <2>1, <2>3 DEF Stores, LocalAsAsked
  <2>5. AccessGoesFirst' /\ LocalAsAsked' /\ GrantIsListed' /\ DoneInBoth'
    BY <1>8, <2>1, <2>2, <2>3, <2>4, StoresOfOne DEF Step
  <2> QED
    BY <1>4, <2>1, <2>5 DEF Stores, NobodyInUnlisted
<1>9. ASSUME NEW e \in Editors, LookupFails(e)
      PROVE  Stores'
  <2>1. /\ pc[e] # "idle" /\ pc'[e] \in {"readRole", "readShared"} /\ ~alone'[e]
        /\ UNCHANGED <<local, shared, mixed, settled>>
    BY <1>9 DEF LookupFails, TypeOK
  <2>2. op'[e].kind = "scope"
    BY <1>9 DEF LookupFails, StageFits, Fits
  <2>3. AccessGoesFirst' /\ LocalAsAsked' /\ GrantIsListed' /\ DoneInBoth'
    BY <1>9, <2>1, <2>2, StoresOfOne DEF Step
  <2> QED
    BY <1>4, <2>1, <2>3 DEF Stores, NobodyInUnlisted
<1>10. ASSUME NEW e \in Editors, ReadShared(e)
       PROVE  Stores'
  <2>1. /\ pc[e] = "readShared" /\ pc'[e] = "put"
        /\ UNCHANGED <<local, shared, op, alone, mixed, settled>>
    BY <1>10 DEF ReadShared, Goto, TypeOK
  <2>2. AccessGoesFirst' /\ LocalAsAsked' /\ GrantIsListed' /\ DoneInBoth'
    BY <1>10, <2>1, StoresOfOne DEF Step, Stores, LocalAsAsked, GrantIsListed
  <2> QED
    BY <1>4, <2>1, <2>2 DEF Stores, NobodyInUnlisted
<1>11. ASSUME NEW e \in Editors, Put(e)
       PROVE  Stores'
  <2>1. /\ pc[e] = "put" /\ pc'[e] = "reply"
        /\ UNCHANGED <<local, op, alone, settled>>
    BY <1>11 DEF Put, Goto, TypeOK
  <2>2. op[e].role \in AppRoles \union {""} /\ op[e].scope \in Scopes /\ seen[e] \in Records
    BY DEF TypeOK
  <2>3. /\ shared' # NoRecord /\ shared'.scope = op[e].scope
        /\ RolePermissions(op[e].role) \subseteq shared'.perms
    BY <1>11, <2>2, MergedIsARecord DEF Put
  <2>4. op[e].kind \in {"grant", "scope"}
    BY <2>1 DEF StageFits, Fits
  <2>5. ~mixed' => local # NoRow
    <3>1. CASE op[e].kind = "scope"
      BY <1>11, <3>1 DEF Put, AdmitsUnlisted
    <3>2. CASE op[e].kind = "grant" /\ alone[e]
      BY <2>1, <3>2 DEF Stores, LocalAsAsked
    <3>3. CASE op[e].kind = "grant" /\ ~alone[e]
      <4>1. ~mixed' => ~mixed
        BY <1>11, <3>3 DEF Put
      <4> QED
        BY <2>1, <3>3, <4>1 DEF Stores, GrantIsListed
    <3> QED
      BY <2>4, <3>1, <3>2, <3>3
  <2>6. AccessGoesFirst' /\ LocalAsAsked' /\ GrantIsListed' /\ DoneInBoth'
    BY <1>11, <2>1, <2>3, <2>4, StoresOfOne DEF Step, Stores, LocalAsAsked
  <2> QED
    BY <1>4, <2>1, <2>5, <2>6 DEF Stores, NobodyInUnlisted
<1>12. ASSUME NEW e \in Editors, DeleteShared(e)
       PROVE  Stores'
  <2>1. /\ pc[e] = "deleteShared" /\ pc'[e] = "deleteLocal" /\ shared' = NoRecord
        /\ UNCHANGED <<local, op, alone, mixed, settled>>
    BY <1>12 DEF DeleteShared, Goto, TypeOK
  <2>2. AccessGoesFirst' /\ LocalAsAsked' /\ GrantIsListed' /\ DoneInBoth'
    BY <1>12, <2>1, StoresOfOne DEF Step
  <2> QED
    BY <1>4, <2>1, <2>2 DEF Stores, NobodyInUnlisted
<1>13. ASSUME NEW e \in Editors, RemoveMember(e)
       PROVE  Stores'
  <2>1. /\ pc[e] = "deleteLocal" /\ pc'[e] = "reply" /\ local' = NoRow /\ (~mixed' => ~mixed \/ alone[e])
        /\ UNCHANGED <<shared, op, alone, settled>>
    BY <1>13 DEF RemoveMember, DeleteRows, Goto, TypeOK
  <2>2. op[e].kind = "remove"
    BY <2>1 DEF StageFits, Fits
  <2>3. alone[e] \/ ~mixed => shared = NoRecord
    BY <2>1 DEF Stores, AccessGoesFirst
  <2>4. AccessGoesFirst' /\ LocalAsAsked' /\ GrantIsListed' /\ DoneInBoth'
    BY <1>13, <2>1, <2>2, <2>3, StoresOfOne DEF Step
  <2> QED
    BY <1>4, <2>1, <2>3, <2>4 DEF Stores, NobodyInUnlisted
<1>14. ASSUME NEW e \in Editors, RefuseLimitedOwner(e) \/ Reply(e) \/ Fail(e)
       PROVE  Stores'
  <2>1. /\ pc[e] # "idle" /\ pc'[e] = "idle" /\ ~alone'[e]
        /\ UNCHANGED <<local, shared, mixed>>
    BY <1>14 DEF RefuseLimitedOwner, Reply, Fail, Finish, TypeOK
  <2>2. AccessGoesFirst' /\ LocalAsAsked' /\ GrantIsListed' /\ DoneInBoth'
    BY <1>14, <2>1, StoresOfOne DEF Step
  <2>3. CASE Reply(e) /\ alone[e]
    <3>1. pc[e] = "reply" /\ settled' = op[e].kind
      BY <2>3 DEF Reply
    <3>2. EditsReachBothStores'
      BY <2>1, <2>3, <3>1 DEF Stores, LocalAsAsked, DoneInBoth, EditsReachBothStores
    <3> QED
      BY <2>1, <2>2, <3>2 DEF Stores, NobodyInUnlisted
  <2>4. CASE ~(Reply(e) /\ alone[e])
    <3>1. settled' = "none" \/ UNCHANGED settled
      BY <1>14, <2>4 DEF RefuseLimitedOwner, Reply, Fail
    <3>2. EditsReachBothStores'
      BY <1>4, <2>1, <3>1 DEF EditsReachBothStores
    <3> QED
      BY <2>1, <2>2, <3>2 DEF Stores, NobodyInUnlisted
  <2> QED
    BY <2>3, <2>4
<1>15. CASE UNCHANGED vars
  BY <1>15 DEF vars, Stores, AccessGoesFirst, LocalAsAsked, GrantIsListed, DoneInBoth, NobodyInUnlisted, EditsReachBothStores
<1> QED
  BY <1>1, <1>3, <1>5, <1>6, <1>7, <1>8, <1>9, <1>10, <1>11, <1>12, <1>13, <1>14, <1>15 DEF Next, Step

-----------------------------------------------------------------------------
(***************************************************************************)
(* The theorems.                                                           *)
(***************************************************************************)
LEMMA Invariant == Spec => []IInv
<1>1. Init => IInv
  BY InitTypeOK, InitStageFits, InitCompany, InitStores DEF IInv, Company, Stores, Init, CapabilitiesSurvive
<1>2. IInv /\ [Next]_vars => IInv'
  <2> SUFFICES ASSUME IInv, [Next]_vars
               PROVE  IInv'
    OBVIOUS
  <2>1. TypeOK' /\ StageFits' /\ Company' /\ Stores'
    BY NextTypeOK, NextStageFits, NextCompany, NextStores DEF IInv, Company, Stores
  <2>2. CapabilitiesSurvive'
    BY NextCapabilities DEF IInv
  <2> QED
    BY <2>1, <2>2 DEF IInv, Company, Stores
<1> QED
  BY <1>1, <1>2, PTL DEF Spec

(* Types: the PUT never carries an empty role, and never an unknown one. *)
THEOREM TypeCorrect == Spec => []TypeOK
BY Invariant, PTL DEF IInv

(* "An edit from this app must never strip a capability another surface    *)
(* granted": MergedWrite keeps what the request read, and a PUT over a     *)
(* record that changed since is where the promise ends.                    *)
THEOREM EditsKeepCapabilities == Spec => []CapabilitiesSurvive
BY Invariant, PTL DEF IInv

(* The ordering rule of member_writethrough.go: at whatever step a grant   *)
(* or a revocation stops, nobody is in the shared record unlisted, of      *)
(* those whose record no console, no overlap and no change of scope of an  *)
(* unlisted wallet wrote since the last lone grant or removal.             *)
THEOREM NeverMoreAccessThanListed == Spec => []NobodyInUnlisted
BY Invariant, PTL DEF IInv

(* An edit that ran alone and was reported done holds in both stores. *)
THEOREM DoneIsDoneInBoth == Spec => []EditsReachBothStores
BY Invariant, PTL DEF IInv

=============================================================================
