---------------------------- MODULE GeofenceInput ----------------------------
(***************************************************************************)
(* What a geofence's row says of the vehicles it is for: its scope and,    *)
(* for the scope "group", the groups (CreateGeofence, UpdateGeofence and   *)
(* normalizeGroups of geofence.go).  The groups are the tenancy service's, *)
(* which may drop one that a row names; a request checks them against the  *)
(* group index of its replica, a cached answer of that service             *)
(* (groupIndex of fleet_group.go).  An update reads the row, checks what   *)
(* it would become, and writes the columns that it changes.                *)
(***************************************************************************)
EXTENDS FiniteSets, Integers

CONSTANTS
  Writers,      \* requests that can overlap
  Servers,      \* replicas of this application
  Groups,       \* ids of groups
  IndexLife,    \* ticks a group index is kept, groupIndexTTL
  CallTime,     \* ticks a call, or a statement, may take
  MaxWrites     \* bound: requests made that write

VARIABLES
  row,         \* the geofence, a set of at most one
  known,       \* the tenant's groups
  index,       \* the group index of every replica, and how long it is kept yet
  writer,      \* the requests
  reply,       \* what a request was told of its groups in this step, and those it named
  there, away, \* history: ticks since the tenant had each group, or had it not
  knownThen,   \* history: the groups it had lately when the row was last written
  overlapped,  \* history: two updates of the row did
  writes

inputVars == <<row, known, index, writer, reply, there, away, knownThen, overlapped, writes>>

Scopes  == {"all", "group", "manual"}
Blank   == "blank"          \* no id, or no scope
Absent  == {"absent"}       \* the patch does not name groups
Nothing == [groups |-> {}, left |-> 0]
NoReply == [why |-> "none", groups |-> {}]
NewRow  == [scope |-> "all", groups |-> {}]

Idle ==
  [at |-> "idle", kind |-> "none", server |-> "none", was |-> "all", scope |-> "all",
   groups |-> {}, got |-> {}, age |-> 0]

-----------------------------------------------------------------------------
validScope(scope) == scope \in Scopes

dedupeNonEmpty(ids) == ids \ {Blank}

(* Mutant: groups that the patch leaves out are not checked against its scope. *)
GroupsAsPatched(old, ids) == IF ids = Absent THEN {} ELSE ids

(* What the patch leaves out stays as it was read. *)
GroupsAsked(old, ids) == IF ids = Absent THEN old.groups ELSE ids

(* A scope that is left out is the row's, of a new row "all". *)
ScopeAsked(old, scope) == IF scope = Blank THEN old.scope ELSE scope

(* Mutant: the groups of another scope are kept. *)
KeepGroups(scope, ids) ==
  [groups |-> dedupeNonEmpty(ids),
   next   |-> IF scope # "group" THEN "save" ELSE IF dedupeNonEmpty(ids) = {} THEN "needs groups" ELSE "index"]

(* Only the scope "group" has groups, some, which the index is asked for. *)
normalizeGroups(scope, ids) ==
  IF scope # "group" THEN [groups |-> {}, next |-> "save"]
  ELSE [groups |-> dedupeNonEmpty(ids),
        next   |-> IF dedupeNonEmpty(ids) = {} THEN "needs groups" ELSE "index"]

AllExist(groups, ids) == ids \subseteq groups

Lately == { g \in Groups : there[g] <= IndexLife + 2 * CallTime }

-----------------------------------------------------------------------------
(* A request begins: it is refused at once, or goes on to the index, or,   *)
(* with a scope that has no groups, to the row.                            *)
Start(w, s, kind, old, scope, ids) ==
  LET asked == ScopeAsked(old, scope)
      check == normalizeGroups(asked, GroupsAsked(old, ids))
  IN  /\ writer[w].at = "idle" /\ writes < MaxWrites /\ writes' = writes + 1
      /\ IF validScope(asked) /\ check.next # "needs groups"
         THEN /\ writer' = [writer EXCEPT ![w] = [Idle EXCEPT !.at = check.next, !.kind = kind, !.server = s,
                              !.was = old.scope, !.scope = asked, !.groups = check.groups]]
              /\ reply' = NoReply
         ELSE /\ UNCHANGED writer
              /\ reply' = IF ~validScope(asked) THEN NoReply
                          ELSE [why    |-> "needs groups",
                                groups |-> IF ids = Absent THEN old.groups ELSE ids \ {Blank}]
      /\ UNCHANGED <<row, known, index, there, away, knownThen>>

CreateGeofence(w, s, scope, ids) ==
  /\ Start(w, s, "create", NewRow, scope, ids)
  /\ UNCHANGED overlapped

LoadGeofence(w, s, scope, ids) ==
  /\ \E r \in row : Start(w, s, "update", r, scope, ids)
  /\ overlapped' = (overlapped \/ \E v \in Writers : writer[v].kind = "update")

Enter(q, stage, got) == [q EXCEPT !.at = stage, !.got = got, !.age = 0]

(* The groups are all the tenant's by this index, or one is unknown. *)
Decide(w, groups) ==
  \/ /\ AllExist(groups, writer[w].groups)
     /\ writer' = [writer EXCEPT ![w] = Enter(@, "save", {})]
     /\ reply' = NoReply
  \/ /\ ~AllExist(groups, writer[w].groups)
     /\ writer' = [writer EXCEPT ![w] = Idle]
     /\ reply' = [why |-> "unknown group", groups |-> writer[w].groups]

(* groupIndex, from the cache while it is kept. *)
Hit(w) ==
  /\ writer[w].at = "index" /\ index[writer[w].server].left > 0
  /\ Decide(w, index[writer[w].server].groups)
  /\ UNCHANGED <<row, known, index, there, away, knownThen, overlapped, writes>>

Ask(w) ==
  /\ writer[w].at = "index" /\ index[writer[w].server].left = 0
  /\ writer' = [writer EXCEPT ![w] = Enter(@, "fill", known)]
  /\ reply' = NoReply
  /\ UNCHANGED <<row, known, index, there, away, knownThen, overlapped, writes>>

(* Another request of the replica asks: for a screen, which wants a fresh  *)
(* index, or for the scope of a caller, when none is kept.                 *)
View(w, s) ==
  /\ writer[w].at = "idle"
  /\ writer' = [writer EXCEPT ![w] = [Idle EXCEPT !.at = "fill", !.kind = "view", !.server = s, !.got = known]]
  /\ reply' = NoReply
  /\ UNCHANGED <<row, known, index, there, away, knownThen, overlapped, writes>>

(* The answer is kept, whatever was dropped or filled meanwhile. *)
Fill(w) ==
  /\ writer[w].at = "fill"
  /\ index' = [index EXCEPT ![writer[w].server] = [groups |-> writer[w].got, left |-> IndexLife]]
  /\ \/ /\ writer[w].kind # "view" /\ Decide(w, writer[w].got)
     \/ /\ writer[w].kind = "view" /\ writer' = [writer EXCEPT ![w] = Idle] /\ reply' = NoReply
  /\ UNCHANGED <<row, known, there, away, knownThen, overlapped, writes>>

(* The name is taken if there is a row by now. *)
Insert(w) ==
  /\ writer[w].at = "save" /\ writer[w].kind = "create"
  /\ row' = IF row = {} THEN { [scope |-> writer[w].scope, groups |-> writer[w].groups] } ELSE row
  /\ knownThen' = IF row = {} THEN Lately ELSE knownThen
  /\ writer' = [writer EXCEPT ![w] = Idle] /\ reply' = NoReply
  /\ UNCHANGED <<known, index, there, away, overlapped, writes>>

(* The scope is written if it is not as it was read, the groups always. *)
Columns(now, q) ==
  [scope |-> IF q.scope # q.was THEN q.scope ELSE now.scope, groups |-> q.groups]

UpdateGeofence(w) ==
  /\ writer[w].at = "save" /\ writer[w].kind = "update"
  /\ row' = { Columns(r, writer[w]) : r \in row }
  /\ knownThen' = Lately
  /\ writer' = [writer EXCEPT ![w] = Idle] /\ reply' = NoReply
  /\ UNCHANGED <<known, index, there, away, overlapped, writes>>

(* The tenancy service, or the database, does not answer. *)
Fail(w) ==
  /\ writer[w].at \in {"fill", "save"}
  /\ writer' = [writer EXCEPT ![w] = Idle] /\ reply' = NoReply
  /\ UNCHANGED <<row, known, index, there, away, knownThen, overlapped, writes>>

(* The replica wrote a group. *)
invalidateGroupIndex(s) ==
  /\ index' = [index EXCEPT ![s] = Nothing]
  /\ reply' = NoReply
  /\ UNCHANGED <<row, known, writer, there, away, knownThen, overlapped, writes>>

(* External: a group comes, or goes. *)
GroupChanges(g) ==
  /\ \/ g \in known /\ known' = known \ {g} /\ away' = [away EXCEPT ![g] = 0] /\ UNCHANGED there
     \/ g \notin known /\ known' = known \union {g} /\ there' = [there EXCEPT ![g] = 0] /\ UNCHANGED away
  /\ reply' = NoReply
  /\ UNCHANGED <<row, index, writer, knownThen, overlapped, writes>>

(* Mutant: an index that is kept never expires. *)
Unaged(entry) == entry

Aged(entry) == IF entry.left > 1 THEN [entry EXCEPT !.left = @ - 1] ELSE Nothing

(* Bound: what is longer ago than any answer may be is all alike. *)
Horizon  == IndexLife + 2 * CallTime + 1
Later(n) == IF n < Horizon THEN n + 1 ELSE n

Waits(q)  == q.at \in {"fill", "save"}
Waited(q) == IF Waits(q) THEN [q EXCEPT !.age = @ + 1] ELSE q

Tick ==
  /\ \A w \in Writers : Waits(writer[w]) => writer[w].age < CallTime
  /\ writer' = [w \in Writers |-> Waited(writer[w])]
  /\ index' = [s \in Servers |-> Aged(index[s])]
  /\ there' = [g \in Groups |-> IF g \in known THEN 0 ELSE Later(there[g])]
  /\ away' = [g \in Groups |-> IF g \in known THEN Later(away[g]) ELSE 0]
  /\ reply' = NoReply
  /\ UNCHANGED <<row, known, knownThen, overlapped, writes>>

-----------------------------------------------------------------------------
Init ==
  /\ row \in {{}} \union { {[scope |-> s, groups |-> IF s = "group" THEN Groups ELSE {}]} : s \in {"group", "manual"} }
  /\ known = Groups /\ knownThen = Groups
  /\ index = [s \in Servers |-> Nothing]
  /\ writer = [w \in Writers |-> Idle]
  /\ reply = NoReply
  /\ there = [g \in Groups |-> 0] /\ away = [g \in Groups |-> Horizon]
  /\ overlapped = FALSE /\ writes = 0

Lists == SUBSET (Groups \union {Blank})

Asked(w, s) ==
  \E scope \in Scopes \union {Blank, "another"} :
    \/ \E ids \in Lists : CreateGeofence(w, s, scope, ids)
    \/ \E ids \in Lists \union {Absent} : LoadGeofence(w, s, scope, ids)

Next ==
  \/ \E w \in Writers :
       \/ \E s \in Servers : Asked(w, s) \/ View(w, s)
       \/ Hit(w) \/ Ask(w) \/ Fill(w) \/ Insert(w) \/ UpdateGeofence(w) \/ Fail(w)
  \/ \E s \in Servers : invalidateGroupIndex(s)
  \/ \E g \in Groups : GroupChanges(g)
  \/ Tick

Spec == Init /\ [][Next]_inputVars

-----------------------------------------------------------------------------
(* Types. *)
TypeOK ==
  /\ Cardinality(row) <= 1 /\ row \subseteq [scope : Scopes, groups : SUBSET Groups]
  /\ known \subseteq Groups /\ writes \in 0..MaxWrites
  /\ index \in [Servers -> [groups : SUBSET Groups, left : 0..IndexLife]]
  /\ \A w \in Writers : writer[w].groups \subseteq Groups /\ writer[w].age \in 0..CallTime
  /\ there \in [Groups -> 0..Horizon] /\ away \in [Groups -> 0..Horizon]

(***************************************************************************)
(* Through any sequence of creations and partial updates a row has groups  *)
(* just if its scope is "group", unless two updates overlapped, of which   *)
(* each writes its groups but only one its scope.  Its groups were the     *)
(* tenant's when it was written, or at most the life of a kept index and   *)
(* two calls before: one that fetched the index, one that wrote the row.   *)
(* A request is told that it needs groups only if neither it nor the row   *)
(* names one, and that one is unknown only if the tenant lacked one of     *)
(* them within that life and a call (normalizeGroups, groupIndex).         *)
(***************************************************************************)
ScopeHasItsGroups ==
  /\ \A r \in row : r.groups \subseteq knownThen
  /\ ~overlapped => \A r \in row : (r.scope = "group") = (r.groups # {})
  /\ reply.why = "needs groups"  => reply.groups = {}
  /\ reply.why = "unknown group" => \E g \in reply.groups : away[g] <= IndexLife + CallTime
=============================================================================
