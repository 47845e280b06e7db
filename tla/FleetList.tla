----------------------------- MODULE FleetList -----------------------------
(***************************************************************************)
(* What GET /vehicles and GET /vehicles/:tokenID say of the vehicles of    *)
(* the caller's set (vehicle.go, vehicle_metadata.go, vehicles.go,         *)
(* sharing.go): a request joins, call after call, the resolved set, the    *)
(* local rows, the favorites, the roster of fleet-tenancy-api, the groups  *)
(* and the owners who consent to sharing, while all of them change.  How   *)
(* the set is resolved is the subject of FleetScope.                       *)
(*                                                                         *)
(* An optional value is a set of at most one element.                      *)
(***************************************************************************)
EXTENDS Naturals, FiniteSets, Sequences

CONSTANTS
  Tokens,     \* token ids
  Groups,
  MaxTurns    \* bound: changes while requests are served

VARIABLES
  managed,    \* the tenant has no license: its set comes from the tenancy service
  rostered,   \* VEHICLE_METADATA_FROM_TENANCY
  tenancy,    \* the service: entitled tokens, roster rows, groups, consent of owners
  table,      \* per token: its row, whether it is a favorite
  cached,     \* per token: the roster row in the metadata cache
  request,
  since,      \* history: per token, what was true at some time since it began
  turns

listVars == <<managed, rostered, tenancy, table, cached, request, since, turns>>

NoRequest == [at |-> "idle", scope |-> {}, one |-> {}, tokens |-> {}, rows |-> [v \in Tokens |-> {}],
              stars |-> {}, meta |-> [v \in Tokens |-> {}], list |-> <<>>]

The(option) == CHOOSE x \in option : TRUE

(* What there is to know of a token. *)
Fact(v) ==
  [mine    |-> v \in tenancy.entitled,
   known   |-> IF managed /\ rostered THEN tenancy.roster[v] # {} ELSE table[v].row # {},
   plate   |-> IF table[v].row = {} THEN {} ELSE The(table[v].row).plate,
   star    |-> table[v].star,
   groups  |-> tenancy.groups[v],
   consent |-> tenancy.consent]

(* A request begins at its "set". *)
Observe ==
  since' = IF request'.at = "idle" \/ (request'.at = "set" /\ request.at # "set")
           THEN [v \in Tokens |-> {Fact(v)'}]
           ELSE [v \in Tokens |-> since[v] \union {Fact(v)'}]

-----------------------------------------------------------------------------
(* The wire shape, of a row and of a roster row; thin, pending metadata. *)
Shown(v, pending, plate, seen) ==
  [token |-> v, pending |-> pending, plate |-> plate, seen |-> seen,
   star |-> v \in request.stars, groups |-> {}, share |-> "blank"]

Thin(v) == Shown(v, TRUE, {}, {})

rowToVehicle(v, r) == Shown(v, FALSE, r.plate, r.seen)

(* Most recently seen first, tokens without a fix last, by number. *)
Earlier(a, b) ==
  CASE a.seen # {} /\ b.seen # {} /\ a.seen # b.seen -> The(a.seen) > The(b.seen)
    [] a.seen # {} /\ b.seen = {}                    -> TRUE
    [] a.seen = {} /\ b.seen # {}                    -> FALSE
    [] OTHER                                         -> a.token < b.token

InOrder(entries) ==
  LET n == Cardinality(entries)
  IN  CHOOSE s \in [1..n -> entries] : \A i, j \in 1..n : i < j => Earlier(s[i], s[j])

RowsOf == { v \in request.tokens : request.rows[v] # {} }

(* A left join: rows in order, then a placeholder for each other token. *)
mergeResolvedVehicles ==
  InOrder({ rowToVehicle(v, The(request.rows[v])) : v \in RowsOf })
  \o InOrder({ Thin(v) : v \in request.tokens \ RowsOf })

(* Mutant: the roster's plate, which it is seldom fed, always wins. *)
RosterPlate(m, row) == m.plate

(* The roster's plate, or else the local one. *)
PlateOf(m, row) == IF m.plate = {} /\ row # {} THEN The(row).plate ELSE m.plate

mergeRosterVehicles ==
  InOrder(
    { LET row  == request.rows[v]
          meta == IF request.meta[v] = {} THEN [plate |-> {}] ELSE The(request.meta[v])
      IN  Shown(v, request.meta[v] = {}, PlateOf(meta, row),
                IF row = {} THEN {} ELSE The(row).seen) : v \in request.tokens })

Merged ==
  IF managed /\ rostered THEN mergeRosterVehicles ELSE mergeResolvedVehicles

-----------------------------------------------------------------------------
Goes(to) ==
  /\ request' = to
  /\ UNCHANGED <<managed, rostered, tenancy, table, cached, turns>>

(* The whole list, or one vehicle; for a member limited to groups or not. *)
Begin(scope, one) ==
  /\ request.at \in {"idle", "done"}
  /\ Goes([NoRequest EXCEPT !.at = "set", !.scope = scope, !.one = one])

InScope(v) == request.scope = {} \/ tenancy.groups[v] \intersect The(request.scope) # {}

(* A token outside the set is answered like one that does not exist. *)
ResolveSet ==
  LET set == { v \in tenancy.entitled : InScope(v) }
  IN  /\ request.at = "set"
      /\ Goes(IF ~(request.one \subseteq set) THEN NoRequest
              ELSE [request EXCEPT !.tokens = IF request.one = {} THEN set ELSE request.one,
                      !.at = IF managed /\ request.one # {} THEN "stars" ELSE "rows"])

After(step) ==
  LET single == managed /\ request.one # {}
  IN  IF step = "rows" /\ ~single THEN "stars"
      ELSE IF step = "stars" /\ single THEN "rows"
      ELSE IF managed /\ rostered THEN "meta" ELSE "merge"

(* What the statements read: the rows of tokens, the caller's stars. *)
RowsOfTokens(tokens) == [v \in Tokens |-> IF v \in tokens THEN table[v].row ELSE {}]
Stars == { v \in Tokens : table[v].star }

(* A tenant with a license has the vehicles it has rows of. *)
LoadRows ==
  LET rows   == RowsOfTokens(request.tokens)
      tokens == IF managed THEN request.tokens ELSE { v \in request.tokens : rows[v] # {} }
  IN  /\ request.at = "rows"
      /\ Goes(IF ~(request.one \subseteq tokens) THEN NoRequest
              ELSE [request EXCEPT !.rows = rows, !.tokens = tokens, !.at = After("rows")])

favoriteSet ==
  /\ request.at = "stars"
  /\ Goes([request EXCEPT !.stars = Stars, !.at = After("stars")])

(* Only rows are cached: the next reconcile may bring what is missing. *)
Cacheable(missing) == { v \in missing : tenancy.roster[v] # {} }

(* Per token, from the cache or, for all misses in one call, the service. *)
rosterMetadata ==
  LET missing == { v \in request.tokens : cached[v] = {} }
      answer  == [v \in Tokens |-> IF v \in missing THEN {tenancy.roster[v]} ELSE cached[v]]
  IN  /\ request.at = "meta"
      /\ request' = [request EXCEPT !.at = "merge",
                       !.meta = [v \in Tokens |-> IF v \in request.tokens THEN The(answer[v]) ELSE {}]]
      /\ cached' = [v \in Tokens |-> IF v \in Cacheable(missing) THEN answer[v] ELSE cached[v]]
      /\ UNCHANGED <<managed, rostered, tenancy, table, turns>>

Merge ==
  /\ request.at = "merge"
  /\ Goes([request EXCEPT !.list = Merged, !.at = "groups"])

(* Mutant: a limited member is told every group of a vehicle it sees. *)
AllGroupRefs(groups) == groups

scopeGroupRefs(groups) ==
  IF request.scope = {} THEN groups ELSE groups \intersect The(request.scope)

(* Best effort: when they cannot be read no groups are shown. *)
AttachGroups ==
  LET With(e, groups) == [e EXCEPT !.groups = scopeGroupRefs(groups)]
      next == IF request.one = {} THEN "share" ELSE "done"
  IN  /\ request.at = "groups"
      /\ \/ Goes([request EXCEPT !.at = next])
         \/ Goes([request EXCEPT !.at = next,
                    !.list = [i \in DOMAIN @ |-> With(@[i], tenancy.groups[@[i].token])]])

(* Mutant: an owner not looked up yet has refused. *)
TwoVerdicts(consent) == IF consent = "allowed" THEN "can" ELSE "refused"

Verdict(consent) ==
  CASE consent = "allowed" -> "can"
    [] consent = "pending" -> "unknown"
    [] OTHER               -> "refused"

(* Without any owner nothing is asked; best effort, unknown on failure. *)
AnnotateCanShare ==
  LET Owned(e) == ~e.pending
      Mark(e)  == [e EXCEPT !.share = IF Owned(e) THEN Verdict(tenancy.consent) ELSE "no-owner"]
  IN  /\ request.at = "share"
      /\ IF \E i \in DOMAIN request.list : Owned(request.list[i])
         THEN \/ Goes([request EXCEPT !.at = "done", !.list = [i \in DOMAIN @ |-> Mark(@[i])]])
              \/ Goes([request EXCEPT !.at = "done",
                         !.list = [i \in DOMAIN @ |-> [@[i] EXCEPT !.share = "unknown"]]])
         ELSE Goes([request EXCEPT !.at = "done"])

(* Any other call that fails fails the request. *)
Fails ==
  /\ request.at \in {"set", "rows", "stars", "meta"}
  /\ Goes(NoRequest)

-----------------------------------------------------------------------------
Turn ==
  /\ turns < MaxTurns /\ turns' = turns + 1
  /\ UNCHANGED <<managed, rostered, cached, request>>

(* An upsert that changes nothing the second time, and a delete. *)
UpsertFavorite(v)  == [table EXCEPT ![v].star = TRUE]
DeleteFavorites(v) == [table EXCEPT ![v].star = FALSE]

(* Only limited members must see the token. *)
AddFavorite(v) ==
  /\ Turn
  /\ table' = UpsertFavorite(v)
  /\ UNCHANGED tenancy

RemoveFavorite(v) ==
  /\ Turn
  /\ table' = DeleteFavorites(v)
  /\ UNCHANGED tenancy

(* Rows are synced and pruned, a plate is pulled or a fix stored. *)
RowChanges(v) ==
  /\ Turn
  /\ \E row \in {{}, {[plate |-> {}, seen |-> {}]}, {[plate |-> {"local"}, seen |-> {}]},
                 {[plate |-> {"local"}, seen |-> {turns}]}} :
       table' = [table EXCEPT ![v].row = row]
  /\ UNCHANGED tenancy

(* External: entitlements, the nightly reconcile, groups, consent.  The    *)
(* cache's entries go by themselves.                                       *)
TenancyChanges(v) ==
  /\ Turn
  /\ \/ tenancy' = [tenancy EXCEPT !.entitled = IF v \in @ THEN @ \ {v} ELSE @ \union {v}]
     \/ \E plate \in {{}, {"fed"}} : tenancy' = [tenancy EXCEPT !.roster[v] = {[plate |-> plate]}]
     \/ \E groups \in {{}, Groups} : tenancy' = [tenancy EXCEPT !.groups[v] = groups]
     \/ \E c \in {"allowed", "pending", "refused"} : tenancy' = [tenancy EXCEPT !.consent = c]
  /\ UNCHANGED table

MetadataExpires(v) ==
  /\ cached[v] # {}
  /\ cached' = [cached EXCEPT ![v] = {}]
  /\ UNCHANGED <<managed, rostered, tenancy, table, request, turns>>

Init ==
  /\ managed \in BOOLEAN /\ rostered \in BOOLEAN
  /\ tenancy = [entitled |-> Tokens, roster |-> [v \in Tokens |-> {}],
                groups |-> [v \in Tokens |-> Groups], consent |-> "pending"]
  /\ table = [v \in Tokens |-> [row |-> {}, star |-> FALSE]]
  /\ cached = [v \in Tokens |-> {}]
  /\ request = NoRequest /\ turns = 0
  /\ since = [v \in Tokens |-> {Fact(v)}]

Act ==
  \/ \E scope \in {{}} \union { {a} : a \in (SUBSET Groups) \ {Groups} },
        one \in {{}} \union { {v} : v \in Tokens } : Begin(scope, one)
  \/ ResolveSet \/ LoadRows \/ favoriteSet \/ rosterMetadata \/ Merge \/ AttachGroups
  \/ AnnotateCanShare \/ Fails
  \/ \E v \in Tokens :
       \/ AddFavorite(v) \/ RemoveFavorite(v) \/ RowChanges(v)
       \/ TenancyChanges(v) \/ MetadataExpires(v)

Next == Act /\ Observe

Spec == Init /\ [][Next]_listVars

-----------------------------------------------------------------------------
TypeOK ==
  /\ tenancy.entitled \subseteq Tokens /\ turns \in 0..MaxTurns
  /\ request.at \in {"idle", "set", "rows", "stars", "meta", "merge", "groups", "share", "done"}
  /\ request.tokens \union request.stars \subseteq Tokens
  /\ \A v \in Tokens : Cardinality(cached[v]) <= 1

(***************************************************************************)
(* A reply lists every token of its set exactly once, seen ones first.     *)
(* What it says of one was so at some time since the request began, though *)
(* its sources are read one after the other: that its metadata is pending, *)
(* that it has no plate, that it is a favorite or is not, that its owner   *)
(* refuses to have it shared.  A limited member is told none of the groups *)
(* it may not see, and an owner nobody asked is not said to refuse.        *)
(***************************************************************************)
ListIsComplete ==
  request.at = "done" =>
    /\ { request.list[i].token : i \in DOMAIN request.list } = request.tokens
    /\ Len(request.list) = Cardinality(request.tokens)
    /\ \A i, j \in DOMAIN request.list :
         i < j => ~(request.list[i].seen = {} /\ request.list[j].seen # {})
    /\ \A i \in DOMAIN request.list :
         LET e == request.list[i]
         IN  /\ \E f \in since[e.token] : f.mine
             /\ e.pending => \E f \in since[e.token] : ~f.known
             /\ e.plate = {} => \E f \in since[e.token] : f.plate = {}
             /\ \E f \in since[e.token] : f.star = e.star
             /\ e.groups # {} => \E f \in since[e.token] : e.groups \subseteq f.groups
             /\ request.scope # {} => e.groups \subseteq The(request.scope)
             /\ e.share = "refused" => \E f \in since[e.token] : f.consent = "refused"
             /\ e.share = "can" => \E f \in since[e.token] : f.consent = "allowed"
=============================================================================
