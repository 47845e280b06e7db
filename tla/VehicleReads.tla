---------------------------- MODULE VehicleReads ----------------------------
(***************************************************************************)
(* What a page asks about one vehicle: latest signals, time series, trips, *)
(* driving behaviour, a trip's route and replay (controllers/telemetry.go, *)
(* telemetry_api.go) and a document's file (documents.go).  A request      *)
(* checks the vehicle's scope once and then asks telemetry-api once or     *)
(* twice, with a vehicle JWT that is kept, while the vehicle is driven,    *)
(* unshared or moved to another group, and while days pass.                *)
(*                                                                         *)
(* There is at most one trip a day, whose number stands for it.            *)
(***************************************************************************)
EXTENDS Integers, FiniteSets, FiniteSetsExt

CONSTANTS
  Panels, Asks,   \* requests of a page, one each, and the kinds each may be of
  Limit,          \* segments an answer of telemetry-api holds
  behaviorMaxDays,
  LastDay,        \* bound: days
  MaxTurns        \* bound: changes made by others

VARIABLES
  world,     \* what is true of the vehicle
  held,      \* privileges of the kept vehicle JWT, none when none is kept
  panel,     \* the requests
  since,     \* history, per request: the worlds and held JWTs since it began
  turns

readVars == <<world, held, panel, since, turns>>

ValidSegmentMechanisms ==
  {"ignitionDetection", "frequencyAnalysis", "changePointDetection", "idling", "refuel", "recharge"}

IsValidSegmentMechanism(s) == s \in ValidSegmentMechanisms

Privileges == {"signals", "history"}
Samples    == {"speed", "place", "nowhere"}    \* nowhere: a fix at 0, 0
Days       == 1..LastDay

(* Some integrations never report ignition: their trips are those that     *)
(* only frequency analysis sees.                                           *)
Worlds == [scope : {"in", "out"}, aftermarket : BOOLEAN, privileges : SUBSET Privileges,
           samples : SUBSET Samples, ignition : SUBSET Days, frequency : SUBSET Days, today : Days]

Detected(w, mechanism) ==
  CASE mechanism = "ignitionDetection" -> w.ignition
    [] mechanism = "frequencyAnalysis" -> w.frequency
    [] OTHER -> {}

Idle == [kind |-> "none", input |-> "", explicit |-> "", from |-> 0, to |-> 0, at |-> "idle",
         mechanism |-> "", status |-> 0, banner |-> FALSE, shown |-> {}, days |-> <<>>]

-----------------------------------------------------------------------------
(* What a request may be given, and what of it is refused, by then. *)
Inputs(kind) ==
  CASE kind = "latest"     -> {"good"}
    [] kind = "timeseries" -> {"good", "missing", "1d"}
    [] kind = "behavior"   -> {"good", "malformed"}
    [] kind = "replay"     -> {"good", "missing", "malformed"}
    [] kind = "download"   -> {"missing", "inline", "stored", "empty", "telemetry", "elsewhere"}
    [] OTHER               -> {"good", "missing"}

RefusedBeforeScope(q) ==
  \/ q.kind \in {"timeseries", "segments", "route", "download"} /\ q.input = "missing"
  \/ q.kind = "behavior" /\ q.input = "malformed"

RefusedAfterScope(q) ==
  \/ q.kind = "replay" /\ q.input \in {"missing", "malformed"}
  \/ q.kind = "segments" /\ q.explicit # "" /\ ~IsValidSegmentMechanism(q.explicit)

(* The window of a number of days that ends today. *)
Clamped(days) == Max({1, Min({days, behaviorMaxDays})})

behaviorDates(from, to) == from..to

Done(q, status) == [q EXCEPT !.at = "done", !.status = status]

Step(p, q) == panel' = [panel EXCEPT ![p] = q]

(* A bound: only trips and behaviour are asked for side by side. *)
Beside(q, other) ==
  other.at = "idle" \/ ({q.kind, other.kind} = {"segments", "behavior"} /\ q.explicit = other.explicit)

Begin(p, q) ==
  /\ panel[p].at = "idle" /\ q.kind \in Asks[p]
  /\ \A o \in Panels : Beside(q, panel[o])
  /\ Step(p, IF RefusedBeforeScope(q) THEN Done(q, 400) ELSE [q EXCEPT !.at = "scope"])
  /\ since' = [since EXCEPT ![p] = {[world |-> world, held |-> held]}]
  /\ UNCHANGED <<world, held, turns>>

GetLatest(p)     == Begin(p, [Idle EXCEPT !.kind = "latest", !.input = "good"])
GetTimeSeries(p) == \E i \in Inputs("timeseries") :
                      Begin(p, [Idle EXCEPT !.kind = "timeseries", !.input = i])
GetTripRoute(p)  == \E i \in Inputs("route") : Begin(p, [Idle EXCEPT !.kind = "route", !.input = i])
GetTripReplay(p) == \E i \in Inputs("replay") : Begin(p, [Idle EXCEPT !.kind = "replay", !.input = i])

GetSegments(p) ==
  \/ Begin(p, [Idle EXCEPT !.kind = "segments", !.input = "missing"])
  \/ \E explicit \in {"", "idling", "teleport"}, from \in Days, to \in Days :
       /\ from <= to
       /\ Begin(p, [Idle EXCEPT !.kind = "segments", !.input = "good", !.explicit = explicit,
                                !.from = from, !.to = to])

(* The days are counted from today, which is read after the scope check. *)
GetBehavior(p) ==
  \E i \in Inputs("behavior"), days \in 0..(behaviorMaxDays + 1) :
    Begin(p, [Idle EXCEPT !.kind = "behavior", !.input = i, !.from = Clamped(days)])

DownloadDocument(p) ==
  \E i \in Inputs("download") : Begin(p, [Idle EXCEPT !.kind = "download", !.input = i])

-----------------------------------------------------------------------------
(* Aftermarket devices only support frequency analysis. *)
Heuristic(vehicle) == IF vehicle.aftermarket THEN "frequencyAnalysis" ELSE "ignitionDetection"

(* Mutant: what was asked for only comes second. *)
HeuristicFirst(q, vehicle) == IF vehicle.aftermarket \/ q.explicit = "" THEN Heuristic(vehicle) ELSE q.explicit

Mechanism(q, vehicle) == IF q.explicit # "" THEN q.explicit ELSE Heuristic(vehicle)

InScope(q, vehicle) ==
  IF RefusedAfterScope(q) THEN Done(q, 400)
  ELSE CASE q.kind = "segments" -> [q EXCEPT !.at = "ask", !.mechanism = Mechanism(q, vehicle)]
         [] q.kind = "behavior" -> [q EXCEPT !.at = "ask", !.mechanism = Heuristic(vehicle),
                                             !.from = vehicle.today - q.from + 1, !.to = vehicle.today]
         [] OTHER -> [q EXCEPT !.at = "ask"]

(* 503 when the groups cannot be read, 403 on every other failure. *)
vehicleInTenant(p) ==
  /\ panel[p].at = "scope"
  /\ \/ world.scope = "in" /\ Step(p, InScope(panel[p], world))
     \/ \E status \in {403, 503} : Step(p, Done(panel[p], status))
  /\ UNCHANGED <<world, held, since, turns>>

-----------------------------------------------------------------------------
(* query: a token lacks what the license lacked when it was minted; one    *)
(* without any privilege is not minted.                                    *)
Token == IF held # {} THEN held ELSE world.privileges

Need(kind) == IF kind \in {"latest", "timeseries"} THEN "signals" ELSE "history"

(* doQuery: the message of a GraphQL error or a status becomes the error. *)
Failures(kind) ==
  {"failed"} \union (IF Token = {} THEN {"lacks permissions"}
                     ELSE IF Need(kind) \notin Token THEN {"unauthorized"} ELSE {})

(* Mutant: whatever fails is taken for a missing permission. *)
AnyFailure(error) == error # "none"

isPermissionError(error) == error \in {"lacks permissions", "status code 403", "unauthorized"}

(* A day, which telemetry-api does not parse, is sent as its hours. *)
normalizeInterval(interval) == IF interval = "1d" THEN "24h" ELSE interval
Parses(interval) == interval # "1d"

(* Latest and TimeSeries omit what was not reported, RoutePoints fixes at  *)
(* 0, 0, which TripReplay keeps.                                           *)
Latest      == world.samples \intersect {"speed"}
TimeSeries  == world.samples \intersect {"speed"}
RoutePoints == world.samples \intersect {"place"}
TripReplay  == world.samples \intersect {"place", "nowhere"}

Sampled(kind) ==
  CASE kind = "latest" -> Latest
    [] kind = "timeseries" -> TimeSeries
    [] kind = "route" -> RoutePoints
    [] OTHER -> TripReplay

(* Answers of Segments; newest first when they are sent. *)
Segments(q) ==
  LET found == Detected(world, q.mechanism) \intersect (q.from..q.to)
  IN  IF Cardinality(found) <= Limit THEN {found} ELSE kSubset(Limit, found)

(* One record per day, oldest first. *)
Behavior(q) ==
  [day \in behaviorDates(q.from, q.to) |-> Cardinality(Detected(world, q.mechanism) \intersect {day})]

behaviorHasActivity(days) == \E day \in DOMAIN days : days[day] > 0

(* Mutant: behaviour takes what ignition detection says. *)
TripsOnly(q, empty) == q.kind = "segments" /\ q.explicit = "" /\ empty /\ q.mechanism = "ignitionDetection"

(* Nothing detected by ignition is asked again by frequency. *)
Retries(q, empty) == q.explicit = "" /\ empty /\ q.mechanism = "ignitionDetection"

Again(q) == [q EXCEPT !.mechanism = "frequencyAnalysis"]

Refusal(q, error) ==
  IF isPermissionError(error) THEN [Done(q, 200) EXCEPT !.banner = TRUE] ELSE Done(q, 502)

Answer(q, shown, days) == [Done(q, 200) EXCEPT !.shown = shown, !.days = days]

AskTelemetry(p) ==
  LET q == panel[p]
  IN  /\ q.at = "ask" /\ q.kind # "download"
      /\ \/ \E error \in Failures(q.kind) :
              Step(p, Refusal(q, error)) /\ held' \in {held, Token}
         \/ /\ Need(q.kind) \in Token
            /\ held' = Token
            /\ CASE q.kind = "segments" ->
                      \E found \in Segments(q) :
                        Step(p, IF Retries(q, found = {}) THEN Again(q) ELSE Answer(q, found, <<>>))
                 [] q.kind = "behavior" ->
                      LET days == Behavior(q)
                      IN  Step(p, IF Retries(q, ~behaviorHasActivity(days))
                                  THEN Again(q) ELSE Answer(q, {}, days))
                 [] OTHER ->
                      Step(p, IF q.kind = "timeseries" /\ ~Parses(normalizeInterval(q.input))
                              THEN Done(q, 502) ELSE Answer(q, Sampled(q.kind), <<>>))
      /\ UNCHANGED <<world, since, turns>>

(* Mutant: any event of the vehicle is a file. *)
AnyEvent(input) == input # "elsewhere"

(* An event is found under its vehicle only, and must be a raw document. *)
IsAttachment(input) == input \in {"inline", "stored", "empty"}

(* rawDocumentBytes: an event without either payload is 502, as is a       *)
(* stored one that cannot be fetched.                                      *)
FileOf(q) ==
  CASE q.input = "elsewhere" -> {Done(q, 404)}
    [] q.input # "elsewhere" /\ ~IsAttachment(q.input) -> {Done(q, 400)}
    [] q.input = "empty" -> {Done(q, 502)}
    [] q.input = "stored" -> {Answer(q, {q.input}, <<>>), Done(q, 502)}
    [] OTHER -> {Answer(q, {q.input}, <<>>)}

FetchDocument(p) ==
  LET q == panel[p]
  IN  /\ q.at = "ask" /\ q.kind = "download"
      /\ \/ Step(p, Done(q, 502)) /\ UNCHANGED held
         \/ /\ Token # {} /\ held' = Token
            /\ \E reply \in FileOf(q) : Step(p, reply)
      /\ UNCHANGED <<world, since, turns>>

-----------------------------------------------------------------------------
(* External: what may become true meanwhile, and the JWT's expiry. *)
Grown(w) ==
  {[w EXCEPT !.scope = s] : s \in {"in", "out"}}
  \union {[w EXCEPT !.aftermarket = ~@]}
  \union {[w EXCEPT !.privileges = ps] : ps \in {{}, {"signals"}, Privileges}}
  \union {[w EXCEPT !.frequency = @ \union {w.today}, !.ignition = @ \union i] : i \in SUBSET {w.today}}
  \union {[w EXCEPT !.today = @ + 1]}

(* An answer about trips stays on the page beside the other. *)
Watched(p) ==
  \/ panel[p].at \in {"scope", "ask"}
  \/ panel[p].status = 200 /\ ~panel[p].banner /\ panel[p].mechanism # "" /\ panel[p].explicit = ""

Running == \E p \in Panels : panel[p].at \in {"scope", "ask"}

Tell(to, jwt) ==
  since' = [p \in Panels |-> IF Watched(p) THEN since[p] \union {[world |-> to, held |-> jwt]}
                             ELSE since[p]]

Turn ==
  /\ Running /\ turns < MaxTurns /\ turns' = turns + 1
  /\ \E to \in Grown(world) \ {world} :
       to.today <= LastDay /\ world' = to /\ Tell(to, held)
  /\ UNCHANGED <<held, panel>>

Expire ==
  /\ Running /\ held # {} /\ held' = {}
  /\ Tell(world, {})
  /\ UNCHANGED <<world, panel, turns>>

-----------------------------------------------------------------------------
Init ==
  /\ \E aftermarket \in BOOLEAN, ignition \in {{}, {1}},
        privileges \in {{}, {"signals"}, Privileges}, scope \in {"in", "out"} :
       world = [scope |-> scope, aftermarket |-> aftermarket, privileges |-> privileges,
                samples |-> Samples, ignition |-> ignition, frequency |-> {1}, today |-> LastDay - 1]
  /\ held = {}
  /\ panel = [p \in Panels |-> Idle] /\ since = [p \in Panels |-> {}]
  /\ turns = 0

Next ==
  \/ \E p \in Panels :
       \/ GetLatest(p) \/ GetTimeSeries(p) \/ GetSegments(p) \/ GetBehavior(p)
       \/ GetTripRoute(p) \/ GetTripReplay(p) \/ DownloadDocument(p)
       \/ vehicleInTenant(p) \/ AskTelemetry(p) \/ FetchDocument(p)
  \/ Turn \/ Expire

Spec == Init /\ [][Next]_readVars

-----------------------------------------------------------------------------
TypeOK ==
  /\ world \in Worlds /\ held \subseteq Privileges /\ turns \in 0..MaxTurns
  /\ \A p \in Panels : /\ panel[p].at \in {"idle", "scope", "ask", "done"}
                       /\ panel[p].status \in {0, 200, 400, 403, 404, 502, 503}
                       /\ panel[p].mechanism \in ValidSegmentMechanisms \union {""}

Answered(p) == panel[p].at = "done" /\ panel[p].status = 200 /\ ~panel[p].banner

(* The banner is shown only to a license that lacked the privilege at some *)
(* time since the request began, or whose kept token lacked it; and one    *)
(* that lacked it all the while is never shown data, nor that there is     *)
(* none (isPermissionError).                                               *)
BannerIsAboutPermission ==
  \A p \in Panels : LET need == Need(panel[p].kind) IN
    /\ panel[p].banner =>
         \E s \in since[p] : need \notin s.world.privileges \/ (s.held # {} /\ need \notin s.held)
    /\ Answered(p) /\ panel[p].kind # "download" =>
         \E s \in since[p] : need \in s.world.privileges \/ need \in s.held

(* The limit never cut what a request about trips was answered. *)
Uncut(p) ==
  \A s \in since[p] :
    Cardinality(Detected(s.world, panel[p].mechanism)
                  \intersect (panel[p].from..panel[p].to)) <= Limit

(* "No trips" is said only if at some time since the request began the     *)
(* last detector to be asked saw none, which for a caller who chose none   *)
(* is frequency analysis; whoever chose one is answered by that one; and a *)
(* trip both detectors saw all the while is shown unless the limit cuts.   *)
TripsAreShown ==
  \A p \in Panels : LET q == panel[p]  window == q.from..q.to IN
    Answered(p) /\ q.kind = "segments" =>
      /\ q.explicit # "" => q.mechanism = q.explicit
      /\ q.explicit = "" /\ q.shown = {} => \E s \in since[p] : s.world.frequency \intersect window = {}
      /\ \E s \in since[p] : q.shown \subseteq Detected(s.world, q.mechanism) \intersect window
      /\ q.explicit = "" /\ Uncut(p) =>
           { t \in window : \A s \in since[p] : t \in s.world.ignition \intersect s.world.frequency }
             \subseteq q.shown

(* Day activity agrees with the trips panel beside it: of equal windows,   *)
(* while nothing changed, each day has the trips shown (GetBehavior).      *)
PanelsAgree ==
  \A p, o \in Panels :
    /\ Answered(p) /\ panel[p].kind = "segments" /\ panel[p].explicit = ""
    /\ Answered(o) /\ panel[o].kind = "behavior"
    /\ panel[p].from = panel[o].from /\ panel[p].to = panel[o].to
    /\ Cardinality({ s.world : s \in since[p] \union since[o] }) = 1
    /\ Uncut(p)
    => /\ panel[p].mechanism = panel[o].mechanism
       /\ \A day \in panel[p].from..panel[p].to :
            panel[o].days[day] = Cardinality(panel[p].shown \intersect {day})

(* A vehicle that was out of scope all the while is refused whatever else  *)
(* is wrong with the request, unless that is told from the request alone;  *)
(* and the files sent are documents of the vehicle (vehicleInTenant,       *)
(* DownloadDocument).                                                      *)
RefusalsHold ==
  \A p \in Panels : LET q == panel[p] IN q.at = "done" =>
    /\ (\A s \in since[p] : s.world.scope = "out") /\ ~RefusedBeforeScope(q) => q.status \in {403, 503}
    /\ q.kind = "download" /\ q.status = 200 => q.shown \subseteq {"inline", "stored"}

ReadsHold == BannerIsAboutPermission /\ TripsAreShown /\ PanelsAgree /\ RefusalsHold
=============================================================================
