--------------------------- MODULE FleetReports ---------------------------
(***************************************************************************)
(* The charging report (charging_service.go) and the cost-of-ownership     *)
(* report (tco_service.go): a request lists the fleet, collects one        *)
(* vehicle after another, and sums up, while operators save settings       *)
(* (charging_settings_service.go), vehicles come and go and new sessions   *)
(* and receipts arrive.                                                    *)
(*                                                                         *)
(* What may be unset is a set of at most one value, so that what is        *)
(* computed from something unset is unset too.                             *)
(***************************************************************************)
EXTENDS Integers, FiniteSets, FiniteSetsExt

CONSTANTS
  Vehicles,
  Items,          \* charging sessions, or receipts
  Amount,         \* per item: its energy, or its cost
  Tariffs,        \* settings an operator may put: rate, gas, mpg, perMile, currency
  Assets,         \* and of a vehicle: price, age since purchase, life, currency
  MaxEdits        \* bound: changes while a report is built

VARIABLES
  fleet,    \* vehicles the caller sees
  items,    \* per vehicle: its items
  tariff,   \* the row of tenant_charging_settings, if there is one
  asset,    \* per vehicle: the row of vehicle_tco_settings, if there is one
  report,   \* the request
  since,    \* history: the items there were when it began, and the settings
            \* that were current at some time since
  edits

reportVars == <<fleet, items, tariff, asset, report, since, edits>>

The(option) == CHOOSE x \in option : TRUE
OrZero(option) == IF option = {} THEN 0 ELSE The(option)
Total(set, Of(_)) == MapThenSumSet(Of, set)

Idle == [kind |-> "none", at |-> "idle", listed |-> {}, todo |-> {}, skipped |-> {}, tariff |-> {},
         current |-> {}, got |-> {}, lines |-> {}, summaries |-> {}, totals |-> {}]

-----------------------------------------------------------------------------
(* GetSettings: nothing set, in dollars, when no row was saved. *)
Saved(row, default) == IF row = {} THEN default ELSE The(row)

NoTariff == [rate |-> {}, gas |-> {}, mpg |-> {}, perMile |-> {}, currency |-> "USD"]
NoAsset  == [price |-> {}, age |-> {}, life |-> {}, currency |-> "USD"]

FindVehicleTcoSetting(v) == asset[v]

(* Either UpsertSettings replaces the whole row. *)
InDollars(in) == [in EXCEPT !.currency = IF @ = "" THEN "USD" ELSE @]

UpsertTariff(in) == {InDollars(in)}
UpsertAsset(in)  == {InDollars(in)}

(* A comparison with gas needs all of its inputs, divisors not zero. *)
computeSessionCost(energy, t) ==
  LET cost == { e * rate : e \in energy, rate \in t.rate }
      gas  == { ((e \div perMile) \div mpg) * price :
                  e \in energy, perMile \in t.perMile \ {0}, mpg \in t.mpg \ {0}, price \in t.gas }
  IN  [cost |-> cost, savings |-> { g - c : g \in gas, c \in cost }]

toView(v, i, t) ==
  [vehicle |-> v, item |-> i, energy |-> Amount[i], currency |-> t.currency,
   price |-> computeSessionCost(Amount[i], t)]

(* A total is unset when no line has the figure. *)
SumOf(lines, Figure(_)) ==
  LET with == { l \in lines : Figure(l) # {} }
  IN  IF with = {} THEN {} ELSE {Total(with, LAMBDA l : The(Figure(l)))}

ChargingTotals(lines) ==
  [energy  |-> Total(lines, LAMBDA l : OrZero(l.energy)),
   cost    |-> SumOf(lines, LAMBDA l : l.price.cost),
   savings |-> SumOf(lines, LAMBDA l : l.price.savings)]

straightLineDepreciation(price, age, life) ==
  IF life <= 0 \/ price <= 0 \/ age <= 0 THEN 0
  ELSE Min({price, (price * age) \div life})

(* One vehicle's costs; receipts without an amount are only named. *)
VehicleSummary(v, got, a) ==
  LET lines     == { i \in got : Amount[i] # {} }
      operating == Total(lines, LAMBDA i : The(Amount[i]))
  IN  [vehicle |-> v, lines |-> lines, missing |-> got \ lines, settings |-> a,
       operating |-> operating, acquisition |-> OrZero(a.price),
       depreciation |-> OrZero({ straightLineDepreciation(p, n, l) :
                                   p \in a.price, n \in a.age, l \in a.life }),
       total |-> operating + OrZero(a.price)]

(* The rows of the exported file: amount and currency. *)
BuildCSV(s) ==
  { [what |-> i, amount |-> The(Amount[i])] : i \in s.lines }
  \union { [what |-> "purchase", amount |-> p] : p \in s.settings.price }
  \union { [what |-> "depreciation", amount |-> 0 - s.depreciation] : p \in s.settings.price }

(* One row per session; what is unset is left blank. *)
BuildChargingCSV(lines) ==
  { [vehicle |-> l.vehicle, item |-> l.item, cost |-> l.price.cost] : l \in lines }

-----------------------------------------------------------------------------
Proceed(to) ==
  /\ report' = to
  /\ UNCHANGED <<fleet, items, tariff, asset, since, edits>>

(* Of the charging or the cost of the fleet, or of one vehicle. *)
Start(kind, listed) ==
  /\ report.at = "idle"
  /\ report' = [Idle EXCEPT !.kind = kind, !.listed = listed, !.todo = listed,
                            !.at = IF kind = "charging" THEN "tariff" ELSE "collect"]
  /\ since' = [items   |-> items,
               tariffs |-> {Saved(tariff, NoTariff)},
               assets  |-> [v \in Vehicles |-> {Saved(asset[v], NoAsset)}]]
  /\ UNCHANGED <<fleet, items, tariff, asset, edits>>

GetChargingSummary   == Start("charging", fleet)
GetVehicleSessions   == \E v \in fleet : Start("sessions", {v})
GetSummary           == Start("tco", fleet)
GetVehicleDetail     == \E v \in fleet : Start("detail", {v})

(* Mutant: every vehicle's sessions are priced with what is saved by then. *)
PricesNow == Saved(tariff, NoTariff)

(* Charging is priced with the settings read before any vehicle. *)
Prices == The(report.tariff)

(* The fleet's report reads the settings first, that of one vehicle last. *)
GetSettings ==
  LET t == Saved(tariff, NoTariff)
  IN  /\ report.at = "tariff"
      /\ Proceed(IF report.kind = "charging"
                 THEN [report EXCEPT !.tariff = {t}, !.at = "collect"]
                 ELSE [report EXCEPT !.tariff = {t}, !.at = "done",
                         !.lines = { toView(v, i, t) : v \in report.listed, i \in report.got },
                         !.totals = {ChargingTotals({ toView(v, i, t) :
                                       v \in report.listed, i \in report.got })}])

(* Ten workers append under one lock. *)
CollectSessions(v) ==
  /\ report.at = "collect" /\ report.kind = "charging" /\ v \in report.todo
  /\ Proceed([report EXCEPT !.todo = @ \ {v},
                !.lines = @ \union { toView(v, i, Prices) : i \in items[v] }])

VehicleSessions(v) ==
  /\ report.at = "collect" /\ report.kind = "sessions" /\ v \in report.todo
  /\ Proceed([report EXCEPT !.todo = @ \ {v}, !.got = items[v], !.at = "tariff"])

(* A license without permissions on a vehicle reads no receipts. *)
ListDocuments(v) ==
  /\ report.at = "collect" /\ report.kind \in {"tco", "detail"} /\ v \in report.todo /\ v \in fleet
  /\ \E got \in {items[v], {}} :
       Proceed([report EXCEPT !.todo = @ \ {v}, !.current = {v}, !.got = got, !.at = "asset"])

SummarizeVehicle ==
  LET v == The(report.current)
  IN  /\ report.at = "asset"
      /\ Proceed([report EXCEPT !.at = "collect", !.current = {}, !.got = {},
                    !.summaries = @ \union {VehicleSummary(v, report.got, Saved(FindVehicleTcoSetting(v), NoAsset))}])

(* Mutant: one vehicle's failure ends the collection, and the reply is     *)
(* what was collected by then.                                             *)
SkipRest(v) == [report EXCEPT !.at = "collect", !.todo = {}, !.current = {}, !.got = {},
                              !.skipped = @ \union {v}]

(* One vehicle's failure, or its absence by now, is logged and passed over *)
Skip(v) == [report EXCEPT !.at = "collect", !.todo = @ \ {v}, !.current = {}, !.got = {},
                          !.skipped = @ \union {v}]

FailsFor(v) ==
  /\ report.kind \in {"charging", "tco"}
  /\ \/ report.at = "collect" /\ v \in report.todo
     \/ report.at = "asset" /\ v \in report.current
  /\ Proceed(Skip(v))

(* Without list or settings, and for a single vehicle, there is no reply. *)
Fails ==
  /\ \/ report.at = "tariff"
     \/ report.at \in {"collect", "asset"} /\ report.kind \in {"sessions", "detail"}
  /\ Proceed(Idle)

FleetTotals(summaries) ==
  [operating    |-> Total(summaries, LAMBDA s : s.operating),
   acquisition  |-> Total(summaries, LAMBDA s : s.acquisition),
   depreciation |-> Total(summaries, LAMBDA s : s.depreciation),
   total        |-> Total(summaries, LAMBDA s : s.total)]

FleetSummary ==
  /\ report.at = "collect" /\ report.todo = {}
  /\ Proceed([report EXCEPT !.at = "done",
                !.totals = {IF report.kind = "charging" THEN ChargingTotals(report.lines)
                                                        ELSE FleetTotals(report.summaries)}])

(* The files: the same collection, one vehicle's or the fleet's. *)
ExportTCO      == UNION { BuildCSV(s) : s \in report.summaries }
ExportCharging == BuildChargingCSV(report.lines)

-----------------------------------------------------------------------------
Meanwhile == report.at # "done" /\ edits < MaxEdits /\ edits' = edits + 1

PutChargingSettings(in) ==
  /\ Meanwhile
  /\ tariff' = UpsertTariff(in)
  /\ since' = [since EXCEPT !.tariffs = @ \union UpsertTariff(in)]
  /\ UNCHANGED <<fleet, items, asset, report>>

PutTCOSettings(v, in) ==
  /\ Meanwhile
  /\ v \in fleet
  /\ asset' = [asset EXCEPT ![v] = UpsertAsset(in)]
  /\ since' = [since EXCEPT !.assets[v] = @ \union UpsertAsset(in)]
  /\ UNCHANGED <<fleet, items, tariff, report>>

(* A sync or a change of scope; a session is found or a receipt uploaded. *)
FleetChanges(v) ==
  /\ Meanwhile
  /\ \/ /\ fleet' = IF v \in fleet THEN fleet \ {v} ELSE fleet \union {v}
        /\ UNCHANGED items
     \/ /\ \E i \in Items \ items[v] : items' = [items EXCEPT ![v] = @ \union {i}]
        /\ UNCHANGED fleet
  /\ UNCHANGED <<tariff, asset, report, since>>

Init ==
  /\ fleet = Vehicles /\ items \in [Vehicles -> SUBSET Items]
  /\ tariff = {} /\ asset = [v \in Vehicles |-> {}]
  /\ report = Idle /\ edits = 0
  /\ since = [items |-> items, tariffs |-> {}, assets |-> [v \in Vehicles |-> {}]]

Next ==
  \/ GetChargingSummary \/ GetVehicleSessions \/ GetSummary \/ GetVehicleDetail
  \/ GetSettings \/ SummarizeVehicle \/ Fails \/ FleetSummary
  \/ \E v \in Vehicles :
       \/ CollectSessions(v) \/ VehicleSessions(v) \/ ListDocuments(v) \/ FailsFor(v)
       \/ FleetChanges(v)
       \/ \E a \in Assets : PutTCOSettings(v, a)
  \/ \E t \in Tariffs : PutChargingSettings(t)

Spec == Init /\ [][Next]_reportVars

-----------------------------------------------------------------------------
TypeOK ==
  /\ fleet \subseteq Vehicles /\ items \in [Vehicles -> SUBSET Items]
  /\ Cardinality(tariff) <= 1 /\ \A v \in Vehicles : Cardinality(asset[v]) <= 1
  /\ report.at \in {"idle", "tariff", "collect", "asset", "done"}
  /\ report.todo \union report.skipped \union report.current \subseteq report.listed
  /\ edits \in 0..MaxEdits

(* All lines go by one price list that was current while the report was    *)
(* built, and a figure is blank, not zero, where an input was unset.       *)
OnePriceList ==
  \E t \in since.tariffs : \A l \in report.lines :
    /\ l.currency = t.currency
    /\ l.price.cost = {} <=> l.energy = {} \/ t.rate = {}
    /\ \A c \in l.price.cost : c = The(l.energy) * The(t.rate)
    /\ l.price.savings # {} =>
         l.price.cost # {} /\ t.gas # {} /\ t.mpg \notin {{}, {0}} /\ t.perMile \notin {{}, {0}}

(* The export's column is worth what the totals say, less depreciation. *)
ExportAddsUp(s) ==
  Total(BuildCSV(s), LAMBDA r : r.amount) = s.operating + s.acquisition - s.depreciation

(***************************************************************************)
(* Whatever is saved, found, uploaded, pruned or fails while a report is   *)
(* built, its totals are the sums of what it lists; every vehicle of the   *)
(* fleet it began with is listed or passed over, and what was passed over  *)
(* for a failure of its own is all that is missing; charging lines go by   *)
(* one price list; a vehicle's costs go by settings that were current      *)
(* while the report was built, and no vehicle loses more than it cost.     *)
(***************************************************************************)
ReportsAddUp ==
  report.at = "done" =>
    IF report.kind \in {"tco", "detail"}
    THEN LET totals == The(report.totals)
         IN  /\ { s.vehicle : s \in report.summaries } = report.listed \ report.skipped
             /\ Cardinality(report.summaries) = Cardinality(report.listed \ report.skipped)
             /\ totals.total = Total(report.summaries, LAMBDA s : Total(s.lines, LAMBDA i : The(Amount[i])))
                                 + totals.acquisition
             /\ \A s \in report.summaries :
                  /\ s.settings \in since.assets[s.vehicle]
                  /\ s.depreciation \in 0..s.acquisition
                  /\ ExportAddsUp(s) /\ BuildCSV(s) \subseteq ExportTCO
    ELSE LET totals == The(report.totals)
         IN  /\ OnePriceList
             /\ Cardinality(ExportCharging) = Cardinality(report.lines)
             /\ \A v \in report.listed \ report.skipped :
                  LET listed == { l.item : l \in { x \in report.lines : x.vehicle = v } }
                  IN  since.items[v] \subseteq listed /\ listed \subseteq items[v]
             /\ totals.cost = {} <=> \A l \in report.lines : l.price.cost = {}
             /\ totals.energy = Total({ l \in report.lines : l.energy # {} }, LAMBDA l : The(l.energy))
=============================================================================
