------------------------- MODULE VehicleDataProofs -------------------------
(***************************************************************************)
(* Proofs about what is kept about a vehicle (VehicleData), for any number *)
(* of requests, goroutines, runs, replicas, events and replies' limits.    *)
(* Of documents (DocumentLedger): the glovebox implements a shelf, costs   *)
(* and glovebox agree, and the pulls that uploads leave behind bring the   *)
(* vehicle's row up to date.  Of the sync: a row is lost only by a run     *)
(* that could see its vehicle revoked.  Of positions: replies and rows go  *)
(* back no further than caches, requests and writes last.                  *)
(***************************************************************************)
EXTENDS VehicleData, FiniteSetTheorems, TLAPS

Event == [type : Papers, carries : BOOLEAN, ours : BOOLEAN]
           \union [type : {"cost-amendment"}, of : Nat, ours : BOOLEAN]
           \union [type : {"tombstone"}, voids : SUBSET Nat, ours : BOOLEAN]
Upload == [at : {"idle", "raw", "parsed"}, event : Event \union {[type |-> "none"]}]
Plated == [plate : 0..MaxEvents, vin : 0..VinVC]
Pull   == [at : {"idle", "asleep", "list", "vc", "write"}, row : Plated,
           plate : 0..MaxEvents, vin : 0..VinVC, doc : 0..MaxEvents]

Shapes ==
  /\ ledger \in Seq(Event) /\ Len(ledger) <= MaxEvents
  /\ indexed \subseteq 1..Len(ledger)
  /\ uploader \in [Uploaders -> Upload]
  /\ puller \in [Pullers -> Pull]
  /\ plated \in Plated /\ missed \in BOOLEAN

(* A tombstone voids one event, which was indexed when its owner asked and *)
(* is no tombstone itself.                                                 *)
Buries(event) == \E d \in indexed : event.voids = {d} /\ ledger[d].type # "tombstone"

Buried ==
  /\ \A e \in 1..Len(ledger) : ledger[e].type = "tombstone" => Buries(ledger[e]) /\ \A d \in ledger[e].voids : d < e
  /\ \A u \in Uploaders : uploader[u].at # "idle" =>
       /\ uploader[u].event \in Event
       /\ uploader[u].event.type = "tombstone" => Buries(uploader[u].event)

LInv == Shapes /\ Buried

-----------------------------------------------------------------------------
(* Operators *)

LEMMA GreatestIs ==
  ASSUME NEW S \in SUBSET Nat, NEW n \in Nat, \A x \in S : x <= n
  PROVE  GreatestOf(S) \in Nat /\ (S # {} => GreatestOf(S) \in S) /\ (S = {} => GreatestOf(S) = 0)
<1>1. CASE S = {}
  BY <1>1 DEF GreatestOf
<1>2. CASE S # {}
  <2> DEFINE below == { d \in Nat : n - d \in S }
  <2>1. below # {} /\ below \in SUBSET Nat
    <3>1. PICK x \in S : TRUE
      BY <1>2
    <3>2. n - x \in Nat /\ n - (n - x) = x
      BY <3>1
    <3> QED
      BY <3>2
  <2>2. PICK d \in below : \A e \in below : ~(<<e, d>> \in OpToRel(<, Nat))
    BY <2>1, NatLessThanWellFounded, WFMin
  <2>3. \A e \in below : ~(e < d)
    BY <2>2 DEF OpToRel
  <2>4. \A y \in S : y <= n - d
    <3> SUFFICES ASSUME NEW y \in S
                 PROVE  y <= n - d
      OBVIOUS
    <3>1. n - y \in below /\ y \in Nat /\ y <= n /\ d \in Nat
      OBVIOUS
    <3>2. ~(n - y < d)
      BY <2>3, <3>1
    <3> QED
      BY <3>1, <3>2
  <2>5. \E e \in S : \A f \in S : f <= e
    BY <2>4
  <2> QED
    BY <1>2, <2>5 DEF GreatestOf
<1> QED
  BY <1>1, <1>2

LEMMA EventIs ==
  ASSUME NEW e \in Event
  PROVE  /\ e.type \in Papers \union {"cost-amendment", "tombstone"} /\ e.type # "none" /\ e.ours \in BOOLEAN
         /\ e.type \in Papers => e.carries \in BOOLEAN
BY PapersAssumption DEF Event

LEMMA AppendIs ==
  ASSUME Shapes, NEW event \in Event
  PROVE  /\ Append(ledger, event) \in Seq(Event) /\ Len(Append(ledger, event)) = Len(ledger) + 1
         /\ \A e \in 1..Len(ledger) : Append(ledger, event)[e] = ledger[e]
         /\ Append(ledger, event)[Len(ledger) + 1] = event
BY DEF Shapes

LEMMA EventsAre ==
  ASSUME Shapes
  PROVE  /\ Events = 1..Len(ledger) /\ Len(ledger) \in Nat /\ indexed \in SUBSET Nat
         /\ \A e \in 1..Len(ledger) : ledger[e] \in Event
         /\ \A e \in indexed : e \in Nat /\ e <= MaxEvents /\ ledger[e] \in Event
         /\ MaxEvents \in Nat
BY LimitsAssumption DEF Shapes, Events

(* The documents of some types that a reader can still get, and what of    *)
(* them fits its limit.                                                    *)
Alive(types) == { e \in indexed : ledger[e].type \in types /\ ~Suppressed(e) }

LEMMA ListIs ==
  ASSUME NEW types, NEW limit
  PROVE  ListByDIDAndTypes(types, limit)
           = { e \in Alive(types) : Cardinality({ f \in Alive(types) : f > e }) < limit }
BY DEF ListByDIDAndTypes, Alive

(* The ledger grows behind the index, and no reader notices. *)
LEMMA UnseenGrowth ==
  ASSUME Shapes, NEW types, indexed' = indexed,
         \A e \in 1..Len(ledger) : ledger'[e] = ledger[e]
  PROVE  /\ Alive(types)' = Alive(types)
         /\ \A limit : ListByDIDAndTypes(types, limit)' = ListByDIDAndTypes(types, limit)
         /\ \A e \in indexed : ledger'[e] = ledger[e]
<1>1. \A e \in indexed : ledger'[e] = ledger[e]
  BY DEF Shapes
<1>2. \A e \in indexed : Suppressed(e)' <=> Suppressed(e)
  BY <1>1 DEF Suppressed
<1>3. Alive(types)' = Alive(types)
  BY <1>1, <1>2 DEF Alive
<1>4. ASSUME NEW limit
      PROVE  ListByDIDAndTypes(types, limit)' = ListByDIDAndTypes(types, limit)
  BY <1>1, <1>2, <1>3 DEF ListByDIDAndTypes, Alive
<1> QED
  BY <1>1, <1>3, <1>4

-----------------------------------------------------------------------------
(* The ledger and the requests *)

LEMMA BuriesStays ==
  ASSUME NEW event, Buries(event), indexed \subseteq indexed', \A e \in indexed : ledger'[e] = ledger[e]
  PROVE  Buries(event)'
BY DEF Buries

(* Everything but the requests stays, and one of these goes on. *)
LEMMA RequestKeeps ==
  ASSUME LInv, NEW u \in Uploaders, NEW x \in Upload, uploader' = [uploader EXCEPT ![u] = x],
         x.at # "idle" => x.event \in Event /\ (x.event.type = "tombstone" => Buries(x.event)),
         ledger' = ledger, indexed' = indexed, puller' = puller, plated' = plated, missed' = missed
  PROVE  LInv'
<1>1. Shapes'
  BY DEF LInv, Shapes
<1>2. \A event : Buries(event)' <=> Buries(event)
  BY DEF Buries
<1>3. \A v \in Uploaders : uploader'[v] = IF v = u THEN x ELSE uploader[v]
  BY DEF LInv, Shapes
<1> QED
  BY <1>1, <1>2, <1>3 DEF LInv, Buried

LEMMA AsksKeep ==
  ASSUME LInv, NEW u \in Uploaders,
         \/ \E paper \in Papers, carries \in BOOLEAN : Attest(u, paper, carries)
         \/ \E e \in indexed : ledger[e].type # "tombstone" /\ Delete(u, e)
         \/ \E d \in { e \in indexed : ledger[e].type = "receipt" } : BackfillAmount(u, d)
         \/ SubmitRaw(u)
  PROVE  LInv'
<1>1. Shapes /\ Buried
  BY DEF LInv
<1>2. Idle \in Upload /\ Idle.at = "idle"
  BY DEF Idle, Upload
<1>3. ASSUME NEW paper \in Papers, NEW carries \in BOOLEAN, Attest(u, paper, carries)
      PROVE  LInv'
  <2> DEFINE x == [at |-> "raw", event |-> ParsedEvent(paper, carries)]
  <2>1. ParsedEvent(paper, carries) \in Event /\ ParsedEvent(paper, carries).type \in Papers
    BY DEF ParsedEvent, Event
  <2>2. x \in Upload /\ x.event = ParsedEvent(paper, carries) /\ x.event.type # "tombstone"
    BY <2>1, PapersAssumption DEF Upload
  <2> QED
    BY <1>3, <2>1, <2>2, RequestKeeps DEF Attest
<1>4. ASSUME NEW e \in indexed, ledger[e].type # "tombstone", Delete(u, e)
      PROVE  LInv'
  <2> DEFINE t == [type |-> "tombstone", voids |-> {e}, ours |-> TRUE]
             x == [at |-> "parsed", event |-> t]
  <2>1. e \in Nat /\ ledger[e] \in Event
    BY <1>1, EventsAre
  <2>2. t \in Event /\ x \in Upload /\ x.event = t
    BY <2>1 DEF Event, Upload
  <2>3. Buries(t)
    BY <1>4 DEF Buries
  <2> QED
    BY <1>4, <2>2, <2>3, RequestKeeps DEF Delete
<1>5. ASSUME NEW d \in indexed, BackfillAmount(u, d)
      PROVE  LInv'
  <2> DEFINE x == [at |-> "parsed", event |-> CostAmendment(d)]
  <2>1. d \in Nat
    BY <1>1, EventsAre
  <2>2. CostAmendment(d) \in Event /\ CostAmendment(d).type # "tombstone"
    BY <2>1 DEF CostAmendment, Event
  <2>3. x \in Upload /\ x.event = CostAmendment(d)
    BY <2>2 DEF Upload
  <2> QED
    BY <1>5, <2>2, <2>3, RequestKeeps DEF BackfillAmount
<1>6. CASE SubmitRaw(u)
  <2>1. PICK o \in Upload : o = uploader[u]
    BY <1>1 DEF Shapes
  <2>2. PICK x \in Upload : x = [o EXCEPT !.at = "parsed"]
    BY DEF Upload
  <2>3. x.event = o.event /\ x.at = "parsed" /\ o.at = "raw"
    BY <1>6, <2>1, <2>2 DEF Upload, SubmitRaw
  <2>4. uploader' = [uploader EXCEPT ![u] = x] \/ uploader' = [uploader EXCEPT ![u] = Idle]
    BY <1>1, <1>6, <2>1, <2>2 DEF SubmitRaw, Shapes
  <2>5. x.event \in Event /\ (x.event.type = "tombstone" => Buries(x.event))
    BY <1>1, <2>1, <2>3 DEF Buried
  <2> QED
    BY <1>2, <1>6, <2>4, <2>5, RequestKeeps DEF SubmitRaw
<1> QED
  BY <1>3, <1>4, <1>5, <1>6

LEMMA IdlePullIs == IdlePull \in Pull /\ IdlePull.at = "idle"
<1>1. 0 \in 0..MaxEvents /\ 0 \in 0..VinVC
  BY LimitsAssumption DEF VinVC
<1> QED
  BY <1>1 DEF IdlePull, Pull, Plated

(* An event is appended, by an upload or by another license. *)
LEMMA GrowthKeeps ==
  ASSUME LInv, NEW event \in Event, Len(ledger) < MaxEvents, ledger' = Append(ledger, event), indexed' = indexed,
         event.type = "tombstone" => Buries(event),
         NEW u, uploader' = uploader \/ uploader' = [uploader EXCEPT ![u] = Idle],
         puller' \in [Pullers -> Pull], plated' = plated, missed' \in BOOLEAN
  PROVE  LInv'
<1>1. Shapes /\ Buried /\ Idle \in Upload /\ Idle.at = "idle"
  BY DEF LInv, Idle, Upload
<1>2. /\ ledger' \in Seq(Event) /\ Len(ledger') = Len(ledger) + 1
      /\ \A e \in 1..Len(ledger) : ledger'[e] = ledger[e]
      /\ ledger'[Len(ledger) + 1] = event
  BY <1>1, AppendIs
<1>3. Len(ledger) \in Nat /\ MaxEvents \in Nat /\ indexed \in SUBSET Nat /\ \A e \in indexed : e <= Len(ledger)
  BY <1>1, EventsAre DEF Shapes
<1>4. Shapes'
  BY <1>1, <1>2, <1>3 DEF Shapes
<1>5. \A e \in indexed : ledger'[e] = ledger[e]
  BY <1>1, <1>2 DEF Shapes
<1>6. ASSUME NEW e \in 1..Len(ledger'), ledger'[e].type = "tombstone"
      PROVE  Buries(ledger[e])' /\ \A d \in ledger'[e].voids : d < e
  <2>1. \E t : t = ledger'[e] /\ Buries(t) /\ \A d \in t.voids : d < e
    <3>1. CASE e \in 1..Len(ledger)
      BY <1>1, <1>2, <1>6, <3>1 DEF Buried
    <3>2. CASE e = Len(ledger) + 1
      BY <1>2, <1>3, <1>6, <3>2 DEF Buries
    <3> QED
      BY <1>2, <1>3, <3>1, <3>2
  <2>2. PICK t : t = ledger'[e] /\ Buries(t) /\ \A d \in t.voids : d < e
    BY <2>1
  <2>3. Buries(t)'
    BY <1>5, <2>2, BuriesStays
  <2> QED
    BY <2>2, <2>3 DEF Buries
<1>7. ASSUME NEW v \in Uploaders, uploader'[v].at # "idle"
      PROVE  /\ uploader'[v].event \in Event
             /\ uploader'[v].event.type = "tombstone" => Buries(uploader[v].event)'
  <2>1. uploader'[v] = uploader[v]
    BY <1>1, <1>7 DEF Shapes
  <2>2. PICK t : t = uploader[v].event /\ t \in Event /\ (t.type = "tombstone" => Buries(t))
    BY <1>1, <1>7, <2>1 DEF Buried
  <2>3. t.type = "tombstone" => Buries(t)'
    BY <1>5, <2>2, BuriesStays
  <2> QED
    BY <2>1, <2>2, <2>3 DEF Buries
<1>8. Buried'
  BY <1>6, <1>7 DEF Buried
<1> QED
  BY <1>4, <1>8 DEF LInv

LEMMA SubmitsKeep ==
  ASSUME LInv, NEW u \in Uploaders, SubmitParsed(u) \/ SubmitFails(u)
  PROVE  LInv'
<1>1. Shapes /\ Buried /\ Idle \in Upload /\ Idle.at = "idle" /\ Len(ledger) \in Nat
  BY EventsAre DEF LInv, Idle, Upload
<1>2. PICK event \in Event : event = uploader[u].event /\ (event.type = "tombstone" => Buries(event))
  BY <1>1 DEF SubmitParsed, SubmitFails, Buried
<1>3. uploader' = [uploader EXCEPT ![u] = Idle] /\ indexed' = indexed /\ plated' = plated
  BY DEF SubmitParsed, SubmitFails
<1>4. CASE SubmitFails(u) /\ UNCHANGED <<ledger, missed>>
  BY <1>1, <1>3, <1>4, RequestKeeps DEF SubmitFails
<1>5. CASE Len(ledger) < MaxEvents /\ ledger' = Append(ledger, event)
  <2>1. puller' \in [Pullers -> Pull]
    <3>1. CASE puller' = puller
      BY <1>1, <3>1 DEF Shapes
    <3>2. CASE SubmitParsed(u) /\ puller' # puller
      <4>1. PICK p \in Pullers : puller' = [puller EXCEPT ![p] = [IdlePull EXCEPT !.at = "asleep", !.doc = Len(ledger) + 1]]
        BY <3>2 DEF SubmitParsed
      <4>2. [IdlePull EXCEPT !.at = "asleep", !.doc = Len(ledger) + 1] \in Pull
        <5>1. MaxEvents \in Nat /\ Len(ledger) + 1 \in 0..MaxEvents /\ 0 \in 0..MaxEvents /\ 0 \in 0..VinVC
          BY <1>1, <1>5, LimitsAssumption DEF VinVC
        <5>2. IdlePull \in Pull
          BY <5>1, IdlePullIs
        <5> QED
          BY <5>1, <5>2 DEF Pull
      <4> QED
        BY <1>1, <4>1, <4>2 DEF Shapes
    <3> QED
      BY <3>1, <3>2 DEF SubmitFails
  <2>2. missed' \in BOOLEAN
    BY <1>1 DEF Shapes, SubmitParsed, SubmitFails
  <2> QED
    BY <1>2, <1>3, <1>5, <2>1, <2>2, GrowthKeeps DEF LInv
<1> QED
  BY <1>2, <1>4, <1>5 DEF SubmitParsed, SubmitFails

LEMMA ThirdPartyKeeps ==
  ASSUME LInv, NEW paper \in Papers, ThirdParty(paper)
  PROVE  LInv'
<1> DEFINE event == [type |-> paper, carries |-> TRUE, ours |-> FALSE]
<1>1. event \in Event /\ event.type # "tombstone"
  BY PapersAssumption DEF Event
<1>2. puller \in [Pullers -> Pull]
  BY DEF LInv, Shapes
<1> HIDE DEF event
<1>3. /\ Len(ledger) < MaxEvents /\ ledger' = Append(ledger, event) /\ missed' = TRUE
      /\ indexed' = indexed /\ uploader' = uploader /\ puller' = puller /\ plated' = plated
  BY DEF ThirdParty, event
<1> QED
  BY <1>1, <1>2, <1>3, GrowthKeeps

LEMMA IndexKeeps ==
  ASSUME LInv, NEW e \in Events, IndexEvent(e)
  PROVE  LInv'
<1>1. Shapes /\ Buried /\ Events = 1..Len(ledger)
  BY EventsAre DEF LInv
<1>2. /\ indexed' = indexed \union {e} /\ missed' \in BOOLEAN
      /\ ledger' = ledger /\ uploader' = uploader /\ puller' = puller /\ plated' = plated
  BY <1>1 DEF IndexEvent, Shapes
<1>3. \A event : Buries(event) => Buries(event)'
  BY <1>2 DEF Buries
<1> QED
  BY <1>1, <1>2, <1>3 DEF LInv, Shapes, Buried

-----------------------------------------------------------------------------
(* The goroutines *)

(* One of them goes on, and nothing else but the row. *)
LEMMA PullKeeps ==
  ASSUME LInv, NEW p, NEW x \in Pull, puller' = [puller EXCEPT ![p] = x],
         ledger' = ledger, indexed' = indexed, uploader' = uploader, plated' \in Plated, missed' \in BOOLEAN
  PROVE  LInv'
<1>1. Shapes'
  BY DEF LInv, Shapes
<1>2. \A event : Buries(event) => Buries(event)'
  BY DEF Buries
<1> QED
  BY <1>1, <1>2 DEF LInv, Buried

(* What the newest registration says. *)
Newest == LatestRegistrationField(ListByDIDAndTypes({"registration"}, PlateLimit))

LEMMA FieldIs ==
  ASSUME Shapes, NEW list \in SUBSET indexed
  PROVE  LatestRegistrationField(list) \in 0..MaxEvents
<1> DEFINE with == { e \in list : ledger[e].carries }
<1>1. with \in SUBSET Nat /\ MaxEvents \in Nat /\ \A e \in with : e <= MaxEvents
  BY EventsAre
<1>2. GreatestOf(with) \in Nat /\ GreatestOf(with) <= MaxEvents
  <2>1. GreatestOf(with) \in Nat /\ (with # {} => GreatestOf(with) \in with) /\ (with = {} => GreatestOf(with) = 0)
    BY <1>1, GreatestIs
  <2> QED
    BY <1>1, <2>1
<1> QED
  BY <1>1, <1>2 DEF LatestRegistrationField

(* A goroutine that lists goes on with what it found. *)
LEMMA ListingIs ==
  ASSUME Shapes, NEW p \in Pullers, ListRegistrations(p)
  PROVE  /\ Newest \in 0..MaxEvents /\ puller[p] \in Pull
         /\ \E x \in Pull :
              /\ x.at = (IF Newest = 0 /\ puller[p].row.vin = 0 THEN "vc" ELSE "write")
              /\ x.plate = Newest /\ x.vin = Newest
              /\ x.row = puller[p].row /\ x.doc = puller[p].doc
              /\ puller' = [puller EXCEPT ![p] = x]
<1> DEFINE list == ListByDIDAndTypes({"registration"}, PlateLimit)
           at   == IF Newest = 0 /\ puller[p].row.vin = 0 THEN "vc" ELSE "write"
<1>1. Newest \in 0..MaxEvents /\ Newest \in 0..VinVC
  <2>1. list \in SUBSET indexed
    BY DEF ListByDIDAndTypes
  <2>2. Newest \in 0..MaxEvents
    BY <2>1, FieldIs DEF Newest
  <2> QED
    BY <2>2, LimitsAssumption DEF VinVC
<1>2. PICK o \in Pull : o = puller[p]
  BY DEF Shapes
<1>3. puller' = [puller EXCEPT ![p].at = at, ![p].plate = Newest, ![p].vin = Newest]
  <2>1. PICK read \in decodeFetchResponse(list) :
          /\ read.ok
          /\ puller' = [puller EXCEPT
               ![p].at = IF LatestRegistrationField(read.list) = 0 /\ puller[p].row.vin = 0 THEN "vc" ELSE "write",
               ![p].plate = LatestRegistrationField(read.list), ![p].vin = LatestRegistrationField(read.list)]
    BY DEF ListRegistrations
  <2>2. read.list = list
    BY <2>1 DEF decodeFetchResponse
  <2> QED
    BY <2>1, <2>2 DEF Newest
<1>4. at \in {"vc", "write"}
  OBVIOUS
<1> HIDE DEF at
<1>5. PICK x \in Pull : x = [o EXCEPT !.at = at, !.plate = Newest, !.vin = Newest]
  BY <1>1, <1>4 DEF Pull
<1>6. puller' = [puller EXCEPT ![p] = x]
  BY <1>2, <1>3, <1>5 DEF Shapes
<1>7. x.at = at /\ x.plate = Newest /\ x.vin = Newest /\ x.row = o.row /\ x.doc = o.doc
  BY <1>5 DEF Pull
<1> QED
  BY <1>1, <1>2, <1>6, <1>7 DEF at

LEMMA PullsKeep ==
  ASSUME LInv, NEW p \in Pullers,
         LoadVehicle(p) \/ ListRegistrations(p) \/ AskVIN(p) \/ SyncVehicle(p) \/ PullDies(p)
  PROVE  LInv'
<1>1. Shapes /\ plated \in Plated
  BY DEF LInv, Shapes
<1>2. PICK o \in Pull : o = puller[p]
  BY <1>1 DEF Shapes
<1>3. CASE LoadVehicle(p)
  <2>1. PICK x \in Pull : x = [o EXCEPT !.at = "list", !.row = plated]
    BY <1>1 DEF Pull
  <2>2. puller' = [puller EXCEPT ![p] = x]
    BY <1>1, <1>2, <1>3, <2>1 DEF LoadVehicle, VehicleRow, Shapes
  <2> QED
    BY <1>1, <1>3, <2>2, PullKeeps DEF LoadVehicle, Shapes
<1>4. CASE ListRegistrations(p)
  <2>1. PICK x \in Pull : puller' = [puller EXCEPT ![p] = x]
    BY <1>1, <1>4, ListingIs
  <2>2. missed' \in BOOLEAN
    BY <1>1, <1>4 DEF ListRegistrations, Shapes
  <2> QED
    BY <1>1, <1>4, <2>1, <2>2, PullKeeps DEF ListRegistrations
<1>5. CASE AskVIN(p)
  <2>1. PICK vin \in VINFromVC : puller' = [puller EXCEPT ![p].at = "write", ![p].vin = vin]
    BY <1>5 DEF AskVIN
  <2>2. vin \in 0..VinVC
    BY LimitsAssumption DEF VINFromVC, VinVC
  <2>3. PICK x \in Pull : x = [o EXCEPT !.at = "write", !.vin = vin]
    BY <2>2 DEF Pull
  <2>4. puller' = [puller EXCEPT ![p] = x]
    BY <1>1, <1>2, <2>1, <2>3 DEF Shapes
  <2> QED
    BY <1>1, <1>5, <2>4, PullKeeps DEF AskVIN, Shapes
<1>6. CASE SyncVehicle(p)
  <2>1. plated' \in Plated
    BY <1>1, <1>2, <1>6 DEF SyncVehicle, Changed, Plated, Pull
  <2>2. missed' \in BOOLEAN
    BY <1>1, <1>6 DEF SyncVehicle, Shapes
  <2> QED
    BY <1>6, <2>1, <2>2, IdlePullIs, PullKeeps DEF SyncVehicle
<1>7. CASE PullDies(p)
  BY <1>1, <1>7, IdlePullIs, PullKeeps DEF PullDies
<1> QED
  BY <1>3, <1>4, <1>5, <1>6, <1>7

-----------------------------------------------------------------------------
(* The ledger is append-only and well-formed whatever happens. *)

LEMMA NextKeeps ==
  ASSUME LInv, [Next]_docVars
  PROVE  LInv'
<1>1. CASE UNCHANGED docVars
  BY <1>1 DEF docVars, LInv, Shapes, Buried, Buries
<1>2. CASE Next
  BY <1>2, AsksKeep, SubmitsKeep, IndexKeeps, ThirdPartyKeeps, PullsKeep DEF Next
<1> QED
  BY <1>1, <1>2

LEMMA StartsWell ==
  ASSUME Init
  PROVE  LInv
<1>1. Idle \in Upload /\ Idle.at = "idle" /\ MaxEvents \in Nat
  BY LimitsAssumption DEF Idle, Upload
<1>2. plated \in Plated
  BY <1>1 DEF Init, Plated, VinVC
<1>3. ledger = <<>> /\ Len(ledger) = 0 /\ ledger \in Seq(Event) /\ indexed = {}
  BY DEF Init
<1>4. uploader \in [Uploaders -> Upload] /\ \A u \in Uploaders : uploader[u].at = "idle"
  BY <1>1 DEF Init
<1>5. puller \in [Pullers -> Pull] /\ missed \in BOOLEAN
  BY IdlePullIs DEF Init
<1>6. Shapes
  BY <1>1, <1>2, <1>3, <1>4, <1>5 DEF Shapes
<1>7. Buried
  BY <1>3, <1>4 DEF Buried
<1> QED
  BY <1>6, <1>7 DEF LInv

LEMMA AlwaysLInv == Spec => []LInv
<1>1. Init => LInv
  BY StartsWell
<1>2. LInv /\ [Next]_docVars => LInv'
  BY NextKeeps
<1> QED
  BY <1>1, <1>2, PTL DEF Spec

(* The ledger stays within its bound, the index names events of it, and    *)
(* the row holds places of it (AttestDocument, SyncVehicle).               *)
THEOREM TypeCorrect == Spec => []TypeOK
<1>1. LInv => TypeOK
  <2> SUFFICES ASSUME LInv
               PROVE  TypeOK
    OBVIOUS
  <2>1. Events = 1..Len(ledger) /\ \A e \in 1..Len(ledger) : ledger[e] \in Event
    BY EventsAre DEF LInv
  <2>2. \A e \in Events : ledger[e].type \in Papers \union {"tombstone", "cost-amendment"}
    BY <2>1, EventIs
  <2> QED
    BY <2>1, <2>2 DEF LInv, Shapes, Plated, TypeOK
<1> QED
  BY <1>1, AlwaysLInv, PTL

-----------------------------------------------------------------------------
(* The row follows the newest registration.  Until something is missed,    *)
(* every registration the index does not have yet has a goroutine that     *)
(* will list after it; a goroutine that has read the row has read what the *)
(* row still says; one that has listed found what is still the newest,     *)
(* unless another one is under way; and when none is, the row says it.     *)

FieldsAgree == \A p \in Pullers :
  /\ puller[p].at = "vc" => puller[p].plate = 0
  /\ puller[p].at = "write" /\ puller[p].plate # 0 => puller[p].vin = puller[p].plate

Followed == \A e \in (1..Len(ledger)) \ indexed : ledger[e].type = "registration" =>
  \E p \in Pullers : puller[p].at \in {"asleep", "list"} /\ puller[p].doc = e

RowsRead == \A p \in Pullers : puller[p].at \in {"list", "vc", "write"} => puller[p].row = plated

NewestRead == \A p \in Pullers : puller[p].at \in {"vc", "write"} =>
  puller[p].plate = Newest \/ \E q \in Pullers \ {p} : puller[q].at # "idle"

Settled ==
  Newest # 0 /\ (\A p \in Pullers : puller[p].at = "idle") => plated = [plate |-> Newest, vin |-> Newest]

PInv == FieldsAgree /\ (~missed => Followed /\ RowsRead /\ NewestRead /\ Settled)

LEMMA SameNewest ==
  ASSUME Shapes, indexed' = indexed, \A e \in 1..Len(ledger) : ledger'[e] = ledger[e]
  PROVE  Newest' = Newest
<1> DEFINE list == ListByDIDAndTypes({"registration"}, PlateLimit)
<1>1. list' = list /\ \A e \in indexed : ledger'[e] = ledger[e]
  BY UnseenGrowth
<1>2. list \subseteq indexed
  BY DEF ListByDIDAndTypes
<1> HIDE DEF list
<1>3. { e \in list' : ledger'[e].carries } = { e \in list : ledger[e].carries }
  BY <1>1, <1>2
<1> QED
  BY <1>3 DEF Newest, LatestRegistrationField, list

(* What is no registration and voids none shows no reader another one. *)
LEMMA OtherNewest ==
  ASSUME Shapes, NEW e \in 1..Len(ledger), e \notin indexed, indexed' = indexed \union {e}, ledger' = ledger,
         ledger[e].type \notin {"registration", "tombstone"}
  PROVE  Newest' = Newest
<1>1. \A d : Suppressed(d)' <=> Suppressed(d)
  BY DEF Suppressed
<1>2. Alive({"registration"})' = Alive({"registration"})
  BY <1>1 DEF Alive
<1>3. ListByDIDAndTypes({"registration"}, PlateLimit)' = ListByDIDAndTypes({"registration"}, PlateLimit)
  <2>1. ListByDIDAndTypes({"registration"}, PlateLimit)'
           = { d \in Alive({"registration"})' : Cardinality({ f \in Alive({"registration"})' : f > d }) < PlateLimit }
    BY DEF ListByDIDAndTypes, Alive
  <2> QED
    BY <1>2, <2>1, ListIs
<1> QED
  BY <1>3 DEF Newest, LatestRegistrationField

(* Whatever shows no goroutine anything. *)
LEMMA UnseenByPulls ==
  ASSUME LInv, PInv, ledger' = ledger, indexed' = indexed, puller' = puller, plated' = plated, missed' = missed
  PROVE  PInv'
<1>1. Newest' = Newest
  BY SameNewest DEF LInv
<1> QED
  BY <1>1 DEF PInv, FieldsAgree, Followed, RowsRead, NewestRead, Settled

LEMMA GrowthIsFollowed ==
  ASSUME LInv, PInv, NEW event \in Event, ledger' = Append(ledger, event), indexed' = indexed, plated' = plated,
         \/ /\ puller' = puller
            /\ missed' = TRUE \/ (missed' = missed /\ event.type # "registration")
         \/ /\ missed' = missed
            /\ \E p \in Pullers, x \in Pull :
                 /\ x.at = "asleep" /\ x.doc = Len(ledger) + 1
                 /\ puller[p].at = "idle" /\ puller' = [puller EXCEPT ![p] = x]
  PROVE  PInv'
<1>1. /\ Shapes /\ Len(ledger') = Len(ledger) + 1 /\ Len(ledger) \in Nat
      /\ \A e \in 1..Len(ledger) : ledger'[e] = ledger[e]
      /\ ledger'[Len(ledger) + 1] = event
  BY AppendIs, EventsAre DEF LInv
<1>2. Newest' = Newest
  BY <1>1, SameNewest
<1>3. 1..Len(ledger') = (1..Len(ledger)) \union {Len(ledger) + 1}
  BY <1>1
<1>4. CASE puller' = puller
  <2>1. missed' \/ (missed' = missed /\ (event.type # "registration" \/ \E p \in Pullers : puller'[p].at \in {"asleep", "list"} /\ puller'[p].doc = Len(ledger) + 1))
    BY <1>1, <1>4 DEF Shapes
  <2>2. FieldsAgree'
    BY <1>4 DEF PInv, FieldsAgree
  <2>3. ~missed' => Followed'
    BY <1>1, <1>3, <1>4, <2>1 DEF PInv, Followed
  <2>4. ~missed' => RowsRead' /\ NewestRead' /\ Settled'
    BY <1>2, <1>4, <2>1 DEF PInv, RowsRead, NewestRead, Settled
  <2> QED
    BY <2>2, <2>3, <2>4 DEF PInv
<1>5. ASSUME NEW p \in Pullers, NEW x \in Pull, x.at = "asleep", x.doc = Len(ledger) + 1, missed' = missed,
             puller[p].at = "idle", puller' = [puller EXCEPT ![p] = x]
      PROVE  PInv'
  <2>1. \A q \in Pullers : puller'[q] = IF q = p THEN x ELSE puller[q]
    BY <1>1, <1>5 DEF Shapes
  <2>2. FieldsAgree'
    BY <1>5, <2>1 DEF PInv, FieldsAgree
  <2>3. ~missed' => RowsRead'
    BY <1>5, <2>1 DEF PInv, RowsRead
  <2>4. ~missed' => NewestRead'
    BY <1>2, <1>5, <2>1 DEF PInv, NewestRead
  <2>5. Settled'
    BY <1>5, <2>1 DEF Settled
  <2>6. ~missed' => Followed'
    BY <1>1, <1>3, <1>5, <2>1 DEF PInv, Followed
  <2> QED
    BY <2>2, <2>3, <2>4, <2>5, <2>6 DEF PInv
<1> QED
  BY <1>4, <1>5

LEMMA IndexIsFollowed ==
  ASSUME LInv, PInv, NEW e \in Events, IndexEvent(e)
  PROVE  PInv'
<1>1. Shapes /\ e \in 1..Len(ledger) /\ e \notin indexed
  BY EventsAre DEF LInv, IndexEvent
<1>2. /\ indexed' = indexed \union {e} /\ missed' = (missed \/ ledger[e].type = "tombstone")
      /\ ledger' = ledger /\ puller' = puller /\ plated' = plated
  BY DEF IndexEvent
<1>3. FieldsAgree'
  BY <1>2 DEF PInv, FieldsAgree
<1>4. ASSUME ~missed'
      PROVE  Followed' /\ RowsRead' /\ NewestRead' /\ Settled'
  <2>1. ~missed /\ ledger[e].type # "tombstone" /\ Followed /\ RowsRead /\ NewestRead /\ Settled
    BY <1>2, <1>4 DEF PInv
  <2>2. Followed' /\ RowsRead'
    BY <1>2, <2>1 DEF Followed, RowsRead
  <2>3. CASE ledger[e].type # "registration"
    <3>1. Newest' = Newest
      BY <1>1, <1>2, <2>1, <2>3, OtherNewest
    <3> QED
      BY <1>2, <2>1, <2>2, <3>1 DEF NewestRead, Settled
  <2>4. CASE ledger[e].type = "registration"
    <3>1. PICK q \in Pullers : puller[q].at \in {"asleep", "list"}
      BY <1>1, <2>1, <2>4 DEF Followed
    <3>2. NewestRead'
      BY <1>2, <3>1 DEF NewestRead
    <3>3. Settled'
      BY <1>2, <3>1 DEF Settled
    <3> QED
      BY <2>2, <3>2, <3>3
  <2> QED
    BY <2>3, <2>4
<1> QED
  BY <1>3, <1>4 DEF PInv

LEMMA PullsAreFollowed ==
  ASSUME LInv, PInv, NEW p \in Pullers,
         LoadVehicle(p) \/ ListRegistrations(p) \/ AskVIN(p) \/ SyncVehicle(p) \/ PullDies(p)
  PROVE  PInv'
<1>1. Shapes
  BY DEF LInv
<1>2. PICK o \in Pull : o = puller[p]
  BY <1>1 DEF Shapes
<1>3. ledger' = ledger /\ indexed' = indexed
  BY DEF LoadVehicle, ListRegistrations, AskVIN, SyncVehicle, PullDies
<1>4. Newest' = Newest
  BY <1>1, <1>3, SameNewest
<1>5. \A x : puller' = [puller EXCEPT ![p] = x] => \A q \in Pullers : puller'[q] = IF q = p THEN x ELSE puller[q]
  BY <1>1 DEF Shapes
<1>6. CASE LoadVehicle(p)
  <2>1. PICK x \in Pull : x = [o EXCEPT !.at = "list", !.row = plated]
    BY <1>1 DEF Pull, Shapes
  <2>2. puller' = [puller EXCEPT ![p] = x]
    BY <1>1, <1>2, <1>6, <2>1 DEF LoadVehicle, VehicleRow, Shapes
  <2>3. x.at = "list" /\ x.row = plated /\ x.doc = o.doc /\ o.at = "asleep" /\ plated' = plated /\ missed' = missed
    BY <1>2, <1>6, <2>1 DEF Pull, LoadVehicle
  <2>4. \A q \in Pullers : puller'[q] = IF q = p THEN x ELSE puller[q]
    BY <1>5, <2>2
  <2>5. FieldsAgree'
    BY <2>3, <2>4 DEF PInv, FieldsAgree
  <2>6. ~missed' => Followed'
    BY <1>2, <1>3, <2>3, <2>4 DEF PInv, Followed
  <2>7. ~missed' => RowsRead'
    BY <2>3, <2>4 DEF PInv, RowsRead
  <2>8. ~missed' => NewestRead'
    BY <1>4, <2>3, <2>4 DEF PInv, NewestRead
  <2>9. Settled'
    BY <2>3, <2>4 DEF Settled
  <2> QED
    BY <2>5, <2>6, <2>7, <2>8, <2>9 DEF PInv
<1>7. CASE ListRegistrations(p)
  <2>1. PICK x \in Pull :
          /\ x.at = (IF Newest = 0 /\ o.row.vin = 0 THEN "vc" ELSE "write")
          /\ x.plate = Newest /\ x.vin = Newest /\ x.row = o.row /\ x.doc = o.doc
          /\ puller' = [puller EXCEPT ![p] = x]
    BY <1>1, <1>2, <1>7, ListingIs
  <2>2. \A q \in Pullers : puller'[q] = IF q = p THEN x ELSE puller[q]
    BY <1>5, <2>1
  <2>3. x.at \in {"vc", "write"} /\ (x.at = "vc" => Newest = 0)
    BY <2>1
  <2>4. o.at = "list" /\ plated' = plated /\ missed' = (missed \/ o.doc \notin indexed)
    BY <1>2, <1>7 DEF ListRegistrations
  <2>5. FieldsAgree'
    BY <2>1, <2>2, <2>3 DEF PInv, FieldsAgree
  <2>6. ~missed' => Followed'
    <3> SUFFICES ASSUME ~missed', NEW e \in (1..Len(ledger)) \ indexed, ledger[e].type = "registration"
                 PROVE  \E q \in Pullers : puller'[q].at \in {"asleep", "list"} /\ puller'[q].doc = e
      BY <1>3 DEF Followed
    <3>1. o.doc \in indexed /\ Followed
      BY <2>4 DEF PInv
    <3>2. PICK q \in Pullers : puller[q].at \in {"asleep", "list"} /\ puller[q].doc = e
      BY <3>1 DEF Followed
    <3>3. q # p
      BY <1>2, <3>1, <3>2
    <3> QED
      BY <2>2, <3>2, <3>3
  <2>7. ~missed' => RowsRead'
    BY <1>2, <2>1, <2>2, <2>4 DEF PInv, RowsRead
  <2>8. ~missed' => NewestRead'
    BY <1>2, <1>4, <2>1, <2>2, <2>3, <2>4 DEF PInv, NewestRead
  <2>9. Settled'
    BY <2>2, <2>3 DEF Settled
  <2> QED
    BY <2>5, <2>6, <2>7, <2>8, <2>9 DEF PInv
<1>8. CASE AskVIN(p)
  <2>1. PICK vin \in VINFromVC : puller' = [puller EXCEPT ![p].at = "write", ![p].vin = vin]
    BY <1>8 DEF AskVIN
  <2>2. vin \in 0..VinVC
    BY LimitsAssumption DEF VINFromVC, VinVC
  <2>3. PICK x \in Pull : x = [o EXCEPT !.at = "write", !.vin = vin]
    BY <2>2 DEF Pull
  <2>4. puller' = [puller EXCEPT ![p] = x]
    BY <1>1, <1>2, <2>1, <2>3 DEF Shapes
  <2>5. /\ x.at = "write" /\ x.plate = o.plate /\ x.row = o.row /\ x.doc = o.doc
        /\ o.at = "vc" /\ plated' = plated /\ missed' = missed
    BY <1>2, <1>8, <2>3 DEF Pull, AskVIN
  <2>6. \A q \in Pullers : puller'[q] = IF q = p THEN x ELSE puller[q]
    BY <1>5, <2>4
  <2>7. FieldsAgree'
    BY <1>2, <2>5, <2>6 DEF PInv, FieldsAgree
  <2>8. ~missed' => Followed'
    BY <1>2, <1>3, <2>5, <2>6 DEF PInv, Followed
  <2>9. ~missed' => RowsRead'
    BY <1>2, <2>5, <2>6 DEF PInv, RowsRead
  <2>10. ~missed' => NewestRead'
    BY <1>2, <1>4, <2>5, <2>6 DEF PInv, NewestRead
  <2>11. Settled'
    BY <2>5, <2>6 DEF Settled
  <2> QED
    BY <2>7, <2>8, <2>9, <2>10, <2>11 DEF PInv
<1>9. CASE SyncVehicle(p)
  <2>1. /\ o.at = "write" /\ puller' = [puller EXCEPT ![p] = IdlePull]
        /\ plated' = [plate |-> Changed(o.row.plate, o.plate, plated.plate), vin |-> Changed(o.row.vin, o.vin, plated.vin)]
        /\ missed' = (missed \/ \E q \in Pullers \ {p} : puller[q].at \in {"list", "vc", "write"})
    BY <1>2, <1>9 DEF SyncVehicle
  <2>2. \A q \in Pullers : puller'[q] = IF q = p THEN IdlePull ELSE puller[q]
    BY <1>5, <2>1
  <2>3. FieldsAgree'
    BY <2>2, IdlePullIs DEF PInv, FieldsAgree
  <2>4. ASSUME ~missed'
        PROVE  Followed' /\ RowsRead' /\ NewestRead' /\ Settled'
    <3>1. ~missed /\ Followed /\ RowsRead /\ NewestRead /\ \A q \in Pullers \ {p} : puller[q].at \notin {"list", "vc", "write"}
      BY <2>1, <2>4 DEF PInv
    <3>2. Followed'
      BY <1>2, <1>3, <2>1, <2>2, <3>1 DEF Followed
    <3>3. RowsRead' /\ NewestRead'
      BY <2>2, <3>1, IdlePullIs DEF RowsRead, NewestRead
    <3>4. ASSUME Newest # 0, \A q \in Pullers : puller'[q].at = "idle"
          PROVE  plated' = [plate |-> Newest, vin |-> Newest]
      <4>1. \A q \in Pullers \ {p} : puller[q].at = "idle"
        BY <2>2, <3>4
      <4>2. o.plate = Newest /\ o.row = plated
        BY <1>2, <2>1, <3>1, <4>1 DEF NewestRead, RowsRead
      <4>3. o.vin = Newest
        BY <1>2, <2>1, <3>4, <4>2 DEF PInv, FieldsAgree
      <4> QED
        BY <2>1, <3>4, <4>2, <4>3 DEF Changed
    <3> QED
      BY <1>4, <3>2, <3>3, <3>4 DEF Settled
  <2> QED
    BY <2>3, <2>4 DEF PInv
<1>10. CASE PullDies(p)
  <2>1. puller' = [puller EXCEPT ![p] = IdlePull] /\ missed' = TRUE
    BY <1>10 DEF PullDies
  <2>2. \A q \in Pullers : puller'[q] = IF q = p THEN IdlePull ELSE puller[q]
    BY <1>5, <2>1
  <2> QED
    BY <2>1, <2>2, IdlePullIs DEF PInv, FieldsAgree
<1> QED
  BY <1>6, <1>7, <1>8, <1>9, <1>10

LEMMA SubmitsAreFollowed ==
  ASSUME LInv, PInv, NEW u \in Uploaders, SubmitParsed(u) \/ SubmitFails(u)
  PROVE  PInv'
<1>1. Shapes /\ Buried /\ Len(ledger) \in Nat
  BY EventsAre DEF LInv
<1>2. PICK event \in Event : event = uploader[u].event
  BY <1>1 DEF SubmitParsed, SubmitFails, Buried
<1>3. CASE SubmitFails(u) /\ UNCHANGED <<ledger, missed>>
  BY <1>3, UnseenByPulls DEF SubmitFails
<1>4. CASE SubmitFails(u) /\ ledger' = Append(ledger, event) /\ missed' = (missed \/ event.type = "registration")
  <2>1. missed' = TRUE \/ (missed' = missed /\ event.type # "registration")
    BY <1>1, <1>4 DEF Shapes
  <2> QED
    BY <1>4, <2>1, GrowthIsFollowed DEF SubmitFails
<1>5. CASE SubmitParsed(u)
  <2>1. /\ Len(ledger) < MaxEvents /\ ledger' = Append(ledger, event) /\ indexed' = indexed /\ plated' = plated
        /\ \/ puller' = puller /\ missed' = TRUE
           \/ puller' = puller /\ missed' = missed /\ event.type # "registration"
           \/ /\ missed' = missed
              /\ \E p \in Pullers : /\ puller[p].at = "idle"
                   /\ puller' = [puller EXCEPT ![p] = [IdlePull EXCEPT !.at = "asleep", !.doc = Len(ledger) + 1]]
    BY <1>2, <1>5 DEF SubmitParsed
  <2>2. Len(ledger) + 1 \in 0..MaxEvents
    BY <1>1, <2>1, LimitsAssumption
  <2>3. PICK x \in Pull : x = [IdlePull EXCEPT !.at = "asleep", !.doc = Len(ledger) + 1]
    BY <2>2, IdlePullIs DEF Pull
  <2>4. x.at = "asleep" /\ x.doc = Len(ledger) + 1
    BY <2>3, IdlePullIs DEF Pull
  <2> QED
    BY <2>1, <2>3, <2>4, GrowthIsFollowed
<1> QED
  BY <1>2, <1>3, <1>4, <1>5 DEF SubmitFails

LEMMA NextIsFollowed ==
  ASSUME LInv, PInv, [Next]_docVars
  PROVE  PInv'
<1>1. CASE UNCHANGED docVars
  BY <1>1, UnseenByPulls DEF docVars
<1>2. ASSUME NEW u \in Uploaders,
             \/ \E paper \in Papers, carries \in BOOLEAN : Attest(u, paper, carries)
             \/ \E e \in indexed : Delete(u, e)
             \/ \E d \in indexed : BackfillAmount(u, d)
             \/ SubmitRaw(u)
      PROVE  PInv'
  BY <1>2, UnseenByPulls DEF Attest, Delete, BackfillAmount, SubmitRaw
<1>3. ASSUME NEW paper \in Papers, ThirdParty(paper)
      PROVE  PInv'
  <2>1. [type |-> paper, carries |-> TRUE, ours |-> FALSE] \in Event
    BY DEF Event
  <2> QED
    BY <1>3, <2>1, GrowthIsFollowed DEF ThirdParty
<1> QED
  BY <1>1, <1>2, <1>3, SubmitsAreFollowed, IndexIsFollowed, PullsAreFollowed DEF Next

(* When every goroutine has come after its document was indexed, none died *)
(* and no two overlapped, and nobody else changed the ledger, plate and    *)
(* VIN are those of the newest registration that carries them              *)
(* (SyncVehicle, AttestDocument).                                          *)
THEOREM PlatesFollow == Spec => []PlateFollows
<1>1. Init => LInv /\ PInv
  <2> SUFFICES ASSUME Init
               PROVE  LInv /\ PInv
    OBVIOUS
  <2>1. LInv /\ \A p \in Pullers : puller[p].at = "idle"
    BY StartsWell, IdlePullIs DEF Init
  <2>2. FieldsAgree /\ RowsRead /\ NewestRead
    BY <2>1 DEF FieldsAgree, RowsRead, NewestRead
  <2>3. Len(ledger) = 0 /\ indexed = {}
    BY DEF Init
  <2>4. Followed
    BY <2>3 DEF Followed
  <2>5. Newest = 0
    BY <2>3 DEF Newest, ListByDIDAndTypes, LatestRegistrationField, GreatestOf
  <2> QED
    BY <2>1, <2>2, <2>4, <2>5 DEF PInv, Settled
<1>2. LInv /\ PInv /\ [Next]_docVars => (LInv /\ PInv)'
  BY NextKeeps, NextIsFollowed
<1>3. PInv => PlateFollows
  BY DEF PInv, Settled, PlateFollows, Newest, LatestRegistrationField
<1> QED
  BY <1>1, <1>2, <1>3, PTL DEF Spec

-----------------------------------------------------------------------------
(* The glovebox is a shelf.  A document is shown when no indexed tombstone *)
(* voids it and its place among what a reader can get is below the limit:  *)
(* the tombstone of a document that fits the limit, being newer, fits too. *)

Rank(d) == Cardinality({ f \in Alive(GloveboxCETypes) : f > d })

Unvoided(d) == \A t \in indexed : ledger[t].type = "tombstone" => d \notin ledger[t].voids

ShownAre == ListDocuments =
  { d \in indexed : ledger[d].type \in Papers /\ Unvoided(d) /\ Rank(d) < GloveboxLimit }

LEMMA AboveIsFinite ==
  ASSUME Shapes, NEW d
  PROVE  IsFiniteSet({ f \in Alive(GloveboxCETypes) : f > d })
<1>1. { f \in Alive(GloveboxCETypes) : f > d } \in SUBSET Nat
  BY EventsAre DEF Alive
<1>2. \A f \in { f \in Alive(GloveboxCETypes) : f > d } : f <= MaxEvents
  BY EventsAre DEF Alive
<1> QED
  BY <1>1, <1>2, EventsAre, FS_BoundedSetOfNaturals

RanksFall == \A d, f \in Nat : d <= f => Rank(f) <= Rank(d) /\ Rank(f) \in Nat /\ Rank(d) \in Nat

LEMMA NewerRanksLower == Shapes => RanksFall
<1> SUFFICES ASSUME Shapes, NEW d \in Nat, NEW f \in Nat, d <= f
             PROVE  Rank(f) <= Rank(d) /\ Rank(f) \in Nat /\ Rank(d) \in Nat
  BY DEF RanksFall
<1> DEFINE above(x) == { g \in Alive(GloveboxCETypes) : g > x }
<1>1. above(f) \in SUBSET above(d)
  BY EventsAre DEF Alive
<1>2. IsFiniteSet(above(d)) /\ IsFiniteSet(above(f))
  BY AboveIsFinite
<1> QED
  BY <1>1, <1>2, FS_Subset, FS_CardinalityType DEF Rank

LEMMA TombstonesStand ==
  ASSUME LInv, NEW t \in indexed, ledger[t].type = "tombstone"
  PROVE  t \in Alive(GloveboxCETypes)
<1>1. ~Suppressed(t)
  <2> SUFFICES ASSUME NEW s \in indexed, ledger[s].type = "tombstone", t \in ledger[s].voids
               PROVE  FALSE
    BY DEF Suppressed
  <2>1. Buries(ledger[s])
    BY DEF LInv, Shapes, Buried
  <2> QED
    BY <2>1 DEF Buries
<1> QED
  BY <1>1 DEF Alive, GloveboxCETypes

LEMMA ShowsUnvoided == LInv => ShownAre
<1> SUFFICES ASSUME LInv
             PROVE  ShownAre
  OBVIOUS
<1> DEFINE entries == ListByDIDAndTypes(GloveboxCETypes, GloveboxLimit)
<1>1. Shapes /\ RanksFall /\ \A e \in indexed : e \in Nat /\ ledger[e] \in Event
  BY NewerRanksLower, EventsAre DEF LInv
<1>2. entries = { e \in Alive(GloveboxCETypes) : Rank(e) < GloveboxLimit }
  BY ListIs DEF Rank
<1>3. TombstonedIDs(entries) = UNION { ledger[t].voids : t \in { e \in entries : ledger[e].type = "tombstone" } }
  BY DEF TombstonedIDs
<1>4. ListDocuments = { e \in entries : ledger[e].type # "tombstone" /\ e \notin TombstonedIDs(entries) }
  BY DEF ListDocuments
<1> HIDE DEF entries
<1>5. ASSUME NEW d \in ListDocuments
      PROVE  d \in indexed /\ ledger[d].type \in Papers /\ Unvoided(d) /\ Rank(d) < GloveboxLimit
  <2>1. d \in indexed /\ ledger[d].type \in Papers /\ Rank(d) < GloveboxLimit /\ d \notin TombstonedIDs(entries)
    BY <1>2, <1>4 DEF Alive, GloveboxCETypes
  <2>2. ASSUME NEW t \in indexed, ledger[t].type = "tombstone", d \in ledger[t].voids
        PROVE  FALSE
    <3>1. t \in Alive(GloveboxCETypes) /\ t \in Nat /\ d \in Nat
      BY <1>1, <2>1, <2>2, TombstonesStand
    <3>2. d < t
      BY <2>2 DEF LInv, Shapes, Buried
    <3>3. Rank(t) <= Rank(d) /\ Rank(t) \in Nat /\ Rank(d) \in Nat
      BY <1>1, <3>1, <3>2 DEF RanksFall
    <3>4. Rank(t) < GloveboxLimit
      BY <2>1, <3>3, LimitsAssumption
    <3>5. t \in entries
      BY <1>2, <3>1, <3>4
    <3> QED
      BY <1>3, <2>1, <2>2, <3>5
  <2> QED
    BY <2>1, <2>2 DEF Unvoided
<1>6. ASSUME NEW d \in indexed, ledger[d].type \in Papers, Unvoided(d), Rank(d) < GloveboxLimit
      PROVE  d \in ListDocuments
  <2>1. ~Suppressed(d)
    BY <1>6 DEF Suppressed, Unvoided
  <2>2. d \in entries /\ entries \subseteq indexed
    BY <1>2, <1>6, <2>1 DEF Alive, GloveboxCETypes
  <2>3. d \notin TombstonedIDs(entries)
    BY <1>3, <1>6, <2>2 DEF Unvoided
  <2>4. ledger[d].type # "tombstone"
    BY <1>6, PapersAssumption
  <2> QED
    BY <1>4, <2>2, <2>3, <2>4
<1> QED
  BY <1>5, <1>6 DEF ShownAre

(* When the index gets an event, nothing becomes readable again and no     *)
(* document's place gets better.                                           *)
LEMMA PlacesOnlyFall ==
  ASSUME LInv, NEW e \in Events, IndexEvent(e), NEW d \in indexed
  PROVE  Rank(d) <= Rank(d)' /\ Rank(d) \in Nat /\ Rank(d)' \in Nat
<1> DEFINE above == { f \in Alive(GloveboxCETypes) : f > d }
<1>1. /\ LInv' /\ Shapes /\ Shapes' /\ Buried /\ indexed' = indexed \union {e} /\ ledger' = ledger /\ e \notin indexed
      /\ e \in 1..Len(ledger) /\ e \in Nat /\ d \in Nat
      /\ \A f \in indexed : f \in Nat /\ ledger[f] \in Event
      /\ ledger[e] \in Event
  BY IndexKeeps, EventsAre DEF LInv, IndexEvent
<1>2. IsFiniteSet(above) /\ IsFiniteSet(above') /\ Rank(d) = Cardinality(above) /\ Rank(d)' = Cardinality(above')
  <2>1. \A x : IsFiniteSet({ f \in Alive(GloveboxCETypes)' : f > x })
    <3> SUFFICES ASSUME NEW x
                 PROVE  IsFiniteSet({ f \in Alive(GloveboxCETypes)' : f > x })
      OBVIOUS
    <3>1. Alive(GloveboxCETypes)' \subseteq indexed'
      BY DEF Alive
    <3>2. indexed' \subseteq 1..Len(ledger) /\ Len(ledger) \in Nat
      BY <1>1, EventsAre DEF Shapes
    <3>3. IsFiniteSet(1..Len(ledger))
      BY <3>2, FS_Interval
    <3>4. { f \in Alive(GloveboxCETypes)' : f > x } \in SUBSET (1..Len(ledger))
      BY <3>1, <3>2
    <3> QED
      BY <3>3, <3>4, FS_Subset
  <2> QED
    BY <1>1, <2>1, AboveIsFinite DEF Rank
<1>3. \A f \in indexed : Suppressed(f)' => Suppressed(f) \/ (ledger[e].type = "tombstone" /\ f \in ledger[e].voids)
  BY <1>1 DEF Suppressed
<1>4. CASE ledger[e].type # "tombstone"
  <2>1. above \in SUBSET above'
    BY <1>1, <1>3, <1>4 DEF Alive, GloveboxCETypes
  <2> QED
    BY <1>2, <2>1, FS_Subset, FS_CardinalityType
<1>5. CASE ledger[e].type = "tombstone"
  <2>1. PICK c \in indexed : ledger[e].voids = {c} /\ ledger[c].type # "tombstone" /\ c < e
    BY <1>1, <1>5 DEF Buried, Buries
  <2>2. e \in Alive(GloveboxCETypes)'
    <3>1. ASSUME NEW t \in indexed', ledger'[t].type = "tombstone", e \in ledger'[t].voids
          PROVE  FALSE
      BY <1>1, <3>1, <2>1 DEF LInv, Shapes, Buried, Buries
    <3> QED
      BY <1>1, <1>5, <3>1 DEF Alive, Suppressed, GloveboxCETypes
  <2>3. above \ {c} \subseteq above'
    BY <1>1, <1>3, <2>1 DEF Alive, GloveboxCETypes
  <2>4. CASE c \in above
    <3>1. e > d /\ e \in above' /\ e \notin above
      BY <1>1, <2>1, <2>2, <2>4 DEF Alive
    <3>2. (above \ {c}) \union {e} \in SUBSET above'
      BY <2>3, <3>1
    <3>3. IsFiniteSet(above \ {c}) /\ Cardinality(above \ {c}) = Cardinality(above) - 1
      BY <1>2, <2>4, FS_RemoveElement
    <3>4. Cardinality((above \ {c}) \union {e}) = Cardinality(above \ {c}) + 1
      BY <3>1, <3>3, FS_AddElement
    <3>5. Cardinality((above \ {c}) \union {e}) <= Cardinality(above')
      BY <1>2, <3>2, FS_Subset
    <3> QED
      BY <1>2, <3>3, <3>4, <3>5, FS_CardinalityType
  <2>5. CASE c \notin above
    <3>1. above \in SUBSET above'
      BY <2>3, <2>5
    <3> QED
      BY <1>2, <3>1, FS_Subset, FS_CardinalityType
  <2> QED
    BY <2>4, <2>5
<1> QED
  BY <1>4, <1>5

Papered == { e \in indexed : ledger[e].type \in Papers }

(* What comes into the index changes the shelf as a step of it does.       *)
LEMMA IndexMovesShelf ==
  ASSUME LInv, NEW e \in Events, IndexEvent(e)
  PROVE  [Shelved!Next]_(Shelved!shelfVars)
<1> DEFINE S == ListDocuments
<1>1. /\ LInv' /\ Shapes /\ Buried /\ indexed' = indexed \union {e} /\ ledger' = ledger /\ e \notin indexed
      /\ e \in 1..Len(ledger) /\ e \in Nat /\ e \in 1..MaxEvents
      /\ \A f \in indexed : f \in Nat /\ f \in 1..MaxEvents
      /\ ledger[e] \in Event
  BY IndexKeeps, EventsAre DEF LInv, IndexEvent, Shapes
<1>2. ShownAre /\ ShownAre' /\ RanksFall'
  <2>1. Shapes'
    BY <1>1 DEF LInv
  <2> QED
    BY <1>1, <2>1, ShowsUnvoided, NewerRanksLower, PTL
<1>3. \A d \in S' : d \in indexed' /\ ledger[d].type \in Papers /\ Unvoided(d)' /\ Rank(d)' < GloveboxLimit
  BY <1>1, <1>2 DEF ShownAre
<1>4. \A d \in indexed' : ledger[d].type \in Papers /\ Unvoided(d)' /\ d \notin S' => ~(Rank(d)' < GloveboxLimit)
  BY <1>1, <1>2 DEF ShownAre
<1>5. \A d \in indexed : d \in S <=> ledger[d].type \in Papers /\ Unvoided(d) /\ Rank(d) < GloveboxLimit
  BY <1>2 DEF ShownAre
<1>6. S \subseteq Papered /\ S' \subseteq Papered' /\ Gone = Papered \ S /\ Gone' = Papered' \ S'
  BY <1>1, <1>2 DEF ShownAre, Gone, Papered
<1> HIDE DEF S
<1>7. \A d \in S' : d # e => d \in S
  <2> SUFFICES ASSUME NEW d \in S', d # e
               PROVE  d \in S
    OBVIOUS
  <2>1. d \in indexed /\ ledger[d].type \in Papers /\ Unvoided(d)' /\ Rank(d)' < GloveboxLimit
    BY <1>1, <1>3
  <2>2. Unvoided(d)
    BY <1>1, <2>1 DEF Unvoided
  <2>3. Rank(d) < GloveboxLimit
    BY <2>1, PlacesOnlyFall, LimitsAssumption
  <2> QED
    BY <1>5, <2>1, <2>2, <2>3
<1>8. ASSUME NEW d \in indexed', ledger[d].type \in Papers, Unvoided(d)', d \notin S', NEW f \in S'
      PROVE  d < f
  <2>1. d \in Nat /\ f \in Nat /\ f \in indexed'
    BY <1>1, <1>3, <1>8
  <2>2. ~(Rank(d)' < GloveboxLimit) /\ Rank(f)' < GloveboxLimit
    BY <1>3, <1>4, <1>8
  <2>3. ~(f <= d)
    <3> SUFFICES ASSUME f <= d
                 PROVE  FALSE
      OBVIOUS
    <3>1. Rank(d)' <= Rank(f)' /\ Rank(f)' \in Nat /\ Rank(d)' \in Nat
      BY <1>2, <2>1 DEF RanksFall
    <3> QED
      BY <2>2, <3>1, LimitsAssumption
  <2> QED
    BY <2>1, <2>3
<1>9. CASE ledger[e].type \in Papers
  <2>1. Papered' = Papered \union {e} /\ e \notin Papered
    BY <1>1, <1>9 DEF Papered
  <2>2. \A d \in indexed' : (d = e \/ Unvoided(d)) => Unvoided(d)'
    <3> SUFFICES ASSUME NEW d \in indexed', d = e \/ Unvoided(d), NEW t \in indexed', ledger[t].type = "tombstone", d \in ledger[t].voids
                 PROVE  FALSE
      BY <1>1 DEF Unvoided
    <3>1. t \in indexed
      BY <1>1, <1>9, PapersAssumption
    <3>2. d # e
      BY <1>1, <3>1 DEF Shapes, Buried, Buries
    <3> QED
      BY <3>1, <3>2 DEF Unvoided
  <2>3. S' \subseteq S \union {e}
    BY <1>7
  <2>4. \A d \in (S \union {e}) \ S', f \in S' : d < f
    <3> SUFFICES ASSUME NEW d \in (S \union {e}) \ S', NEW f \in S'
                 PROVE  d < f
      OBVIOUS
    <3>1. d \in indexed' /\ ledger[d].type \in Papers /\ (d = e \/ Unvoided(d))
      BY <1>1, <1>2, <1>5, <1>6, <1>9 DEF Papered
    <3> QED
      BY <1>8, <2>2, <3>1
  <2>5. e \notin S \union Gone
    BY <1>6, <2>1
  <2>6. Gone' = Gone \union ((S \union {e}) \ S')
    BY <1>6, <2>1, <2>3
  <2>7. Shelved!Put(e)
    BY <2>3, <2>4, <2>5, <2>6 DEF S, Shelved!Put, Shelved!MakesRoom
  <2> QED
    BY <1>1, <2>7 DEF Shelved!Next
<1>10. CASE ledger[e].type = "tombstone"
  <2>1. PICK c \in indexed : ledger[e].voids = {c}
    BY <1>1, <1>10 DEF Buried, Buries
  <2>2. Papered' = Papered /\ e \notin S'
    BY <1>1, <1>3, <1>10, PapersAssumption DEF Papered
  <2>3. S' \subseteq S \ {c}
    BY <1>1, <1>3, <1>7, <1>10, <2>1, <2>2 DEF Unvoided
  <2>4. \A d \in (S \ {c}) \ S', f \in S' : d < f
    <3> SUFFICES ASSUME NEW d \in (S \ {c}) \ S', NEW f \in S'
                 PROVE  d < f
      OBVIOUS
    <3>1. d \in indexed /\ d \in indexed' /\ ledger[d].type \in Papers /\ Unvoided(d)
      BY <1>1, <1>5, <1>6 DEF Papered
    <3>2. Unvoided(d)'
      BY <1>1, <2>1, <3>1 DEF Unvoided
    <3> QED
      BY <1>8, <3>1, <3>2
  <2>5. Gone' = Gone \union (S \ S')
    BY <1>6, <2>2, <2>3
  <2>6. CASE c \in S
    <3>1. Shelved!Take(c)
      BY <2>3, <2>4, <2>5, <2>6 DEF S, Shelved!Take, Shelved!MakesRoom
    <3> QED
      BY <1>1, <3>1 DEF Shelved!Next
  <2>7. CASE c \notin S
    <3>1. S \ {c} = S
      BY <2>7
    <3>2. Shelved!Crowd
      BY <2>3, <2>4, <2>5, <3>1 DEF S, Shelved!Crowd, Shelved!MakesRoom
    <3> QED
      BY <3>2 DEF Shelved!Next
  <2> QED
    BY <2>6, <2>7
<1>11. CASE ledger[e].type = "cost-amendment"
  <2>1. \A d : Suppressed(d)' <=> Suppressed(d)
    BY <1>1, <1>11 DEF Suppressed
  <2>2. "cost-amendment" \notin GloveboxCETypes
    BY PapersAssumption DEF GloveboxCETypes
  <2>3. Alive(GloveboxCETypes)' = Alive(GloveboxCETypes)
    BY <1>1, <1>11, <2>1, <2>2 DEF Alive, GloveboxCETypes
  <2>4. Papered' = Papered
    BY <1>1, <1>11, PapersAssumption DEF Papered
  <2>5. S' = S
    <3>1. \A d : Rank(d)' = Rank(d)
      BY <2>3 DEF Rank
    <3>2. \A d : Unvoided(d)' <=> Unvoided(d)
      BY <1>1, <1>11 DEF Unvoided
    <3>3. S' = { d \in Papered' : Unvoided(d)' /\ Rank(d)' < GloveboxLimit }
      BY <1>1, <1>2 DEF S, ShownAre, Papered
    <3>4. S = { d \in Papered : Unvoided(d) /\ Rank(d) < GloveboxLimit }
      BY <1>2 DEF S, ShownAre, Papered
    <3> QED
      BY <2>4, <3>1, <3>2, <3>3, <3>4
  <2> QED
    BY <1>6, <2>4, <2>5 DEF S, Shelved!shelfVars
<1> QED
  BY <1>1, <1>9, <1>10, <1>11, EventIs

(* What the index has not seen leaves the shelf alone. *)
LEMMA ShelfIsStill ==
  ASSUME Shapes, indexed' = indexed, \A e \in 1..Len(ledger) : ledger'[e] = ledger[e]
  PROVE  UNCHANGED Shelved!shelfVars
<1> DEFINE entries == ListByDIDAndTypes(GloveboxCETypes, GloveboxLimit)
<1>1. entries' = entries /\ \A e \in indexed : ledger'[e] = ledger[e]
  <2>1. ListByDIDAndTypes(GloveboxCETypes, GloveboxLimit)' = ListByDIDAndTypes(GloveboxCETypes, GloveboxLimit)
    BY UnseenGrowth DEF GloveboxCETypes
  <2> QED
    BY <2>1, UnseenGrowth
<1>2. entries \subseteq indexed
  BY DEF ListByDIDAndTypes
<1>3. ListDocuments = { e \in entries : ledger[e].type # "tombstone" /\ e \notin TombstonedIDs(entries) }
  BY DEF ListDocuments
<1>4. ListDocuments' = { e \in entries' : ledger'[e].type # "tombstone" /\ e \notin TombstonedIDs(entries)' }
  BY DEF ListDocuments
<1> HIDE DEF entries
<1>5. TombstonedIDs(entries)' = TombstonedIDs(entries)
  BY <1>1, <1>2 DEF TombstonedIDs
<1>6. ListDocuments' = ListDocuments
  BY <1>1, <1>2, <1>3, <1>4, <1>5
<1>7. Gone' = Gone
  BY <1>1, <1>6 DEF Gone
<1> QED
  BY <1>6, <1>7 DEF Shelved!shelfVars

(* What the glovebox lists is a shelf: a document appears when the index   *)
(* gets it, leaves when its owner deletes it or newer events crowd it out, *)
(* and neither a deletion that frees its place nor a late index entry ever *)
(* brings one back (ListDocuments, TombstonedIDs).                         *)
THEOREM GloveboxIsShelf == Spec => ShelfIsKept
<1>1. Init => Shelved!Init
  <2> SUFFICES ASSUME Init
               PROVE  Shelved!Init
    OBVIOUS
  <2>1. indexed = {}
    BY DEF Init
  <2> QED
    BY <2>1 DEF Shelved!Init, Gone, ListDocuments, ListByDIDAndTypes
<1>2. LInv /\ [Next]_docVars => [Shelved!Next]_(Shelved!shelfVars)
  <2> SUFFICES ASSUME LInv, [Next]_docVars
               PROVE  [Shelved!Next]_(Shelved!shelfVars)
    OBVIOUS
  <2>1. Shapes
    BY DEF LInv
  <2>2. CASE \E e \in Events : IndexEvent(e)
    BY <2>2, IndexMovesShelf
  <2>3. CASE indexed' = indexed /\ \A e \in 1..Len(ledger) : ledger'[e] = ledger[e]
    BY <2>1, <2>3, ShelfIsStill
  <2>4. ASSUME NEW u \in Uploaders, SubmitParsed(u) \/ SubmitFails(u)
        PROVE  indexed' = indexed /\ \A e \in 1..Len(ledger) : ledger'[e] = ledger[e]
    <3>1. PICK event \in Event : event = uploader[u].event
      BY <2>4 DEF LInv, Buried, SubmitParsed, SubmitFails
    <3>2. indexed' = indexed /\ (ledger' = ledger \/ ledger' = Append(ledger, event))
      BY <2>4, <3>1 DEF SubmitParsed, SubmitFails
    <3> QED
      BY <2>1, <3>1, <3>2, AppendIs
  <2>5. ASSUME NEW paper \in Papers, ThirdParty(paper)
        PROVE  indexed' = indexed /\ \A e \in 1..Len(ledger) : ledger'[e] = ledger[e]
    <3>1. [type |-> paper, carries |-> TRUE, ours |-> FALSE] \in Event
      BY DEF Event
    <3> QED
      BY <2>1, <2>5, <3>1, AppendIs DEF ThirdParty
  <2>6. ASSUME NEW u \in Uploaders,
               \/ \E paper \in Papers, carries \in BOOLEAN : Attest(u, paper, carries)
               \/ \E e \in indexed : Delete(u, e)
               \/ \E d \in indexed : BackfillAmount(u, d)
               \/ SubmitRaw(u)
        PROVE  indexed' = indexed /\ ledger' = ledger
    BY <2>6 DEF Attest, Delete, BackfillAmount, SubmitRaw
  <2>7. ASSUME NEW p \in Pullers,
               LoadVehicle(p) \/ ListRegistrations(p) \/ AskVIN(p) \/ SyncVehicle(p) \/ PullDies(p)
        PROVE  indexed' = indexed /\ ledger' = ledger
    BY <2>7 DEF LoadVehicle, ListRegistrations, AskVIN, SyncVehicle, PullDies
  <2>8. CASE UNCHANGED docVars
    BY <2>3, <2>8 DEF docVars
  <2>9. CASE Next
    BY <2>2, <2>3, <2>4, <2>5, <2>6, <2>7, <2>9 DEF Next
  <2> QED
    BY <2>8, <2>9
<1> QED
  BY <1>1, <1>2, AlwaysLInv, PTL DEF Spec, ShelfIsKept, Shelved!Spec

-----------------------------------------------------------------------------
(* A reader whose limit the index stays within gets all there is. *)
LEMMA AllFits ==
  ASSUME Shapes, NEW types, NEW limit \in Nat, Cardinality(indexed) <= limit
  PROVE  ListByDIDAndTypes(types, limit) = Alive(types)
<1>1. IsFiniteSet(indexed)
  BY EventsAre, FS_BoundedSetOfNaturals
<1>2. ASSUME NEW e \in Alive(types)
      PROVE  Cardinality({ f \in Alive(types) : f > e }) < limit
  <2>1. e \in indexed /\ Alive(types) \subseteq indexed /\ indexed \subseteq Nat
    BY EventsAre DEF Alive
  <2>2. IsFiniteSet(indexed \ {e}) /\ Cardinality(indexed \ {e}) = Cardinality(indexed) - 1
    BY <1>1, <2>1, FS_RemoveElement
  <2>3. { f \in Alive(types) : f > e } \in SUBSET (indexed \ {e})
    BY <2>1
  <2>4. Cardinality({ f \in Alive(types) : f > e }) <= Cardinality(indexed \ {e})
    BY <2>2, <2>3, FS_Subset
  <2>5. Cardinality({ f \in Alive(types) : f > e }) \in Nat /\ Cardinality(indexed) \in Nat
    BY <1>1, <2>2, <2>3, FS_Subset, FS_CardinalityType
  <2> QED
    BY <2>2, <2>4, <2>5
<1> QED
  BY <1>2, ListIs

(* As long as no limit cuts them short, the receipts the cost report       *)
(* counts or misses are those the glovebox lists.  The report asks for no  *)
(* fewer events: 500 against 200 (ListDocuments, VehicleSummary).          *)
THEOREM CostsAreListed ==
  ASSUME GloveboxLimit <= CostLimit
  PROVE  Spec => []CostsOfListed
<1>1. LInv => CostsOfListed
  <2> SUFFICES ASSUME LInv, Cardinality(indexed) <= GloveboxLimit
               PROVE  VehicleSummary.lines \union VehicleSummary.missing
                        = { d \in ListDocuments : ledger[d].type = "receipt" }
    BY DEF CostsOfListed
  <2> DEFINE boxed == ListByDIDAndTypes(GloveboxCETypes, GloveboxLimit)
             costs == ListByDIDAndTypes(TCOCETypes, CostLimit)
             counted == { e \in costs \ TombstonedIDs(costs) : ledger[e].type = "receipt" }
  <2>1. Shapes /\ \A e \in indexed : ledger[e] \in Event
    BY EventsAre DEF LInv
  <2>2. boxed = Alive(GloveboxCETypes) /\ costs = Alive(TCOCETypes)
    <3>1. IsFiniteSet(indexed) /\ Cardinality(indexed) \in Nat /\ GloveboxLimit \in Nat /\ CostLimit \in Nat
      BY <2>1, EventsAre, FS_BoundedSetOfNaturals, FS_CardinalityType, LimitsAssumption
    <3>2. Cardinality(indexed) <= CostLimit
      BY <3>1
    <3> QED
      BY <2>1, <3>1, <3>2, AllFits
  <2>3. { e \in boxed : ledger[e].type = "tombstone" } = { e \in costs : ledger[e].type = "tombstone" }
    BY <2>2 DEF Alive, GloveboxCETypes, TCOCETypes
  <2>4. TombstonedIDs(boxed) = TombstonedIDs(costs)
    BY <2>3 DEF TombstonedIDs
  <2>5. { e \in boxed : ledger[e].type = "receipt" } = { e \in costs : ledger[e].type = "receipt" }
    <3>1. \A e \in indexed : ledger[e].type = "receipt" => "receipt" \in Papers
      BY <2>1, EventIs
    <3> QED
      BY <2>2, <3>1 DEF Alive, GloveboxCETypes, TCOCETypes
  <2>6. VehicleSummary.lines \union VehicleSummary.missing = counted
    <3>1. VehicleSummary.lines \subseteq counted /\ VehicleSummary.missing = counted \ VehicleSummary.lines
      BY DEF VehicleSummary
    <3> QED
      BY <3>1
  <2>7. { d \in ListDocuments : ledger[d].type = "receipt" } = counted
    BY <2>4, <2>5 DEF ListDocuments
  <2> QED
    BY <2>6, <2>7
<1> QED
  BY <1>1, AlwaysLInv, PTL

-----------------------------------------------------------------------------
(***************************************************************************)
(* The other parts, whose variables are the places.  A step of SubjectSpec *)
(* is one of the subject's part, or none at all.                           *)
(***************************************************************************)
LEMMA SubjectStays ==
  ASSUME [SubjectNext]_allVars
  PROVE  subject' = subject
BY DEF SubjectNext, OfRegistrations, OfReceipts, OfPositions, OfSync, OfReports, OfExtraction, allVars

LEMMA SyncSteps ==
  ASSUME subject = "sync", [SubjectNext]_allVars
  PROVE  Sync!Next \/ UNCHANGED Sync!syncVars
BY DEF SubjectNext, OfRegistrations, OfReceipts, OfPositions, OfSync, OfReports, OfExtraction,
       allVars, places, Sync!syncVars

-----------------------------------------------------------------------------
(***************************************************************************)
(* The sync of vehicles (VehicleSync).  What a run may still delete is     *)
(* tied to what it could have seen since it began: the tokens the cursor   *)
(* of a prune has passed, and the tokens a managed tenant's list leaves    *)
(* out.                                                                    *)
(***************************************************************************)
Grant == [shared : SUBSET Tokens, entitled : SUBSET Tokens, explicit : BOOLEAN]

SyncAt == {"idle", "detail", "entitlements", "rows", "page", "work", "delete"}

SyncRun == [at : SyncAt, kind : {"none", "sync", "prune"}, list : SUBSET Tokens, got : SUBSET Tokens,
            cursor : Nat, todo : SUBSET Tokens]
SyncPast == [seen : SUBSET Tokens, gone : SUBSET Tokens, out : SUBSET Tokens, flipped : BOOLEAN]

SyncTypes ==
  /\ s1 \in BOOLEAN /\ s2 \in Grant
  /\ s3 \in [Tokens -> {"absent", "bare", "own"}]
  /\ s4 \in [Runs -> SyncRun] /\ s5 \in [Runs -> SyncPast]

(* A prune holds only tokens that had a row since it began; those its      *)
(* cursor has passed without getting them were not shared at some time     *)
(* after that, nor were those it is about to delete.                       *)
PruneMay(o, p) == o.kind = "prune" =>
  /\ ~s1 /\ o.at \in {"idle", "rows", "page", "work"}
  /\ o.at = "rows" => o.cursor = 0
  /\ o.at \in {"page", "work"} => o.list \subseteq p.seen
  /\ o.at = "page" => \A v \in o.list \ o.got : v <= o.cursor => v \in p.gone
  /\ o.at = "work" => o.todo \subseteq p.gone

(* A sync of a managed tenant goes on from its detail only when that was   *)
(* explicit; what its list leaves out was not entitled at that time.       *)
SyncMay(o, p) == o.kind = "sync" =>
  /\ o.at # "rows" /\ (o.at \in {"detail", "entitlements", "delete"} => s1)
  /\ o.at = "entitlements" => s2.explicit \/ p.flipped
  /\ s1 /\ o.at \in {"page", "work", "delete"} => \A v \in Tokens \ o.list : v \in p.out \/ p.flipped

RunMay(r) ==
  /\ s4[r].kind = "none" => s4[r].at = "idle"
  /\ s4[r].at # "idle" => PruneMay(s4[r], s5[r]) /\ SyncMay(s4[r], s5[r])

RunsMay == \A r \in Runs : RunMay(r)

SyncInv == SyncTypes /\ RunsMay

-----------------------------------------------------------------------------
LEMMA LeastIs ==
  ASSUME NEW S \in SUBSET Nat, S # {}
  PROVE  Sync!Least(S) \in S /\ \A w \in S : Sync!Least(S) <= w
<1>1. PICK x \in S : \A y \in S : ~(<<y, x>> \in OpToRel(<, Nat))
  BY NatLessThanWellFounded, WFMin
<1>2. \A y \in S : x <= y
  <2> SUFFICES ASSUME NEW y \in S
               PROVE  x <= y
    OBVIOUS
  <2>1. x \in Nat /\ y \in Nat /\ ~(<<y, x>> \in OpToRel(<, Nat))
    BY <1>1
  <2> QED
    BY <2>1 DEF OpToRel
<1> QED
  BY <1>2 DEF Sync!Least

(* One run goes on from o to x; the histories of the others go on as well. *)
LEMMA WitnessIs ==
  ASSUME SyncTypes, NEW r \in Runs, s3' \in [Tokens -> {"absent", "bare", "own"}], s2' \in Grant, s1' = s1,
         s4' \in [Runs -> SyncRun], Sync!Witness(Sync!Running)
  PROVE  /\ s5' \in [Runs -> SyncPast]
         /\ s4'[r].at # "idle" =>
              /\ s5[r].seen \subseteq s5'[r].seen /\ { v \in Tokens : s3'[v] # "absent" } \subseteq s5'[r].seen
              /\ s5[r].gone \subseteq s5'[r].gone
              /\ s5'[r].seen \intersect (Tokens \ Sync!Wanted(s2')) \subseteq s5'[r].gone
              /\ s5[r].out \subseteq s5'[r].out /\ Tokens \ Sync!Wanted(s2') \subseteq s5'[r].out
              /\ s5[r].flipped => s5'[r].flipped
              /\ s2'.explicit # s2.explicit => s5'[r].flipped
<1> DEFINE out == Tokens \ Sync!Wanted(s2')
           seen(q) == s5[q].seen \union { v \in Tokens : s3'[v] # "absent" }
           next(q) == [seen |-> seen(q), gone |-> s5[q].gone \union (seen(q) \intersect out),
                       out |-> s5[q].out \union out,
                       flipped |-> s5[q].flipped \/ s2'.explicit # s2.explicit]
<1>1. s5' = [q \in Runs |-> IF q \notin Sync!Running THEN Sync!NoPast ELSE next(q)]
  BY DEF Sync!Witness
<1>2. Sync!NoPast \in SyncPast
  BY DEF Sync!NoPast, SyncPast
<1>3. ASSUME NEW q \in Runs
      PROVE  next(q) \in SyncPast
  <2>1. PICK p \in SyncPast : p = s5[q]
    BY DEF SyncTypes
  <2>2. p.seen \subseteq Tokens /\ p.gone \subseteq Tokens /\ p.out \subseteq Tokens /\ p.flipped \in BOOLEAN
    BY <2>1 DEF SyncPast
  <2> QED
    BY <2>1, <2>2 DEF SyncPast
<1>4. s5' \in [Runs -> SyncPast]
  BY <1>1, <1>2, <1>3
<1>5. s4'[r].at # "idle" => s5'[r] = next(r)
  BY <1>1 DEF Sync!Running
<1>6. /\ next(r).seen = s5[r].seen \union { v \in Tokens : s3'[v] # "absent" }
      /\ next(r).gone = s5[r].gone \union ((s5[r].seen \union { v \in Tokens : s3'[v] # "absent" }) \intersect out)
      /\ next(r).out = s5[r].out \union out
      /\ next(r).flipped = (s5[r].flipped \/ s2'.explicit # s2.explicit)
  OBVIOUS
<1> HIDE DEF next
<1>7. CASE s4'[r].at # "idle"
  <2>1. s5'[r] = next(r)
    BY <1>5, <1>7
  <2> QED
    BY <1>4, <1>6, <2>1
<1> QED
  BY <1>4, <1>7

(* What goes on around a run only adds to what it may. *)
LEMMA WaitingRunsMay ==
  ASSUME SyncInv, s3' \in [Tokens -> {"absent", "bare", "own"}], s2' \in Grant, s1' = s1,
         s4' \in [Runs -> SyncRun], Sync!Witness(Sync!Running), NEW q \in Runs, s4'[q] = s4[q]
  PROVE  RunMay(q)'
<1>1. SyncTypes /\ RunMay(q)
  BY DEF SyncInv, RunsMay
<1>2. CASE s4[q].at = "idle"
  BY <1>2 DEF RunMay
<1>3. CASE s4[q].at # "idle"
  <2>1. PICK o \in SyncRun : o = s4[q] /\ o = s4'[q]
    BY <1>1 DEF SyncTypes
  <2>2. s5' \in [Runs -> SyncPast]
    BY <1>1, WitnessIs
  <2>3. PICK p \in SyncPast, n \in SyncPast : p = s5[q] /\ n = s5'[q]
    BY <1>1, <2>2 DEF SyncTypes
  <2>4. /\ p.seen \subseteq n.seen /\ p.gone \subseteq n.gone /\ p.out \subseteq n.out
        /\ p.flipped => n.flipped
        /\ s2'.explicit # s2.explicit => n.flipped
    BY <1>1, <1>3, <2>1, <2>3, WitnessIs
  <2>5. PruneMay(o, p) /\ SyncMay(o, p) /\ o.kind # "none" /\ o.at # "idle"
    BY <1>1, <1>3, <2>1, <2>3 DEF RunMay
  <2>6. PruneMay(o, n)'
    BY <2>4, <2>5 DEF PruneMay
  <2>7. SyncMay(o, n)'
    BY <2>4, <2>5 DEF SyncMay
  <2> QED
    BY <2>1, <2>3, <2>5, <2>6, <2>7 DEF RunMay
<1> QED
  BY <1>2, <1>3

(* One run takes a step, and the rights stay. *)
LEMMA RunStepKeeps ==
  ASSUME SyncInv, NEW r \in Runs, NEW x \in SyncRun, s4' = [s4 EXCEPT ![r] = x],
         s3' \in [Tokens -> {"absent", "bare", "own"}], s2' = s2, s1' = s1,
         Sync!Witness(Sync!Running),
         x.at # "idle" => /\ x.kind # "none"
                          /\ \A n \in SyncPast :
                               /\ s5[r].seen \subseteq n.seen
                               /\ { v \in Tokens : s3'[v] # "absent" } \subseteq n.seen
                               /\ s5[r].gone \subseteq n.gone
                               /\ n.seen \intersect (Tokens \ Sync!Wanted(s2)) \subseteq n.gone
                               /\ s5[r].out \subseteq n.out /\ Tokens \ Sync!Wanted(s2) \subseteq n.out
                               /\ s5[r].flipped => n.flipped
                               => PruneMay(x, n) /\ SyncMay(x, n)
  PROVE  SyncInv'
<1>1. SyncTypes
  BY DEF SyncInv
<1>2. s4' \in [Runs -> SyncRun] /\ s4'[r] = x /\ \A q \in Runs \ {r} : s4'[q] = s4[q]
  BY <1>1 DEF SyncTypes
<1>3. s2' \in Grant /\ Sync!Wanted(s2') = Sync!Wanted(s2)
  BY <1>1 DEF SyncTypes
<1>4. s5' \in [Runs -> SyncPast]
  BY <1>1, <1>2, <1>3, WitnessIs
<1>5. SyncTypes'
  BY <1>1, <1>2, <1>3, <1>4 DEF SyncTypes
<1>6. \A q \in Runs \ {r} : RunMay(q)'
  BY <1>2, <1>3, WaitingRunsMay
<1>7. RunMay(r)'
  <2>1. CASE x.at = "idle"
    BY <1>2, <2>1 DEF RunMay
  <2>2. CASE x.at # "idle"
    <3>1. PICK n \in SyncPast : n = s5'[r]
      BY <1>4
    <3>2. PruneMay(x, n) /\ SyncMay(x, n) /\ x.kind # "none"
      BY <1>1, <1>2, <1>3, <2>2, <3>1, WitnessIs
    <3>3. PruneMay(x, n)' /\ SyncMay(x, n)'
      BY <3>2 DEF PruneMay, SyncMay
    <3> QED
      BY <1>2, <3>1, <3>2, <3>3 DEF RunMay
  <2> QED
    BY <2>1, <2>2
<1> QED
  BY <1>5, <1>6, <1>7 DEF SyncInv, RunsMay

LEMMA IdleRunIs == Sync!IdleRun \in SyncRun /\ Sync!IdleRun.at = "idle"
BY DEF Sync!IdleRun, SyncRun, SyncAt

-----------------------------------------------------------------------------
(* The steps of a run *)

LEMMA ReadsKeep ==
  ASSUME SyncInv, Tokens \subseteq Nat \ {0}, Sync!Witness(Sync!Running), NEW r \in Runs,
         \/ \E kind \in {"sync", "prune"} : Sync!Begin(r, kind)
         \/ Sync!ReadDetail(r) \/ Sync!Entitlements(r) \/ Sync!ReadLocal(r)
  PROVE  SyncInv'
<1>1. SyncTypes /\ RunMay(r) /\ Sync!IdleRun \in SyncRun /\ Sync!IdleRun.at = "idle"
  BY IdleRunIs DEF SyncInv, RunsMay
<1>2. PICK o \in SyncRun : o = s4[r]
  BY <1>1 DEF SyncTypes
<1>3. o.at # "idle" => o.kind # "none" /\ PruneMay(o, s5[r]) /\ SyncMay(o, s5[r])
  BY <1>1, <1>2 DEF RunMay
<1>4. s3' \in [Tokens -> {"absent", "bare", "own"}] /\ s3' = s3 /\ s2' = s2 /\ s1' = s1
  BY <1>1 DEF Sync!Begin, Sync!ReadDetail, Sync!Entitlements, Sync!ReadLocal, Sync!Stay, SyncTypes
<1>5. ASSUME NEW kind \in {"sync", "prune"}, Sync!Begin(r, kind)
      PROVE  SyncInv'
  <2> DEFINE at == IF kind = "prune" THEN "rows" ELSE IF s1 THEN "detail" ELSE "page"
  <2>1. at \in SyncAt
    BY DEF SyncAt
  <2>2. PICK x \in SyncRun : x = [Sync!IdleRun EXCEPT !.kind = kind, !.at = at]
    BY <1>1, <2>1 DEF SyncRun
  <2>3. x.kind = kind /\ x.at = at /\ x.cursor = 0 /\ s4' = [s4 EXCEPT ![r] = x]
    BY <1>5, <2>2 DEF Sync!Begin, Sync!IdleRun
  <2>4. kind = "prune" => ~s1
    BY <1>5 DEF Sync!Begin
  <2>5. \A n \in SyncPast : PruneMay(x, n) /\ SyncMay(x, n)
    BY <2>3, <2>4 DEF PruneMay, SyncMay
  <2> QED
    BY <1>4, <2>3, <2>5, RunStepKeeps
<1>6. CASE Sync!ReadDetail(r)
  <2>1. PICK x \in SyncRun : x = [o EXCEPT !.at = "entitlements"]
    BY DEF SyncRun, SyncAt
  <2>2. x.at = "entitlements" /\ x.kind = o.kind /\ o.at = "detail"
    BY <1>2, <1>6, <2>1 DEF SyncRun, Sync!ReadDetail
  <2>3. (s2.explicit /\ s4' = [s4 EXCEPT ![r] = x]) \/ s4' = [s4 EXCEPT ![r] = Sync!IdleRun]
    BY <1>1, <1>2, <1>6, <2>1 DEF Sync!ReadDetail, Sync!Explicit, SyncTypes
  <2>4. s2.explicit => \A n \in SyncPast : PruneMay(x, n) /\ SyncMay(x, n)
    BY <1>3, <2>2 DEF PruneMay, SyncMay
  <2> QED
    BY <1>1, <1>3, <1>4, <2>2, <2>3, <2>4, RunStepKeeps
<1>7. CASE Sync!Entitlements(r)
  <2> DEFINE list == IF s2.explicit THEN s2.entitled ELSE {}
             at   == IF list = {} THEN Sync!AfterNone ELSE "page"
  <2>1. list \in SUBSET Tokens /\ at \in SyncAt /\ at \in {"delete", "page"}
    BY <1>1 DEF SyncTypes, Grant, Sync!AfterNone, SyncAt
  <2> HIDE DEF at
  <2>2. PICK x \in SyncRun : x = [o EXCEPT !.list = list, !.at = at]
    BY <2>1 DEF SyncRun
  <2>3. x.at = at /\ x.kind = o.kind /\ x.list = list /\ o.at = "entitlements"
    BY <1>2, <1>7, <2>2 DEF SyncRun, Sync!Entitlements
  <2>4. s4' = [s4 EXCEPT ![r] = x]
    BY <1>1, <1>2, <1>7, <2>2 DEF Sync!Entitlements, at, SyncTypes
  <2>5. o.kind = "sync" /\ s1 /\ (s2.explicit \/ s5[r].flipped)
    BY <1>2, <1>3, <2>3 DEF PruneMay, SyncMay, SyncRun
  <2>6. \A v \in Tokens \ list : s2.explicit => v \in Tokens \ Sync!Wanted(s2)
    BY <2>5 DEF Sync!Wanted
  <2>7. ASSUME NEW n \in SyncPast, Tokens \ Sync!Wanted(s2) \subseteq n.out, s5[r].flipped => n.flipped
        PROVE  PruneMay(x, n) /\ SyncMay(x, n)
    BY <2>1, <2>3, <2>5, <2>6, <2>7 DEF PruneMay, SyncMay
  <2> QED
    BY <1>4, <2>3, <2>4, <2>5, <2>7, RunStepKeeps
<1>8. CASE Sync!ReadLocal(r)
  <2>1. Sync!Present \in SUBSET Tokens
    BY DEF Sync!Present
  <2>2. PICK x \in SyncRun : x = [o EXCEPT !.list = Sync!Present, !.at = "page"]
    BY <2>1 DEF SyncRun, SyncAt
  <2>3. x.at = "page" /\ x.kind = o.kind /\ x.list = Sync!Present /\ x.got = o.got /\ x.cursor = o.cursor /\ o.at = "rows"
    BY <1>2, <1>8, <2>2 DEF SyncRun, Sync!ReadLocal
  <2>4. s4' = [s4 EXCEPT ![r] = x]
    BY <1>1, <1>2, <1>8, <2>2 DEF Sync!ReadLocal, SyncTypes
  <2>5. o.kind = "prune" /\ ~s1 /\ o.cursor = 0
    BY <1>2, <1>3, <2>3 DEF PruneMay, SyncMay, SyncRun
  <2>6. ASSUME NEW n \in SyncPast, { v \in Tokens : s3'[v] # "absent" } \subseteq n.seen
        PROVE  PruneMay(x, n) /\ SyncMay(x, n)
    <3>1. Sync!Present \subseteq n.seen
      BY <1>4, <2>6 DEF Sync!Present
    <3>2. \A v \in Tokens : ~(v <= 0)
      OBVIOUS
    <3> QED
      BY <2>1, <2>3, <2>5, <3>1, <3>2 DEF PruneMay, SyncMay
  <2> QED
    BY <1>4, <2>3, <2>4, <2>5, <2>6, RunStepKeeps
<1> QED
  BY <1>5, <1>6, <1>7, <1>8

LEMMA PagesKeep ==
  ASSUME SyncInv, Tokens \subseteq Nat \ {0}, Sync!Witness(Sync!Running), NEW r \in Runs, Sync!FetchPage(r)
  PROVE  SyncInv'
<1> DEFINE beyond == { v \in s2.shared : v > s4[r].cursor }
           page   == IF beyond = {} THEN {} ELSE {Sync!Least(beyond)}
           got    == s4[r].got \union page
           more   == beyond \ page # {}
<1>1. SyncTypes /\ RunMay(r)
  BY DEF SyncInv, RunsMay
<1>2. PICK o \in SyncRun : o = s4[r]
  BY <1>1 DEF SyncTypes
<1>3. /\ o.at = "page" /\ s3' = s3 /\ s2' = s2 /\ s1' = s1
      /\ o.kind # "none" /\ PruneMay(o, s5[r]) /\ SyncMay(o, s5[r])
  BY <1>1, <1>2 DEF RunMay, Sync!FetchPage, Sync!Stay
<1>4. s2.shared \subseteq Tokens /\ beyond \in SUBSET Nat /\ beyond \subseteq Tokens /\ o.cursor \in Nat
      /\ o.list \subseteq Tokens /\ o.got \subseteq Tokens /\ o.kind \in {"none", "sync", "prune"}
      /\ s3' \in [Tokens -> {"absent", "bare", "own"}]
  BY <1>1, <1>2, <1>3 DEF SyncTypes, Grant, SyncRun
<1>5. beyond # {} => Sync!Least(beyond) \in beyond /\ \A w \in beyond : Sync!Least(beyond) <= w
  BY <1>4, LeastIs
<1>6. page \subseteq Tokens /\ got \in SUBSET Tokens /\ got = o.got \union page
  BY <1>2, <1>4, <1>5
<1>7. \A v \in Tokens : v > o.cursor /\ v \notin beyond => v \notin s2.shared
  BY <1>2
<1>8. o.kind = "prune" => ~s1 /\ Sync!Wanted(s2) = s2.shared /\ o.list \subseteq s5[r].seen
  BY <1>3 DEF PruneMay, Sync!Wanted
<1>9. CASE more
  <2>1. PICK x \in SyncRun : x = [o EXCEPT !.got = got, !.cursor = Sync!Least(beyond)]
    BY <1>4, <1>5, <1>6, <1>9 DEF SyncRun
  <2>2. s4' = [s4 EXCEPT ![r] = x]
    BY <1>1, <1>2, <1>9, <2>1 DEF Sync!FetchPage, SyncTypes
  <2>3. x.at = "page" /\ x.kind = o.kind /\ x.list = o.list /\ x.got = got /\ x.cursor = Sync!Least(beyond)
    BY <1>3, <2>1 DEF SyncRun
  <2>4. ASSUME NEW n \in SyncPast, s5[r].seen \subseteq n.seen, s5[r].gone \subseteq n.gone,
               n.seen \intersect (Tokens \ Sync!Wanted(s2)) \subseteq n.gone,
               o.kind = "prune", NEW v \in o.list \ got, v <= Sync!Least(beyond)
        PROVE  v \in n.gone
    <3>1. CASE v <= o.cursor
      BY <1>3, <1>6, <2>4, <3>1 DEF PruneMay
    <3>2. CASE ~(v <= o.cursor)
      <4>1. v > o.cursor /\ v \in Nat /\ v \notin page
        <5>1. v \in Tokens /\ v \notin got
          BY <1>4
        <5> HIDE DEF got, page
        <5>2. v \in Nat /\ v \notin page
          BY <1>6, <5>1
        <5> QED
          BY <1>4, <3>2, <5>2
      <4>2. v \notin beyond
        <5>1. beyond # {} /\ page = {Sync!Least(beyond)}
          BY <1>9
        <5> HIDE DEF beyond, page
        <5>2. Sync!Least(beyond) \in Nat /\ v # Sync!Least(beyond)
          BY <1>4, <1>5, <4>1, <5>1
        <5> QED
          BY <1>5, <2>4, <4>1, <5>1, <5>2
      <4>3. v \notin s2.shared /\ v \in Tokens
        BY <1>4, <1>7, <4>1, <4>2
      <4> QED
        BY <1>8, <2>4, <4>3
    <3> QED
      BY <3>1, <3>2
  <2>5. ASSUME NEW n \in SyncPast, s5[r].seen \subseteq n.seen, s5[r].gone \subseteq n.gone,
               n.seen \intersect (Tokens \ Sync!Wanted(s2)) \subseteq n.gone,
               s5[r].out \subseteq n.out, s5[r].flipped => n.flipped
        PROVE  PruneMay(x, n) /\ SyncMay(x, n)
    <3>1. PruneMay(x, n)
      BY <1>8, <2>3, <2>4, <2>5 DEF PruneMay
    <3>2. SyncMay(x, n)
      BY <1>3, <2>3, <2>5 DEF SyncMay
    <3> QED
      BY <3>1, <3>2
  <2> QED
    BY <1>3, <1>4, <2>2, <2>3, <2>5, RunStepKeeps
<1>10. CASE ~more
  <2>1. Sync!Todo(r, got) \in SUBSET Tokens
    BY <1>2, <1>4, <1>6 DEF Sync!Todo, Sync!RowsRead
  <2>2. PICK x \in SyncRun : x = [o EXCEPT !.got = got, !.at = "work", !.todo = Sync!Todo(r, got)]
    BY <1>6, <2>1 DEF SyncRun, SyncAt
  <2>3. s4' = [s4 EXCEPT ![r] = x]
    BY <1>1, <1>2, <1>10, <2>2 DEF Sync!FetchPage, SyncTypes
  <2>4. x.at = "work" /\ x.kind = o.kind /\ x.list = o.list /\ x.todo = Sync!Todo(r, got)
    BY <2>2 DEF SyncRun
  <2>5. o.kind = "prune" => Sync!Todo(r, got) = o.list \ got
    BY <1>2, <1>8 DEF Sync!Todo, Sync!RowsRead
  <2>6. ASSUME NEW n \in SyncPast, s5[r].seen \subseteq n.seen, s5[r].gone \subseteq n.gone,
               n.seen \intersect (Tokens \ Sync!Wanted(s2)) \subseteq n.gone,
               o.kind = "prune", NEW v \in o.list \ got
        PROVE  v \in n.gone
    <3>1. CASE v <= o.cursor
      BY <1>3, <1>6, <2>6, <3>1 DEF PruneMay
    <3>2. CASE ~(v <= o.cursor)
      <4>1. v > o.cursor /\ v \in Tokens /\ v \notin page
        <5>1. v \in Tokens /\ v \notin got
          BY <1>4
        <5> HIDE DEF got, page
        <5>2. v \in Nat /\ v \notin page
          BY <1>6, <5>1
        <5> QED
          BY <1>4, <3>2, <5>1, <5>2
      <4>2. v \notin s2.shared
        BY <1>7, <1>10, <4>1
      <4> QED
        BY <1>8, <2>6, <4>1, <4>2
    <3> QED
      BY <3>1, <3>2
  <2>7. ASSUME NEW n \in SyncPast, s5[r].seen \subseteq n.seen, s5[r].gone \subseteq n.gone,
               n.seen \intersect (Tokens \ Sync!Wanted(s2)) \subseteq n.gone,
               s5[r].out \subseteq n.out, s5[r].flipped => n.flipped
        PROVE  PruneMay(x, n) /\ SyncMay(x, n)
    <3>1. PruneMay(x, n)
      BY <1>8, <2>4, <2>5, <2>6, <2>7 DEF PruneMay
    <3>2. SyncMay(x, n)
      BY <1>3, <2>4, <2>7 DEF SyncMay
    <3> QED
      BY <3>1, <3>2
  <2> QED
    BY <1>3, <1>4, <2>3, <2>4, <2>7, RunStepKeeps
<1> QED
  BY <1>9, <1>10

LEMMA WorkKeeps ==
  ASSUME SyncInv, Tokens \subseteq Nat \ {0}, Sync!Witness(Sync!Running), NEW r \in Runs,
         Sync!upsertIdentityVehicle(r) \/ Sync!DeleteOne(r) \/ Sync!NoneLeft(r) \/ Sync!PruneRevoked(r) \/ Sync!RunFails(r)
  PROVE  SyncInv'
<1>1. SyncTypes /\ RunMay(r) /\ Sync!IdleRun \in SyncRun /\ Sync!IdleRun.at = "idle"
  BY IdleRunIs DEF SyncInv, RunsMay
<1>2. PICK o \in SyncRun : o = s4[r]
  BY <1>1 DEF SyncTypes
<1>3. o.at # "idle" => o.kind # "none" /\ PruneMay(o, s5[r]) /\ SyncMay(o, s5[r])
  BY <1>1, <1>2 DEF RunMay
<1>4. s2' = s2 /\ s1' = s1
  BY DEF Sync!upsertIdentityVehicle, Sync!DeleteOne, Sync!NoneLeft, Sync!PruneRevoked, Sync!RunFails, Sync!Stay
<1>5. o.todo \in SUBSET Tokens /\ o.todo \in SUBSET Nat
  BY DEF SyncRun
<1>6. o.todo # {} => Sync!Least(o.todo) \in o.todo
  BY <1>5, LeastIs
<1>7. s3' \in [Tokens -> {"absent", "bare", "own"}]
  <2>1. CASE Sync!upsertIdentityVehicle(r)
    <3>1. \A v \in Tokens : Sync!OnConflict(s3[v], "bare") \in {"absent", "bare", "own"}
      BY <1>1 DEF Sync!OnConflict, SyncTypes
    <3> QED
      BY <1>1, <1>2, <2>1, <3>1 DEF Sync!upsertIdentityVehicle, Sync!Upsert, SyncTypes
  <2>2. CASE Sync!DeleteOne(r)
    BY <1>1, <2>2 DEF Sync!DeleteOne, Sync!DeleteRow, SyncTypes
  <2>3. CASE Sync!PruneRevoked(r)
    BY <1>1, <2>3 DEF Sync!PruneRevoked, Sync!DeleteAll, SyncTypes
  <2>4. CASE Sync!NoneLeft(r) \/ Sync!RunFails(r)
    BY <1>1, <2>4 DEF Sync!NoneLeft, Sync!RunFails, SyncTypes
  <2> QED
    BY <2>1, <2>2, <2>3, <2>4
<1>8. CASE s4' = [s4 EXCEPT ![r] = Sync!IdleRun]
  BY <1>1, <1>4, <1>7, <1>8, RunStepKeeps
<1>9. CASE Sync!upsertIdentityVehicle(r) \/ Sync!DeleteOne(r)
  <2>1. PICK x \in SyncRun : x = [o EXCEPT !.todo = o.todo \ {Sync!Least(o.todo)}]
    BY <1>5 DEF SyncRun
  <2>2. s4' = [s4 EXCEPT ![r] = x]
    BY <1>1, <1>2, <1>9, <2>1 DEF Sync!upsertIdentityVehicle, Sync!DeleteOne, SyncTypes
  <2>3. x.at = "work" /\ o.at = "work" /\ x.kind = o.kind /\ x.list = o.list /\ x.todo \subseteq o.todo
    BY <1>2, <1>9, <2>1 DEF Sync!upsertIdentityVehicle, Sync!DeleteOne, SyncRun
  <2>4. ASSUME NEW n \in SyncPast, s5[r].seen \subseteq n.seen, s5[r].gone \subseteq n.gone,
               s5[r].out \subseteq n.out, s5[r].flipped => n.flipped
        PROVE  PruneMay(x, n) /\ SyncMay(x, n)
    <3>1. PruneMay(x, n)
      BY <1>3, <2>3, <2>4 DEF PruneMay
    <3>2. SyncMay(x, n)
      BY <1>3, <2>3, <2>4 DEF SyncMay
    <3> QED
      BY <3>1, <3>2
  <2> QED
    BY <1>3, <1>4, <1>7, <2>2, <2>3, <2>4, RunStepKeeps
<1>10. CASE Sync!NoneLeft(r) /\ o.kind = "sync" /\ s1
  <2>1. PICK x \in SyncRun : x = [o EXCEPT !.at = "delete"]
    BY DEF SyncRun, SyncAt
  <2>2. s4' = [s4 EXCEPT ![r] = x]
    BY <1>2, <1>10, <2>1 DEF Sync!NoneLeft, Sync!AfterWork
  <2>3. x.at = "delete" /\ o.at = "work" /\ x.kind = "sync" /\ x.list = o.list
    BY <1>2, <1>10, <2>1 DEF Sync!NoneLeft, SyncRun
  <2>4. ASSUME NEW n \in SyncPast, s5[r].out \subseteq n.out, s5[r].flipped => n.flipped
        PROVE  PruneMay(x, n) /\ SyncMay(x, n)
    BY <1>3, <1>10, <2>3, <2>4 DEF PruneMay, SyncMay
  <2> QED
    BY <1>4, <1>7, <2>2, <2>3, <2>4, RunStepKeeps
<1>11. CASE Sync!NoneLeft(r) /\ ~(o.kind = "sync" /\ s1)
  BY <1>2, <1>8, <1>11 DEF Sync!NoneLeft, Sync!AfterWork
<1> QED
  BY <1>8, <1>9, <1>10, <1>11 DEF Sync!PruneRevoked, Sync!RunFails

-----------------------------------------------------------------------------
LEMMA TruthKeeps ==
  ASSUME SyncInv, Sync!Witness(Sync!Running), Sync!TruthChanges \/ \E v \in Tokens : Sync!Own(v)
  PROVE  SyncInv'
<1>1. SyncTypes /\ s4' = s4 /\ s1' = s1
  BY DEF SyncInv, Sync!TruthChanges, Sync!Own, Sync!Stay
<1>2. s2' \in Grant
  <2>1. CASE \E v \in Tokens : Sync!Own(v)
    BY <1>1, <2>1 DEF Sync!Own, Sync!Stay, SyncTypes
  <2>2. CASE Sync!TruthChanges
    <3>1. \A set \in SUBSET Tokens, v \in Tokens : Sync!Toggle(set, v) \in SUBSET Tokens
      BY DEF Sync!Toggle
    <3>2. PICK g \in Grant : g = s2
      BY <1>1 DEF SyncTypes
    <3>3. g.shared \in SUBSET Tokens /\ g.entitled \in SUBSET Tokens /\ (~g.explicit) \in BOOLEAN
      BY DEF Grant
    <3>4. \/ \E v \in Tokens : s2' = [g EXCEPT !.shared = Sync!Toggle(g.shared, v)]
          \/ \E v \in Tokens : s2' = [g EXCEPT !.entitled = Sync!Toggle(g.entitled, v)]
          \/ s2' = [g EXCEPT !.explicit = ~g.explicit]
      BY <2>2, <3>2 DEF Sync!TruthChanges
    <3> QED
      BY <3>1, <3>3, <3>4 DEF Grant
  <2> QED
    BY <2>1, <2>2
<1>3. s3' \in [Tokens -> {"absent", "bare", "own"}]
  BY <1>1 DEF Sync!TruthChanges, Sync!Own, SyncTypes
<1>4. s4' \in [Runs -> SyncRun] /\ \A r \in Runs : s4'[r] = s4[r]
  BY <1>1 DEF SyncTypes
<1>5. \A r \in Runs : RunMay(r)'
  BY <1>1, <1>2, <1>3, <1>4, WaitingRunsMay
<1>6. s5' \in [Runs -> SyncPast]
  <2>1. CASE Runs = {}
    BY <2>1 DEF Sync!Witness
  <2>2. CASE Runs # {}
    <3>1. PICK r \in Runs : TRUE
      BY <2>2
    <3> QED
      BY <1>1, <1>2, <1>3, <1>4, <3>1, WitnessIs
  <2> QED
    BY <2>1, <2>2
<1> QED
  BY <1>1, <1>2, <1>3, <1>4, <1>5, <1>6 DEF SyncInv, RunsMay, SyncTypes

LEMMA SyncKeeps ==
  ASSUME SyncInv, Tokens \subseteq Nat \ {0}, Sync!Next \/ UNCHANGED Sync!syncVars
  PROVE  SyncInv'
<1>1. CASE UNCHANGED Sync!syncVars
  BY <1>1 DEF Sync!syncVars, SyncInv, SyncTypes, RunsMay, RunMay, PruneMay, SyncMay
<1>2. CASE Sync!Next
  BY <1>2, ReadsKeep, PagesKeep, WorkKeeps, TruthKeeps DEF Sync!Next, Sync!Act, Sync!RunSteps
<1> QED
  BY <1>1, <1>2

LEMMA SyncStarts ==
  ASSUME Sync!Init
  PROVE  SyncInv
<1>1. s2 \in Grant
  BY DEF Sync!Init, Grant
<1>2. Sync!NoPast \in SyncPast
  BY DEF Sync!NoPast, SyncPast
<1>3. s4 \in [Runs -> SyncRun] /\ s5 \in [Runs -> SyncPast] /\ \A r \in Runs : s4[r].at = "idle"
  BY <1>2, IdleRunIs DEF Sync!Init
<1> QED
  BY <1>1, <1>3 DEF Sync!Init, SyncInv, SyncTypes, RunsMay, RunMay

LEMMA SyncLosses ==
  ASSUME SyncInv, Sync!Next
  PROVE  Sync!Losses
<1> SUFFICES ASSUME NEW v \in Tokens
             PROVE  /\ s3[v] # "absent" /\ s3'[v] = "absent" =>
                          \E r \in Runs : s4[r] # s4'[r] /\ Sync!MayRemove(r, v)
                    /\ s3[v] = "own" => s3'[v] # "bare"
  BY DEF Sync!Losses
<1>1. SyncTypes /\ RunsMay
  BY DEF SyncInv
<1>2. CASE s3' = s3
  BY <1>2
<1>3. ASSUME NEW r \in Runs, Sync!upsertIdentityVehicle(r)
      PROVE  (s3[v] # "absent" => s3'[v] # "absent") /\ (s3[v] = "own" => s3'[v] # "bare")
  <2>1. s3' = [s3 EXCEPT ![Sync!Least(s4[r].todo)] = Sync!OnConflict(s3[Sync!Least(s4[r].todo)], "bare")]
    BY <1>1, <1>3 DEF Sync!upsertIdentityVehicle, Sync!Upsert, SyncTypes
  <2>2. s3'[v] = s3[v] \/ s3'[v] = Sync!OnConflict(s3[v], "bare")
    BY <1>1, <2>1 DEF SyncTypes
  <2> QED
    BY <2>2 DEF Sync!OnConflict
<1>4. ASSUME NEW r \in Runs, Sync!DeleteOne(r), s3[v] # s3'[v]
      PROVE  s3'[v] = "absent" /\ s4[r] # s4'[r] /\ Sync!MayRemove(r, v)
  <2>1. PICK o \in SyncRun : o = s4[r]
    BY <1>1 DEF SyncTypes
  <2>2. o.at = "work" /\ o.kind = "prune" /\ o.todo \in SUBSET Nat /\ o.todo # {}
    BY <1>4, <2>1, TokenIdsAssumption DEF Sync!DeleteOne, SyncRun
  <2>3. Sync!Least(o.todo) \in o.todo
    BY <2>2, LeastIs
  <2>4. v = Sync!Least(o.todo) /\ s3'[v] = "absent"
    BY <1>1, <1>4, <2>1 DEF Sync!DeleteOne, Sync!DeleteRow, SyncTypes
  <2>5. s4'[r].todo = o.todo \ {Sync!Least(o.todo)}
    BY <1>1, <1>4, <2>1 DEF Sync!DeleteOne, SyncTypes, SyncRun
  <2>6. PruneMay(o, s5[r])
    BY <1>1, <2>1, <2>2 DEF RunsMay, RunMay
  <2> QED
    BY <2>1, <2>2, <2>3, <2>4, <2>5, <2>6 DEF PruneMay, Sync!MayRemove
<1>5. ASSUME NEW r \in Runs, Sync!PruneRevoked(r), s3[v] # s3'[v]
      PROVE  s3'[v] = "absent" /\ s4[r] # s4'[r] /\ Sync!MayRemove(r, v)
  <2>1. PICK o \in SyncRun : o = s4[r]
    BY <1>1 DEF SyncTypes
  <2>2. o.at = "delete" /\ s4'[r].at = "idle" /\ s3' = Sync!DeleteAll(o.list)
    BY <1>1, <1>5, <2>1, IdleRunIs DEF Sync!PruneRevoked, SyncTypes
  <2>3. v \notin o.list /\ s3'[v] = "absent"
    BY <1>5, <2>2 DEF Sync!DeleteAll
  <2>4. o.kind # "none" /\ PruneMay(o, s5[r]) /\ SyncMay(o, s5[r])
    BY <1>1, <2>1, <2>2 DEF RunsMay, RunMay
  <2>5. o.kind = "sync" /\ s1 /\ (v \in s5[r].out \/ s5[r].flipped)
    BY <2>2, <2>3, <2>4 DEF PruneMay, SyncMay, SyncRun
  <2> QED
    BY <2>1, <2>2, <2>3, <2>5 DEF Sync!MayRemove
<1>6. ASSUME NEW w \in Tokens, Sync!Own(w)
      PROVE  (s3[v] # "absent" => s3'[v] # "absent") /\ (s3[v] = "own" => s3'[v] # "bare")
  BY <1>1, <1>6 DEF Sync!Own, SyncTypes
<1>7. ASSUME NEW r \in Runs,
             \/ Sync!ReadDetail(r) \/ Sync!Entitlements(r) \/ Sync!ReadLocal(r) \/ Sync!FetchPage(r) \/ Sync!NoneLeft(r) \/ Sync!RunFails(r)
             \/ \E kind \in {"sync", "prune"} : Sync!Begin(r, kind)
      PROVE  s3' = s3
  BY <1>7 DEF Sync!ReadDetail, Sync!Entitlements, Sync!ReadLocal, Sync!FetchPage, Sync!NoneLeft, Sync!RunFails, Sync!Begin
<1>8. Sync!TruthChanges => s3' = s3
  BY DEF Sync!TruthChanges
<1> QED
  BY <1>2, <1>3, <1>4, <1>5, <1>6, <1>7, <1>8 DEF Sync!Next, Sync!Act, Sync!RunSteps

(* A vehicle's row, and what only this application knows of its vehicle,   *)
(* is lost only by a run that could see the vehicle revoked since it       *)
(* began, and by the prune command only when that was after the vehicle    *)
(* had its row: what is shared and synced while it runs is safe            *)
(* (pruneRevokedVehicles, prune_unshared_vehicles.go,                      *)
(* upsertIdentityVehicle).                                                 *)
THEOREM OnlyRevokedAreLost == SubjectSpec => OnlyRevokedLose
<1> DEFINE Inv == subject = "sync" => SyncInv
<1>1. SubjectInit => Inv
  BY SyncStarts DEF SubjectInit
<1>2. Inv /\ [SubjectNext]_allVars => Inv'
  <2> SUFFICES ASSUME Inv, [SubjectNext]_allVars, subject' = "sync"
               PROVE  SyncInv'
    OBVIOUS
  <2>1. subject = "sync" /\ SyncInv
    BY SubjectStays
  <2>2. Sync!Next \/ UNCHANGED Sync!syncVars
    BY <2>1, SyncSteps
  <2> QED
    BY <2>1, <2>2, SyncKeeps, TokenIdsAssumption
<1>3. Inv /\ [SubjectNext]_allVars => [subject = "sync" => Sync!Losses]_allVars
  <2> SUFFICES ASSUME Inv, SubjectNext, subject = "sync"
               PROVE  Sync!Losses
    BY DEF allVars
  <2>1. CASE UNCHANGED Sync!syncVars
    BY <2>1 DEF Sync!syncVars, Sync!Losses
  <2>2. CASE Sync!Next
    BY <2>2, SyncLosses
  <2> QED
    BY <2>1, <2>2, SyncSteps
<1> QED
  BY <1>1, <1>2, <1>3, PTL DEF SubjectSpec, OnlyRevokedLose

-----------------------------------------------------------------------------
(***************************************************************************)
(* Positions (Locations).  Whatever holds a position carries a bound on    *)
(* how long ago that was replaced: an outcome by what is left of its life, *)
(* a request and a write by their age.                                     *)
(* fix s1, old s2, outcome s3, reader s4, writer s5, stored s6.            *)
(***************************************************************************)
LEMMA PositionSteps ==
  ASSUME subject = "positions", [SubjectNext]_allVars
  PROVE  Located!Next \/ UNCHANGED Located!locVars
BY DEF SubjectNext, OfRegistrations, OfReceipts, OfPositions, OfSync, OfReports, OfExtraction,
       allVars, places, Located!locVars

Locs    == UNION { [set -> 0..MaxFixes] : set \in SUBSET Fleet }
Outcome == [is : {"none", "coords", "empty", "noPerm"}, pos : 0..MaxFixes, left : 0..Keep]
Reader  == [at : {"idle", "jwt", "fan"}, on : Replicas \union {"none"}, force : BOOLEAN, todo : SUBSET Fleet,
            asked : Locs, locs : Locs, age : Nat]
Writer  == [locs : Locs, age : Nat]

(* A position that was reported, and was the latest n ticks ago.           *)
Recent(v, pos, n) == pos \in 1..s1[v] /\ Located!Since(v, pos) <= n

AllRecent(locs, n) == \A v \in DOMAIN locs : Recent(v, locs[v], n)

OutcomeFine(v, o) == o.is = "coords" => Recent(v, o.pos, Slow + (Keep - o.left))

Reach(force, age) == IF force THEN age ELSE Keep + Slow + age

ReaderFine(o) ==
  /\ o.at = "idle" => DOMAIN o.locs = {}
  /\ o.at # "idle" =>
       /\ o.on \in Replicas /\ o.age <= Slow
       /\ \A v \in DOMAIN o.asked : o.asked[v] # 0 => Recent(v, o.asked[v], o.age)
       /\ AllRecent(o.locs, Reach(o.force, o.age))

WriterFine(o) == o.age <= Late /\ AllRecent(o.locs, Keep + 2 * Slow + o.age)

Clocks ==
  /\ s1 \in [Fleet -> 0..MaxFixes] /\ s2 \in [Fleet -> [1..MaxFixes -> Nat]]
  /\ \A v \in Fleet, k \in 1..MaxFixes : k >= s1[v] => s2[v][k] = 0

OutcomesFine == s3 \in [Replicas -> [Fleet -> Outcome]] /\ \A p \in Replicas, v \in Fleet : OutcomeFine(v, s3[p][v])
ReadersFine  == s4 \in [Readers -> Reader] /\ \A r \in Readers : ReaderFine(s4[r])
WritersFine  == s5 \in [Writers -> Writer] /\ \A w \in Writers : WriterFine(s5[w])

LocInv == Clocks /\ OutcomesFine /\ ReadersFine /\ WritersFine

-----------------------------------------------------------------------------
LEMMA TimesAre == Keep \in Nat /\ Slow \in Nat /\ Late \in Nat /\ MaxFixes \in Nat
BY PositionsAssumption

LEMMA LocsAre ==
  ASSUME NEW f \in Locs
  PROVE  DOMAIN f \in SUBSET Fleet /\ f \in [DOMAIN f -> 0..MaxFixes]
BY DEF Locs

LEMMA AreLocs ==
  ASSUME NEW set \in SUBSET Fleet, NEW f \in [set -> 0..MaxFixes]
  PROVE  f \in Locs
BY DEF Locs

LEMMA NoneIs ==
  LET none == [v \in {} |-> 0]
  IN  none \in Locs /\ DOMAIN none = {}
<1>1. [v \in {} |-> 0] \in [{} -> 0..MaxFixes]
  OBVIOUS
<1> QED
  BY <1>1, AreLocs

LEMMA SingleIs ==
  ASSUME NEW v \in Fleet, NEW pos \in 0..MaxFixes
  PROVE  LET f == [w \in {v} |-> pos]
         IN  f \in Locs /\ DOMAIN f = {v} /\ f[v] = pos
<1>1. [w \in {v} |-> pos] \in [{v} -> 0..MaxFixes] /\ {v} \in SUBSET Fleet
  OBVIOUS
<1> QED
  BY <1>1, AreLocs

LEMMA MergeIs ==
  ASSUME NEW f \in Locs, NEW g \in Locs
  PROVE  /\ Located!Merge(f, g) \in Locs /\ DOMAIN Located!Merge(f, g) = DOMAIN f \union DOMAIN g
         /\ \A v \in DOMAIN g : Located!Merge(f, g)[v] = g[v]
         /\ \A v \in DOMAIN f \ DOMAIN g : Located!Merge(f, g)[v] = f[v]
<1>1. DOMAIN f \union DOMAIN g \in SUBSET Fleet
  BY LocsAre
<1>2. Located!Merge(f, g) \in [DOMAIN f \union DOMAIN g -> 0..MaxFixes]
  BY LocsAre DEF Located!Merge
<1> QED
  BY <1>1, <1>2, AreLocs DEF Located!Merge

LEMMA WithoutIs ==
  ASSUME NEW f \in Locs, NEW v
  PROVE  /\ Located!Without(f, v) \in Locs /\ DOMAIN Located!Without(f, v) = DOMAIN f \ {v}
         /\ \A w \in DOMAIN f \ {v} : Located!Without(f, v)[w] = f[w]
<1>1. DOMAIN f \ {v} \in SUBSET Fleet
  BY LocsAre
<1>2. Located!Without(f, v) \in [DOMAIN f \ {v} -> 0..MaxFixes]
  BY LocsAre DEF Located!Without
<1> QED
  BY <1>1, <1>2, AreLocs DEF Located!Without

LEMMA IdlesAre ==
  /\ Located!NoOutcome \in Outcome /\ Located!NoOutcome.is = "none"
  /\ Located!NoReader \in Reader /\ Located!NoReader.at = "idle" /\ DOMAIN Located!NoReader.locs = {}
  /\ DOMAIN Located!NoReader.asked = {} /\ Located!NoReader.age = 0
  /\ Located!NoWriter \in Writer /\ DOMAIN Located!NoWriter.locs = {} /\ Located!NoWriter.age = 0
<1> DEFINE none == [v \in {} |-> 0]
<1>1. none \in Locs /\ DOMAIN none = {}
  BY NoneIs
<1> HIDE DEF none
<1>2. Located!NoReader = [at |-> "idle", on |-> "none", force |-> FALSE, todo |-> {},
                          asked |-> none, locs |-> none, age |-> 0]
  BY DEF Located!NoReader, none
<1>3. Located!NoWriter = [locs |-> none, age |-> 0]
  BY DEF Located!NoWriter, none
<1> QED
  BY <1>1, <1>2, <1>3, TimesAre DEF Located!NoOutcome, Outcome, Reader, Writer

(* While nothing is reported and no time passes, nothing gets older.       *)
LEMMA StillFine ==
  ASSUME s1' = s1, s2' = s2
  PROVE  /\ Clocks => Clocks'
         /\ \A v, pos, n : Recent(v, pos, n)' <=> Recent(v, pos, n)
         /\ \A v, o : OutcomeFine(v, o)' <=> OutcomeFine(v, o)
         /\ \A o : ReaderFine(o)' <=> ReaderFine(o)
         /\ \A o : WriterFine(o)' <=> WriterFine(o)
<1>1. \A v, pos, n : Recent(v, pos, n)' <=> Recent(v, pos, n)
  BY DEF Recent, Located!Since
<1> QED
  BY <1>1 DEF Clocks, OutcomeFine, ReaderFine, WriterFine, AllRecent

LEMMA ReaderMoves ==
  ASSUME LocInv, NEW r \in Readers, NEW x \in Reader, ReaderFine(x),
         s4' = [s4 EXCEPT ![r] = x], UNCHANGED <<s1, s2, s3, s5>>
  PROVE  LocInv'
<1>1. Clocks' /\ OutcomesFine' /\ WritersFine'
  BY StillFine DEF LocInv, OutcomesFine, WritersFine
<1>2. s4' \in [Readers -> Reader] /\ \A q \in Readers : s4'[q] = s4[q] \/ s4'[q] = x
  BY DEF LocInv, ReadersFine
<1>3. \A q \in Readers : ReaderFine(s4'[q])
  BY <1>2 DEF LocInv, ReadersFine
<1>4. ASSUME NEW q \in Readers
      PROVE  ReaderFine(s4[q])'
  <2>1. PICK o : o = s4'[q] /\ ReaderFine(o)
    BY <1>3
  <2>2. ReaderFine(o)'
    BY <2>1, StillFine
  <2> QED
    BY <2>1, <2>2
<1> QED
  BY <1>1, <1>2, <1>4 DEF LocInv, ReadersFine

LEMMA SinceIs ==
  ASSUME Clocks, NEW v \in Fleet, NEW pos \in 1..s1[v]
  PROVE  Located!Since(v, pos) \in Nat
<1>1. s1[v] \in 0..MaxFixes /\ s2[v] \in [1..MaxFixes -> Nat]
  BY DEF Clocks
<1>2. pos \in 1..MaxFixes
  BY <1>1, TimesAre
<1> QED
  BY <1>1, <1>2 DEF Located!Since

LEMMA StillRecent ==
  ASSUME Clocks, NEW v \in Fleet, NEW pos, NEW m \in Int, Recent(v, pos, m), NEW n \in Int, m <= n
  PROVE  Recent(v, pos, n)
<1>1. pos \in 1..s1[v] /\ Located!Since(v, pos) \in Nat
  BY SinceIs DEF Recent
<1> QED
  BY <1>1 DEF Recent

-----------------------------------------------------------------------------
LEMMA BeginsFine ==
  ASSUME LocInv, NEW r \in Readers, NEW p \in Replicas, NEW force \in BOOLEAN, Located!Begin(r, p, force)
  PROVE  LocInv'
<1> DEFINE hits == { v \in Fleet : Located!Uses(p, force, v) }
           seen == { w \in hits : s3[p][w].is = "coords" }
           locs == [v \in seen |-> s3[p][v].pos]
           at   == IF hits = Fleet THEN "fan" ELSE "jwt"
<1>1. \A v \in Fleet : s3[p][v] \in Outcome /\ OutcomeFine(v, s3[p][v])
  BY DEF LocInv, OutcomesFine
<1>2. seen \in SUBSET Fleet /\ locs \in [seen -> 0..MaxFixes]
  BY <1>1 DEF Outcome
<1>3. locs \in Locs /\ DOMAIN locs = seen
  BY <1>2, AreLocs
<1>4. \A v \in seen : Recent(v, locs[v], Keep + Slow) /\ ~force
  <2> SUFFICES ASSUME NEW v \in seen
               PROVE  Recent(v, locs[v], Keep + Slow) /\ ~force
    OBVIOUS
  <2>1. PICK o \in Outcome : o = s3[p][v] /\ o.is = "coords" /\ locs[v] = o.pos
    BY <1>1, <1>2
  <2>2. Recent(v, o.pos, Slow + (Keep - o.left)) /\ o.left \in 0..Keep /\ ~force
    BY <1>1, <1>2, <2>1 DEF OutcomeFine, Outcome, Located!Uses
  <2>3. /\ Slow + (Keep - o.left) \in Int /\ Keep + Slow \in Int
        /\ Slow + (Keep - o.left) <= Keep + Slow
    BY <2>2, TimesAre
  <2>4. Recent(v, o.pos, Keep + Slow)
    BY <1>2, <2>2, <2>3, StillRecent DEF LocInv
  <2> QED
    BY <2>1, <2>2, <2>4
<1>5. at \in {"fan", "jwt"} /\ Fleet \ hits \in SUBSET Fleet
  OBVIOUS
<1>6. s4' = [s4 EXCEPT ![r] = [Located!NoReader EXCEPT !.at = at, !.on = p, !.force = force,
                                                        !.todo = Fleet \ hits, !.locs = locs]]
  BY DEF Located!Begin
<1> HIDE DEF locs, seen, hits, at
<1>7. PICK x \in Reader : /\ s4' = [s4 EXCEPT ![r] = x]
                          /\ x.at # "idle" /\ x.on = p /\ x.force = force /\ x.locs = locs
                          /\ DOMAIN x.asked = {} /\ x.age = 0
  <2>1. [Located!NoReader EXCEPT !.at = at, !.on = p, !.force = force, !.todo = Fleet \ hits, !.locs = locs] \in Reader
    BY <1>3, <1>5, IdlesAre DEF Reader
  <2> QED
    BY <1>3, <1>5, <1>6, <2>1, IdlesAre DEF Reader
<1>8. ReaderFine(x)
  BY <1>3, <1>4, <1>7, TimesAre DEF ReaderFine, AllRecent, Reach
<1>9. UNCHANGED <<s1, s2, s3, s5>>
  BY DEF Located!Begin
<1> QED
  BY <1>7, <1>8, <1>9, ReaderMoves

LEMMA JwtFine ==
  ASSUME LocInv, NEW r \in Readers, Located!GetDeveloperJWT(r)
  PROVE  LocInv'
<1>1. PICK o \in Reader : o = s4[r] /\ ReaderFine(o)
  BY DEF LocInv, ReadersFine
<1>2. o.at = "jwt" /\ UNCHANGED <<s1, s2, s3, s5>>
  BY <1>1 DEF Located!GetDeveloperJWT
<1>3. CASE s4' = [s4 EXCEPT ![r].at = "fan"]
  <2>1. PICK x \in Reader : x = [o EXCEPT !.at = "fan"]
    BY DEF Reader
  <2>2. s4' = [s4 EXCEPT ![r] = x]
    BY <1>1, <1>3, <2>1 DEF LocInv, ReadersFine
  <2>3. ReaderFine(x)
    BY <1>1, <1>2, <2>1 DEF ReaderFine, Reader
  <2> QED
    BY <1>2, <2>2, <2>3, ReaderMoves
<1>4. CASE s4' = [s4 EXCEPT ![r] = [@ EXCEPT !.at = "fan", !.todo = {}, !.locs = Located!NoReader.locs]]
  <2>1. Located!NoReader.locs \in Locs
    BY IdlesAre DEF Reader
  <2>2. PICK x \in Reader : x = [o EXCEPT !.at = "fan", !.todo = {}, !.locs = Located!NoReader.locs]
    BY <2>1 DEF Reader
  <2>3. s4' = [s4 EXCEPT ![r] = x]
    BY <1>1, <1>4, <2>2 DEF LocInv, ReadersFine
  <2>4. x.on = o.on /\ x.age = o.age /\ x.asked = o.asked /\ DOMAIN x.locs = {} /\ x.at = "fan"
    BY <2>1, <2>2, IdlesAre DEF Reader
  <2>5. ReaderFine(x)
    BY <1>1, <1>2, <2>4 DEF ReaderFine, AllRecent
  <2> QED
    BY <1>2, <2>3, <2>5, ReaderMoves
<1> QED
  BY <1>3, <1>4 DEF Located!GetDeveloperJWT

LEMMA AskFine ==
  ASSUME LocInv, NEW r \in Readers, NEW v \in Fleet, Located!AskTelemetry(r, v)
  PROVE  LocInv'
<1>1. PICK o \in Reader : o = s4[r] /\ ReaderFine(o)
  BY DEF LocInv, ReadersFine
<1>2. o.at = "fan" /\ UNCHANGED <<s1, s2, s3, s5>>
  BY <1>1 DEF Located!AskTelemetry
<1>3. PICK now \in 0..MaxFixes : now = s1[v]
  BY DEF LocInv, Clocks
<1>4. PICK g \in Locs : g = [w \in {v} |-> now] /\ DOMAIN g = {v} /\ g[v] = now
  BY SingleIs
<1> DEFINE asked == Located!Merge(o.asked, g)
<1>5. /\ asked \in Locs /\ DOMAIN asked = DOMAIN o.asked \union {v}
      /\ asked[v] = now /\ \A w \in DOMAIN o.asked \ {v} : asked[w] = o.asked[w]
  <2>1. o.asked \in Locs
    BY DEF Reader
  <2> QED
    BY <1>4, <2>1, MergeIs
<1> HIDE DEF asked
<1>6. PICK x \in Reader : x = [o EXCEPT !.asked = asked]
  BY <1>5 DEF Reader
<1>7. s4' = [s4 EXCEPT ![r] = x]
  BY <1>1, <1>3, <1>4, <1>5, <1>6 DEF LocInv, ReadersFine, Located!AskTelemetry, asked
<1>8. now # 0 => Recent(v, now, o.age)
  BY <1>3, TimesAre DEF Recent, Located!Since, Reader
<1>9. x.at = o.at /\ x.on = o.on /\ x.age = o.age /\ x.locs = o.locs /\ x.force = o.force /\ x.asked = asked
  BY <1>6 DEF Reader
<1>10. ReaderFine(x)
  BY <1>1, <1>2, <1>5, <1>8, <1>9 DEF ReaderFine
<1> QED
  BY <1>2, <1>7, <1>10, ReaderMoves

LEMMA WorkedFine ==
  ASSUME LocInv, NEW r \in Readers, NEW v \in Fleet, NEW is \in {"coords", "empty", "noPerm", "failed"},
         Located!Worked(r, v, is)
  PROVE  LocInv'
<1>1. PICK o \in Reader : o = s4[r] /\ ReaderFine(o)
  BY DEF LocInv, ReadersFine
<1>2. o.at = "fan" /\ o.on \in Replicas /\ UNCHANGED <<s1, s2, s5>>
  BY <1>1 DEF Located!Worked, ReaderFine
<1>3. PICK pos \in 0..MaxFixes : pos = IF v \in DOMAIN o.asked THEN o.asked[v] ELSE 0
  BY LocsAre, TimesAre DEF Reader
<1>4. is = "coords" => v \in DOMAIN o.asked /\ pos # 0 /\ Recent(v, pos, o.age)
  BY <1>1, <1>2, <1>3 DEF Located!Worked, ReaderFine
<1>5. o.age \in 0..Slow
  BY <1>1, <1>2, TimesAre DEF ReaderFine, Reader
<1>7. OutcomesFine'
  <2>1. CASE is = "failed"
    <3>1. s3' = s3
      BY <2>1 DEF Located!Worked
    <3> QED
      BY <1>2, <3>1, StillFine DEF LocInv, OutcomesFine
  <2>2. CASE is # "failed"
    <3> DEFINE kept == Located!Kept(is, IF is = "coords" THEN pos ELSE 0)
    <3>1. kept \in Outcome /\ kept.is = is /\ kept.left = Keep /\ (is = "coords" => kept.pos = pos)
      BY <2>2, TimesAre DEF Outcome, Located!Kept
    <3>2. s3' = [s3 EXCEPT ![o.on][v] = kept]
      BY <1>1, <1>3, <2>2 DEF Located!Worked
    <3> HIDE DEF kept
    <3>3. OutcomeFine(v, kept)
      <4> SUFFICES ASSUME is = "coords"
                   PROVE  Recent(v, pos, Slow + (Keep - Keep))
        BY <3>1 DEF OutcomeFine
      <4>1. o.age \in Int /\ Slow + (Keep - Keep) \in Int /\ o.age <= Slow + (Keep - Keep)
        BY <1>5, TimesAre
      <4> QED
        BY <1>4, <4>1, StillRecent DEF LocInv
    <3>4. /\ s3' \in [Replicas -> [Fleet -> Outcome]]
          /\ \A q \in Replicas, w \in Fleet : s3'[q][w] = s3[q][w] \/ (w = v /\ s3'[q][w] = kept)
      BY <1>2, <3>1, <3>2 DEF LocInv, OutcomesFine
    <3>5. ASSUME NEW q \in Replicas, NEW w \in Fleet
          PROVE  OutcomeFine(w, s3[q][w])'
      <4>1. PICK x : x = s3'[q][w]
        OBVIOUS
      <4>2. OutcomeFine(w, x)
        BY <3>3, <3>4, <4>1 DEF LocInv, OutcomesFine
      <4>3. OutcomeFine(w, x)'
        BY <1>2, <4>2, StillFine
      <4> QED
        BY <4>1, <4>3
    <3> QED
      BY <3>4, <3>5 DEF OutcomesFine
  <2> QED
    BY <2>1, <2>2
<1>8. o.asked \in Locs /\ o.locs \in Locs
  BY DEF Reader
<1>9. PICK g \in Locs : g = [w \in {v} |-> pos] /\ DOMAIN g = {v} /\ g[v] = pos
  BY SingleIs
<1> DEFINE asked == Located!Without(o.asked, v)
           locs  == IF is = "coords" THEN Located!Merge(o.locs, g) ELSE o.locs
<1>18. /\ asked \in Locs /\ DOMAIN asked = DOMAIN o.asked \ {v}
       /\ \A w \in DOMAIN o.asked \ {v} : asked[w] = o.asked[w]
  BY <1>8, WithoutIs
<1>10. /\ locs \in Locs
       /\ \A w \in DOMAIN locs : \/ w \in DOMAIN o.locs /\ locs[w] = o.locs[w]
                                 \/ is = "coords" /\ w = v /\ locs[w] = pos
  <2>1. CASE is = "coords"
    <3> DEFINE both == Located!Merge(o.locs, g)
    <3>1. both \in Locs /\ DOMAIN both = DOMAIN o.locs \union {v} /\ both[v] = pos
          /\ \A w \in DOMAIN o.locs \ {v} : both[w] = o.locs[w]
      BY <1>8, <1>9, MergeIs
    <3>2. locs = both
      BY <2>1
    <3> HIDE DEF both, locs
    <3> QED
      BY <2>1, <3>1, <3>2
  <2> QED
    BY <1>8, <2>1
<1>11. PICK x \in Reader : x = [o EXCEPT !.todo = @ \ {v}, !.asked = asked, !.locs = locs]
  BY <1>10, <1>18 DEF Reader
<1>12. s4' = [s4 EXCEPT ![r] = x]
  <2>1. [w \in {v} |-> IF v \in DOMAIN s4[r].asked THEN s4[r].asked[v] ELSE 0] = g
    BY <1>1, <1>3, <1>9
  <2> DEFINE last == IF v \in DOMAIN s4[r].asked THEN s4[r].asked[v] ELSE 0
             with == [w \in {v} |-> last]
             New(z) == [z EXCEPT !.todo = @ \ {v}, !.asked = Located!Without(@, v),
                          !.locs = IF is = "coords" THEN Located!Merge(@, with) ELSE @]
  <2>2. s4' = [s4 EXCEPT ![r] = New(s4[r])]
    BY DEF Located!Worked
  <2>3. with = g
    BY <2>1
  <2> HIDE DEF with
  <2>4. New(o) = x
    BY <1>11, <2>3 DEF Reader
  <2> HIDE DEF New
  <2> QED
    BY <1>1, <2>2, <2>4
<1>13. x.at = o.at /\ x.on = o.on /\ x.age = o.age /\ x.locs = locs /\ x.force = o.force /\ x.asked = asked
  BY <1>11 DEF Reader
<1>14. is = "coords" => Recent(v, pos, Reach(o.force, o.age))
  <2>1. o.age \in Int /\ Reach(o.force, o.age) \in Int /\ o.age <= Reach(o.force, o.age)
    BY <1>5, TimesAre DEF Reach
  <2> QED
    BY <1>4, <2>1, StillRecent DEF LocInv
<1>15. ReaderFine(x)
  BY <1>1, <1>2, <1>10, <1>13, <1>14, <1>18 DEF ReaderFine, AllRecent
<1>16. ReadersFine'
  <2>1. s4' \in [Readers -> Reader] /\ \A q \in Readers : s4'[q] = s4[q] \/ s4'[q] = x
    BY <1>12 DEF LocInv, ReadersFine
  <2>2. ASSUME NEW q \in Readers
        PROVE  ReaderFine(s4[q])'
    <3>1. PICK y : y = s4'[q] /\ ReaderFine(y)
      BY <1>15, <2>1 DEF LocInv, ReadersFine
    <3>2. ReaderFine(y)'
      BY <1>2, <3>1, StillFine
    <3> QED
      BY <3>1, <3>2
  <2> QED
    BY <2>1, <2>2 DEF ReadersFine
<1>17. Clocks' /\ WritersFine'
  BY <1>2, StillFine DEF LocInv, WritersFine
<1> QED
  BY <1>7, <1>16, <1>17 DEF LocInv

LEMMA RepliesFine ==
  ASSUME LocInv, NEW r \in Readers, NEW w \in Writers, Located!Reply(r, w)
  PROVE  LocInv'
<1>1. PICK o \in Reader : o = s4[r] /\ ReaderFine(o)
  BY DEF LocInv, ReadersFine
<1>2. PICK d \in Writer : d = s5[w] /\ WriterFine(d)
  BY DEF LocInv, WritersFine
<1>3. o.at # "idle" /\ UNCHANGED <<s1, s2, s3>>
  BY <1>1 DEF Located!Reply
<1>4. PICK x \in Writer : x = [d EXCEPT !.locs = o.locs]
  BY DEF Reader, Writer
<1>5. x.locs = o.locs /\ x.age = d.age
  BY <1>4 DEF Writer
<1>6. s5' = [s5 EXCEPT ![w] = x] /\ s4' = [s4 EXCEPT ![r] = Located!NoReader]
  BY <1>1, <1>2, <1>4 DEF LocInv, WritersFine, Located!Reply
<1>7. /\ Reach(o.force, o.age) \in Int /\ Keep + 2 * Slow + d.age \in Int
      /\ Reach(o.force, o.age) <= Keep + 2 * Slow + d.age
  BY <1>1, <1>3, TimesAre DEF ReaderFine, Reach, Reader, Writer
<1>8. WriterFine(x)
  <2> SUFFICES ASSUME NEW v \in DOMAIN x.locs
               PROVE  Recent(v, x.locs[v], Keep + 2 * Slow + d.age)
    BY <1>2, <1>5 DEF WriterFine, AllRecent
  <2>1. v \in Fleet
    BY LocsAre DEF Writer
  <2>2. Recent(v, x.locs[v], Reach(o.force, o.age))
    BY <1>1, <1>3, <1>5 DEF ReaderFine, AllRecent
  <2> QED
    BY <1>7, <2>1, <2>2, StillRecent DEF LocInv
<1>9. ReaderFine(Located!NoReader)
  BY IdlesAre DEF ReaderFine
<1>10. ASSUME NEW q \in Readers
       PROVE  s4'[q] \in Reader /\ ReaderFine(s4[q])'
  <2>1. PICK y \in Reader : y = s4'[q] /\ ReaderFine(y)
    BY <1>6, <1>9, IdlesAre DEF LocInv, ReadersFine
  <2>2. ReaderFine(y)'
    BY <1>3, <2>1, StillFine
  <2> QED
    BY <2>1, <2>2
<1>11. ASSUME NEW q \in Writers
       PROVE  s5'[q] \in Writer /\ WriterFine(s5[q])'
  <2>1. PICK y \in Writer : y = s5'[q] /\ WriterFine(y)
    BY <1>6, <1>8 DEF LocInv, WritersFine
  <2>2. WriterFine(y)'
    BY <1>3, <2>1, StillFine
  <2> QED
    BY <2>1, <2>2
<1>12. s4' \in [Readers -> Reader] /\ s5' \in [Writers -> Writer]
  BY <1>6, IdlesAre DEF LocInv, ReadersFine, WritersFine
<1> QED
  BY <1>3, <1>10, <1>11, <1>12, StillFine DEF LocInv, OutcomesFine, ReadersFine, WritersFine

LEMMA WritesFine ==
  ASSUME LocInv, NEW w \in Writers, NEW v \in Fleet, Located!UpsertLastLocation(w, v)
  PROVE  LocInv'
<1>1. PICK d \in Writer : d = s5[w] /\ WriterFine(d)
  BY DEF LocInv, WritersFine
<1>2. v \in DOMAIN d.locs /\ UNCHANGED <<s1, s2, s3, s4>>
  BY <1>1 DEF Located!UpsertLastLocation
<1>3. d.locs \in Locs
  BY DEF Writer
<1> DEFINE locs == Located!Without(d.locs, v)
           age  == IF DOMAIN d.locs = {v} THEN 0 ELSE d.age
<1>4. /\ locs \in Locs /\ DOMAIN locs = DOMAIN d.locs \ {v}
      /\ \A q \in DOMAIN d.locs \ {v} : locs[q] = d.locs[q]
  BY <1>3, WithoutIs
<1>5. age \in Nat /\ (DOMAIN locs # {} => age = d.age) /\ age <= Late
  BY <1>1, <1>2, <1>4, TimesAre DEF Writer, WriterFine
<1>6. s5' = [s5 EXCEPT ![w] = [locs |-> locs, age |-> age]]
  BY <1>1 DEF LocInv, WritersFine, Located!UpsertLastLocation
<1> HIDE DEF locs, age
<1>7. PICK x \in Writer : x = [locs |-> locs, age |-> age]
  BY <1>4, <1>5 DEF Writer
<1>8. WriterFine(x)
  BY <1>1, <1>4, <1>5, <1>7 DEF WriterFine, AllRecent
<1>9. s5' \in [Writers -> Writer]
  BY <1>6, <1>7 DEF LocInv, WritersFine
<1>10. ASSUME NEW q \in Writers
       PROVE  WriterFine(s5[q])'
  <2>1. PICK y : y = s5'[q] /\ WriterFine(y)
    BY <1>6, <1>7, <1>8 DEF LocInv, WritersFine
  <2>2. WriterFine(y)'
    BY <1>2, <2>1, StillFine
  <2> QED
    BY <2>1, <2>2
<1> QED
  BY <1>2, <1>9, <1>10, StillFine DEF LocInv, OutcomesFine, ReadersFine, WritersFine

(* A report replaces the latest position now, and no earlier one.          *)
LEMMA ReportsFine ==
  ASSUME LocInv, NEW v \in Fleet, Located!Report(v)
  PROVE  LocInv'
<1>1. s1 \in [Fleet -> 0..MaxFixes] /\ s2 \in [Fleet -> [1..MaxFixes -> Nat]] /\ Clocks
  BY DEF LocInv, Clocks
<1>2. s1' = [s1 EXCEPT ![v] = s1[v] + 1] /\ s1[v] < MaxFixes /\ UNCHANGED <<s2, s3, s4, s5>>
  BY DEF Located!Report
<1>3. s1'[v] = s1[v] + 1 /\ s1' \in [Fleet -> 0..MaxFixes] /\ \A u \in Fleet \ {v} : s1'[u] = s1[u]
  BY <1>1, <1>2, TimesAre
<1>4. Clocks'
  BY <1>1, <1>2, <1>3, TimesAre DEF Clocks
<1>5. ASSUME NEW u \in Fleet, NEW pos, NEW n, Recent(u, pos, n)
      PROVE  Recent(u, pos, n)'
  <2>1. CASE u # v
    BY <1>2, <1>3, <1>5, <2>1 DEF Recent, Located!Since
  <2>2. CASE u = v
    <3>1. s1[v] \in 0..MaxFixes /\ pos \in 1..s1[v]
      BY <1>1, <1>5, <2>2 DEF Recent
    <3>2. pos \in 1..s1'[v] /\ pos # s1'[v] /\ pos \in 1..MaxFixes
      BY <1>3, <3>1, TimesAre
    <3>3. Located!Since(v, pos)' = s2[v][pos]
      BY <1>2, <3>2 DEF Located!Since
    <3>4. pos = s1[v] => s2[v][pos] = 0 /\ Located!Since(v, pos) = 0
      BY <1>1, <3>1, <3>2 DEF Clocks, Located!Since
    <3>5. pos # s1[v] => Located!Since(v, pos) = s2[v][pos]
      BY DEF Located!Since
    <3>6. Located!Since(v, pos)' = Located!Since(v, pos)
      BY <3>3, <3>4, <3>5
    <3> QED
      BY <1>5, <2>2, <3>2, <3>6 DEF Recent
  <2> QED
    BY <2>1, <2>2
<1>6. OutcomesFine'
  BY <1>2, <1>5 DEF LocInv, OutcomesFine, OutcomeFine
<1>7. ASSUME NEW r \in Readers
      PROVE  ReaderFine(s4[r])'
  <2>1. PICK o \in Reader : o = s4[r] /\ o = s4'[r] /\ ReaderFine(o)
    BY <1>2 DEF LocInv, ReadersFine
  <2>2. DOMAIN o.asked \subseteq Fleet /\ DOMAIN o.locs \subseteq Fleet
    BY LocsAre DEF Reader
  <2>3. ReaderFine(o)'
    BY <1>5, <2>1, <2>2 DEF ReaderFine, AllRecent
  <2> QED
    BY <2>1, <2>3
<1>8. ASSUME NEW w \in Writers
      PROVE  WriterFine(s5[w])'
  <2>1. PICK d \in Writer : d = s5[w] /\ d = s5'[w] /\ WriterFine(d)
    BY <1>2 DEF LocInv, WritersFine
  <2>2. DOMAIN d.locs \subseteq Fleet
    BY LocsAre DEF Writer
  <2>3. WriterFine(d)'
    BY <1>5, <2>1, <2>2 DEF WriterFine, AllRecent
  <2> QED
    BY <2>1, <2>3
<1> QED
  BY <1>2, <1>4, <1>6, <1>7, <1>8 DEF LocInv, ReadersFine, WritersFine

LEMMA TickFine ==
  ASSUME LocInv, Located!Tick
  PROVE  LocInv'
<1>1. s1 \in [Fleet -> 0..MaxFixes] /\ s2 \in [Fleet -> [1..MaxFixes -> Nat]] /\ Clocks /\ s1' = s1
  BY DEF LocInv, Clocks, Located!Tick
<1>2. \A n \in Nat : Located!Older(n) \in Nat /\ Located!Older(n) <= n + 1
  BY DEF Located!Older
<1>3. /\ s2' \in [Fleet -> [1..MaxFixes -> Nat]]
      /\ \A v \in Fleet, k \in 1..MaxFixes :
           s2'[v][k] = IF k < s1[v] THEN Located!Older(s2[v][k]) ELSE 0
  BY <1>1, <1>2 DEF Located!Tick
<1>4. Clocks'
  <2>1. \A v \in Fleet, k \in 1..MaxFixes : k >= s1[v] => ~(k < s1[v])
    BY <1>1, TimesAre
  <2> QED
    BY <1>1, <1>3, <2>1 DEF Clocks
<1>5. ASSUME NEW v \in Fleet, NEW pos, NEW n \in Int, Recent(v, pos, n)
      PROVE  Recent(v, pos, n + 1)'
  <2>1. pos \in 1..s1[v] /\ s1[v] \in 0..MaxFixes /\ pos \in 1..MaxFixes
    BY <1>1, <1>5, TimesAre DEF Recent
  <2>2. CASE pos = s1[v]
    <3>1. Located!Since(v, pos) = 0 /\ Located!Since(v, pos)' = 0
      BY <1>1, <2>2 DEF Located!Since
    <3> QED
      BY <1>1, <1>5, <2>1, <3>1 DEF Recent
  <2>3. CASE pos # s1[v]
    <3>1. Located!Since(v, pos) = s2[v][pos] /\ Located!Since(v, pos)' = s2'[v][pos]
      BY <1>1, <2>3 DEF Located!Since
    <3>2. pos < s1[v] /\ s2[v][pos] \in Nat /\ s2'[v][pos] \in Nat
      BY <1>1, <1>3, <2>1, <2>3, TimesAre
    <3>3. s2'[v][pos] <= s2[v][pos] + 1
      BY <1>2, <1>3, <2>1, <3>2
    <3> QED
      BY <1>1, <1>5, <2>1, <3>1, <3>2, <3>3 DEF Recent
  <2> QED
    BY <2>2, <2>3
<1>6. OutcomesFine'
  <2>1. ASSUME NEW p \in Replicas, NEW v \in Fleet
        PROVE  s3'[p][v] \in Outcome /\ OutcomeFine(v, s3[p][v])'
    <3>1. PICK o \in Outcome : o = s3[p][v] /\ OutcomeFine(v, o)
      BY DEF LocInv, OutcomesFine
    <3>2. s3'[p][v] = IF o.left <= 1 THEN Located!NoOutcome ELSE [o EXCEPT !.left = o.left - 1]
      BY <3>1 DEF Located!Tick
    <3>3. CASE o.left <= 1
      BY <3>2, <3>3, IdlesAre DEF OutcomeFine
    <3>4. CASE o.left > 1
      <4>1. o.left \in 0..Keep /\ o.left - 1 \in 0..Keep
        BY <3>4, TimesAre DEF Outcome
      <4>2. PICK x \in Outcome : x = [o EXCEPT !.left = o.left - 1]
        BY <4>1 DEF Outcome
      <4>3. x = s3'[p][v] /\ x.is = o.is /\ x.pos = o.pos /\ x.left = o.left - 1
        BY <3>2, <3>4, <4>1, <4>2 DEF Outcome
      <4>4. x.is = "coords" => Recent(v, o.pos, Slow + (Keep - o.left) + 1)'
        BY <1>5, <3>1, <4>1, <4>3, TimesAre DEF OutcomeFine
      <4>5. Slow + (Keep - o.left) + 1 = Slow + (Keep - x.left)
        BY <4>1, <4>3, TimesAre
      <4>6. OutcomeFine(v, x)'
        BY <4>3, <4>4, <4>5 DEF OutcomeFine
      <4> QED
        BY <4>3, <4>6
    <3> QED
      BY <3>3, <3>4, TimesAre DEF Outcome
  <2>2. s3' \in [Replicas -> [Fleet -> Outcome]]
    BY <2>1 DEF Located!Tick
  <2> QED
    BY <2>1, <2>2 DEF OutcomesFine
<1>7. ReadersFine'
  <2>1. ASSUME NEW r \in Readers
        PROVE  s4'[r] \in Reader /\ ReaderFine(s4[r])'
    <3>1. PICK o \in Reader : o = s4[r] /\ ReaderFine(o)
      BY DEF LocInv, ReadersFine
    <3>2. s4'[r] = IF o.at = "idle" THEN Located!NoReader ELSE [o EXCEPT !.age = o.age + 1]
      BY <3>1 DEF Located!Tick
    <3>3. CASE o.at = "idle"
      BY <3>2, <3>3, IdlesAre DEF ReaderFine
    <3>4. CASE o.at # "idle"
      <4>1. o.age \in Nat /\ o.age < Slow
        BY <3>1, <3>4 DEF Located!Tick, Reader
      <4>2. PICK x \in Reader : x = [o EXCEPT !.age = o.age + 1]
        <5>1. PICK n \in Nat : n = o.age + 1
          BY <4>1
        <5>2. [o EXCEPT !.age = n] \in Reader
          BY DEF Reader
        <5> QED
          BY <5>1, <5>2
      <4>3. /\ x = s4'[r] /\ x.at = o.at /\ x.on = o.on /\ x.force = o.force
            /\ x.asked = o.asked /\ x.locs = o.locs /\ x.age = o.age + 1
        BY <3>2, <3>4, <4>1, <4>2 DEF Reader
      <4>4. DOMAIN o.asked \subseteq Fleet /\ DOMAIN o.locs \subseteq Fleet
        BY LocsAre DEF Reader
      <4>5. Reach(x.force, x.age) = Reach(o.force, o.age) + 1 /\ Reach(o.force, o.age) \in Int
        BY <4>1, <4>3, TimesAre DEF Reach
      <4>6. AllRecent(x.locs, Reach(x.force, x.age))'
        <5> SUFFICES ASSUME NEW v \in DOMAIN o.locs
                     PROVE  Recent(v, o.locs[v], Reach(o.force, o.age) + 1)'
          BY <4>3, <4>5 DEF AllRecent
        <5> QED
          BY <1>5, <3>1, <3>4, <4>4, <4>5 DEF ReaderFine, AllRecent
      <4>7. \A v \in DOMAIN x.asked : x.asked[v] # 0 => Recent(v, x.asked[v], x.age)'
        BY <1>5, <3>1, <3>4, <4>1, <4>3, <4>4 DEF ReaderFine
      <4>8. ReaderFine(x)'
        BY <3>1, <3>4, <4>1, <4>3, <4>6, <4>7, TimesAre DEF ReaderFine
      <4> QED
        BY <4>3, <4>8
    <3> QED
      BY <3>3, <3>4
  <2>2. s4' \in [Readers -> Reader]
    BY <2>1 DEF Located!Tick
  <2> QED
    BY <2>1, <2>2 DEF ReadersFine
<1>8. WritersFine'
  <2>1. ASSUME NEW w \in Writers
        PROVE  s5'[w] \in Writer /\ WriterFine(s5[w])'
    <3>1. PICK d \in Writer : d = s5[w] /\ WriterFine(d)
      BY DEF LocInv, WritersFine
    <3>2. s5'[w] = IF DOMAIN d.locs = {} THEN Located!NoWriter ELSE [d EXCEPT !.age = d.age + 1]
      BY <3>1 DEF Located!Tick
    <3>3. CASE DOMAIN d.locs = {}
      BY <3>2, <3>3, IdlesAre, TimesAre DEF WriterFine, AllRecent
    <3>4. CASE DOMAIN d.locs # {}
      <4>1. d.age \in Nat /\ d.age < Late
        BY <3>1, <3>4 DEF Located!Tick, Located!InTime, Writer
      <4>2. PICK x \in Writer : x = [d EXCEPT !.age = d.age + 1]
        <5>1. PICK n \in Nat : n = d.age + 1
          BY <4>1
        <5>2. [d EXCEPT !.age = n] \in Writer
          BY DEF Writer
        <5> QED
          BY <5>1, <5>2
      <4>3. x = s5'[w] /\ x.locs = d.locs /\ x.age = d.age + 1
        BY <3>2, <3>4, <4>1, <4>2 DEF Writer
      <4>4. DOMAIN d.locs \subseteq Fleet
        BY LocsAre DEF Writer
      <4>5. Keep + 2 * Slow + x.age = Keep + 2 * Slow + d.age + 1 /\ Keep + 2 * Slow + d.age \in Int
        BY <4>1, <4>3, TimesAre
      <4>6. AllRecent(x.locs, Keep + 2 * Slow + x.age)'
        <5> SUFFICES ASSUME NEW v \in DOMAIN d.locs
                     PROVE  Recent(v, d.locs[v], Keep + 2 * Slow + d.age + 1)'
          BY <4>3, <4>5 DEF AllRecent
        <5> QED
          BY <1>5, <3>1, <4>4, <4>5 DEF WriterFine, AllRecent
      <4>7. WriterFine(x)'
        BY <4>1, <4>3, <4>6, TimesAre DEF WriterFine
      <4> QED
        BY <4>3, <4>7
    <3> QED
      BY <3>3, <3>4
  <2>2. s5' \in [Writers -> Writer]
    BY <2>1 DEF Located!Tick
  <2> QED
    BY <2>1, <2>2 DEF WritersFine
<1> QED
  BY <1>4, <1>6, <1>7, <1>8 DEF LocInv

LEMMA PositionsStart ==
  ASSUME Located!Init
  PROVE  LocInv
<1>1. Clocks
  BY TimesAre DEF Located!Init, Clocks
<1>2. OutcomesFine
  BY IdlesAre DEF Located!Init, OutcomesFine, OutcomeFine
<1>3. ReadersFine
  BY IdlesAre DEF Located!Init, ReadersFine, ReaderFine
<1>4. WritersFine
  BY IdlesAre, TimesAre DEF Located!Init, WritersFine, WriterFine, AllRecent
<1> QED
  BY <1>1, <1>2, <1>3, <1>4 DEF LocInv

LEMMA PositionsStep ==
  ASSUME LocInv, Located!Next \/ UNCHANGED Located!locVars
  PROVE  LocInv'
<1>1. CASE UNCHANGED Located!locVars
  <2>1. UNCHANGED <<s1, s2, s3, s4, s5>>
    BY <1>1 DEF Located!locVars
  <2> QED
    BY <2>1, StillFine DEF LocInv, OutcomesFine, ReadersFine, WritersFine
<1>2. CASE Located!Next
  BY <1>2, TickFine, ReportsFine, WritesFine, BeginsFine, JwtFine, RepliesFine, AskFine, WorkedFine
  DEF Located!Next
<1> QED
  BY <1>1, <1>2

LEMMA RowsStep ==
  ASSUME LocInv, s6 \in [Fleet -> 0..MaxFixes], Located!Next \/ UNCHANGED Located!locVars
  PROVE  s6' \in [Fleet -> 0..MaxFixes]
<1>1. CASE s6' = s6
  BY <1>1
<1>2. ASSUME NEW w \in Writers, NEW v \in Fleet, Located!UpsertLastLocation(w, v)
      PROVE  s6' \in [Fleet -> 0..MaxFixes]
  <2>1. s5[w].locs \in Locs
    BY DEF LocInv, WritersFine, Writer
  <2>2. s5[w].locs[v] \in 0..MaxFixes
    BY <1>2, <2>1, LocsAre DEF Located!UpsertLastLocation
  <2> QED
    BY <1>2, <2>2 DEF Located!UpsertLastLocation, Located!UpdateRow
<1> QED
  BY <1>1, <1>2 DEF Located!locVars, Located!Next, Located!Tick, Located!Report, Located!Begin,
     Located!GetDeveloperJWT, Located!Reply, Located!AskTelemetry, Located!Worked

PositionsInv == LocInv /\ s6 \in [Fleet -> 0..MaxFixes]

LEMMA AlwaysPositions == SubjectSpec => [](subject = "positions" => PositionsInv)
<1> DEFINE Inv == subject = "positions" => PositionsInv
<1>1. SubjectInit => Inv
  BY PositionsStart, TimesAre DEF SubjectInit, PositionsInv, Located!Init
<1>2. Inv /\ [SubjectNext]_allVars => Inv'
  <2> SUFFICES ASSUME Inv, [SubjectNext]_allVars, subject' = "positions"
               PROVE  PositionsInv'
    OBVIOUS
  <2>1. subject = "positions" /\ PositionsInv
    BY SubjectStays
  <2> QED
    BY <2>1, PositionSteps, PositionsStep, RowsStep DEF PositionsInv
<1> QED
  BY <1>1, <1>2, PTL DEF SubjectSpec

(* The positions a request answers with were the latest at some time since *)
(* it began, when it is forced, and otherwise within the life of a cached  *)
(* outcome and of the request that stored it, however requests, replicas   *)
(* and failures interleave (FleetLocations).                               *)
THEOREM RepliesShowRecent == SubjectSpec => []RepliesAreRecent
<1>1. (subject = "positions" => PositionsInv) => RepliesAreRecent
  <2> SUFFICES ASSUME PositionsInv, NEW r \in Readers, s4[r].at # "idle", NEW v \in DOMAIN s4[r].locs
               PROVE  Located!Since(v, s4[r].locs[v]) <= Reach(s4[r].force, s4[r].age)
    BY DEF RepliesAreRecent, Located!RepliesAreRecent, Reach
  <2> QED
    BY DEF PositionsInv, LocInv, ReadersFine, ReaderFine, AllRecent, Recent
<1> QED
  BY <1>1, AlwaysPositions, PTL

(* A detached write puts a row back no further than the cache, the two     *)
(* requests and the write's own timeout last, over all replicas and any    *)
(* order of the writes (UpsertLastLocations).                              *)
THEOREM RowsStayRecent == SubjectSpec => RowsAreRecent
<1>1. (subject = "positions" => PositionsInv) /\ [SubjectNext]_allVars
        => [subject = "positions" => Located!RowMove]_allVars
  <2> SUFFICES ASSUME PositionsInv, SubjectNext, subject = "positions", NEW v \in Fleet, s6'[v] # s6[v]
               PROVE  Located!Since(v, s6'[v]) <= Keep + 2 * Slow + Late
    BY DEF allVars, Located!RowMove
  <2>1. PICK w \in Writers, u \in Fleet : Located!UpsertLastLocation(w, u)
    BY PositionSteps DEF Located!locVars, Located!Next, Located!Tick, Located!Report, Located!Begin,
       Located!GetDeveloperJWT, Located!Reply, Located!AskTelemetry, Located!Worked
  <2>2. PICK d \in Writer : d = s5[w] /\ WriterFine(d)
    BY DEF PositionsInv, LocInv, WritersFine
  <2>3. v \in DOMAIN d.locs /\ s6'[v] = d.locs[v]
    BY <2>1, <2>2 DEF PositionsInv, Located!UpsertLastLocation, Located!UpdateRow
  <2>4. Recent(v, d.locs[v], Keep + 2 * Slow + d.age) /\ d.age \in Nat /\ d.age <= Late
    BY <2>2, <2>3 DEF WriterFine, AllRecent, Writer
  <2>5. Recent(v, d.locs[v], Keep + 2 * Slow + Late)
    BY <2>4, StillRecent, TimesAre DEF PositionsInv, LocInv
  <2> QED
    BY <2>3, <2>5 DEF Recent
<1> QED
  BY <1>1, AlwaysPositions, PTL DEF SubjectSpec, RowsAreRecent
=============================================================================
