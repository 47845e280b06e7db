-------------------------- MODULE DocumentLedger --------------------------
(***************************************************************************)
(* The documents of one vehicle: cloud events in an append-only ledger     *)
(* (attest_service.go), read back through an index that lags behind it     *)
(* (fetch_api.go), as a glovebox (documents.go), as costs (tco_service.go) *)
(* and as the plate and VIN of the vehicle's row (license_plate_sync.go).  *)
(*                                                                         *)
(* An event's number is its place in the ledger and stands for its id and  *)
(* its time.  A document carries a value or lacks it: a plate and a VIN on *)
(* a registration, an amount on a receipt; the document's number stands    *)
(* for the value.                                                          *)
(***************************************************************************)
EXTENDS Naturals, FiniteSets, Sequences

CONSTANTS
  Papers,       \* types of documents in use, of "registration" and "receipt"
  Uploaders,    \* requests that attest, delete or backfill
  Pullers,      \* detached goroutines that pull plate and VIN after an upload
  GloveboxLimit, CostLimit, PlateLimit,   \* events each reader asks for
  MaxEvents,    \* bound: events of the ledger
  MaxForeign    \* bound: those of other licenses

ASSUME PapersAssumption == Papers \subseteq {"registration", "receipt"}
ASSUME LimitsAssumption == {GloveboxLimit, CostLimit, PlateLimit, MaxEvents, MaxForeign} \subseteq Nat

VARIABLES
  ledger,     \* the parsed events, in order
  indexed,    \* those the index holds
  uploader,   \* the requests
  puller,     \* the goroutines: what they have read of the row and the ledger
  plated,     \* the row: the documents its plate and its VIN come from
  missed      \* history: the row may be behind, as no goroutine will catch up

docVars == <<ledger, indexed, uploader, puller, plated, missed>>

Events   == DOMAIN ledger
VinVC    == MaxEvents + 1     \* the VIN of the DIMO VIN credential
Idle     == [at |-> "idle", event |-> [type |-> "none"]]
IdlePull == [at |-> "idle", row |-> [plate |-> 0, vin |-> 0], plate |-> 0, vin |-> 0, doc |-> 0]

GreatestOf(set) == IF set = {} THEN 0 ELSE CHOOSE e \in set : \A f \in set : f <= e

-----------------------------------------------------------------------------
(* fetch-api drops an event that a tombstone of the same source voids; of  *)
(* what is left, a reader gets the newest of the types it names.           *)
Suppressed(e) == \E t \in indexed : /\ ledger[t].type = "tombstone"
                                    /\ e \in ledger[t].voids
                                    /\ ledger[t].ours = ledger[e].ours

(* Mutant: a reader gets the oldest. *)
ListOldest(types, limit) ==
  LET all == { e \in indexed : ledger[e].type \in types /\ ~Suppressed(e) }
  IN  { e \in all : Cardinality({ f \in all : f < e }) < limit }

ListByDIDAndTypes(types, limit) ==
  LET all == { e \in indexed : ledger[e].type \in types /\ ~Suppressed(e) }
  IN  { e \in all : Cardinality({ f \in all : f > e }) < limit }

TombstonedIDs(entries) ==
  UNION { ledger[t].voids : t \in { e \in entries : ledger[e].type = "tombstone" } }

GloveboxCETypes == Papers \union {"tombstone"}

(* Mutant: the costs leave tombstones to fetch-api. *)
TCOWithoutTombstones == {"receipt", "cost-amendment"}

TCOCETypes == {"receipt", "cost-amendment", "tombstone"}

(* What the glovebox shows. *)
ListDocuments ==
  LET entries == ListByDIDAndTypes(GloveboxCETypes, GloveboxLimit)
  IN  { e \in entries : ledger[e].type # "tombstone" /\ e \notin TombstonedIDs(entries) }

(* The receipts that count, and with what; one amendment stands for all. *)
CostAmendments(entries) ==
  [d \in { ledger[a].of : a \in { e \in entries \ TombstonedIDs(entries) :
                                  ledger[e].type = "cost-amendment" } } |-> TRUE]

VehicleSummary ==
  LET entries == ListByDIDAndTypes(TCOCETypes, CostLimit)
      counted == { e \in entries \ TombstonedIDs(entries) : ledger[e].type = "receipt" }
      priced  == { e \in counted : ledger[e].carries \/ e \in DOMAIN CostAmendments(entries) }
  IN  [lines |-> priced, missing |-> counted \ priced]

(* Mutant: errors beside the data are not looked at, which is then empty. *)
DataAlone(list) == { [ok |-> TRUE, list |-> list], [ok |-> TRUE, list |-> {}] }

(* What a read comes to: one that fails, or whose answer has errors, is no *)
(* empty list.                                                             *)
decodeFetchResponse(list) == { [ok |-> TRUE, list |-> list], [ok |-> FALSE, list |-> {}] }

-----------------------------------------------------------------------------
(* AttestDocument, DeleteDocument and BackfillAmount, up to their submits. *)
ParsedEvent(paper, carries) == [type |-> paper, carries |-> carries, ours |-> TRUE]
CostAmendment(d)            == [type |-> "cost-amendment", of |-> d, ours |-> TRUE]

Attest(u, paper, carries) ==
  /\ uploader[u].at = "idle"
  /\ uploader' = [uploader EXCEPT ![u] = [at |-> "raw", event |-> ParsedEvent(paper, carries)]]
  /\ UNCHANGED <<ledger, indexed, puller, plated, missed>>

(* Only the owner; the event is looked up by its id, and is 404 unless the *)
(* index answers with it.                                                  *)
Delete(u, e) ==
  /\ uploader[u].at = "idle"
  /\ e \in indexed /\ ~Suppressed(e)
  /\ uploader' = [uploader EXCEPT ![u] = [at |-> "parsed",
       event |-> [type |-> "tombstone", voids |-> {e}, ours |-> TRUE]]]
  /\ UNCHANGED <<ledger, indexed, puller, plated, missed>>

(* The document named is not looked up. *)
BackfillAmount(u, d) ==
  /\ uploader[u].at = "idle"
  /\ uploader' = [uploader EXCEPT ![u] = [at |-> "parsed", event |-> CostAmendment(d)]]
  /\ UNCHANGED <<ledger, indexed, puller, plated, missed>>

(* The raw half of a pair goes first: if it fails there is no parsed half. *)
SubmitRaw(u) ==
  /\ uploader[u].at = "raw"
  /\ uploader' \in { [uploader EXCEPT ![u].at = "parsed"], [uploader EXCEPT ![u] = Idle] }
  /\ UNCHANGED <<ledger, indexed, puller, plated, missed>>

(* A registration leaves a goroutine behind, which a restart may kill. *)
SubmitParsed(u) ==
  LET event == uploader[u].event
  IN  /\ uploader[u].at = "parsed" /\ Len(ledger) < MaxEvents
      /\ ledger' = Append(ledger, event)
      /\ uploader' = [uploader EXCEPT ![u] = Idle]
      /\ IF event.type = "registration"
         THEN \/ \E p \in Pullers :
                   /\ puller[p].at = "idle"
                   /\ puller' = [puller EXCEPT ![p] = [IdlePull EXCEPT
                        !.at = "asleep", !.doc = Len(ledger) + 1]]
                   /\ UNCHANGED missed
              \/ puller' = puller /\ missed' = TRUE
         ELSE UNCHANGED <<puller, missed>>
      /\ UNCHANGED <<indexed, plated>>

(* 502: nothing arrived, or only the answer was lost. *)
SubmitFails(u) ==
  LET event == uploader[u].event
  IN  /\ uploader[u].at = "parsed"
      /\ uploader' = [uploader EXCEPT ![u] = Idle]
      /\ \/ UNCHANGED <<ledger, missed>>
         \/ /\ Len(ledger) < MaxEvents
            /\ ledger' = Append(ledger, event)
            /\ missed' = (missed \/ event.type = "registration")
      /\ UNCHANGED <<indexed, puller, plated>>

(* External: the index catches up in any order; other licenses attest.  No *)
(* goroutine follows what they attest, nor what disappears.                *)
IndexEvent(e) ==
  /\ e \in Events \ indexed
  /\ indexed' = indexed \union {e}
  /\ missed' = (missed \/ ledger[e].type = "tombstone")
  /\ UNCHANGED <<ledger, uploader, puller, plated>>

ThirdParty(paper) ==
  /\ Len(ledger) < MaxEvents /\ Cardinality({ e \in Events : ~ledger[e].ours }) < MaxForeign
  /\ ledger' = Append(ledger, [type |-> paper, carries |-> TRUE, ours |-> FALSE])
  /\ missed' = TRUE
  /\ UNCHANGED <<indexed, uploader, puller, plated>>

-----------------------------------------------------------------------------
(* Mutant: the first registration that carries the field. *)
EarliestField(entries) ==
  LET with == { e \in entries : ledger[e].carries }
  IN  IF with = {} THEN 0 ELSE CHOOSE e \in with : \A f \in with : e <= f

(* The most recent registration that carries the field; 0: none does. *)
LatestRegistrationField(entries) == GreatestOf({ e \in entries : ledger[e].carries })

(* Ten seconds after the upload the row is read. *)
VehicleRow == plated

LoadVehicle(p) ==
  /\ puller[p].at = "asleep"
  /\ puller' = [puller EXCEPT ![p].at = "list", ![p].row = VehicleRow]
  /\ UNCHANGED <<ledger, indexed, uploader, plated, missed>>

(* Registrations only, so no tombstones.  What none carries stays as it    *)
(* is; a VIN still unknown is asked of the VIN credential.  A goroutine    *)
(* that comes before the index has its document has nobody to follow it.   *)
ListRegistrations(p) ==
  /\ puller[p].at = "list"
  /\ \E read \in decodeFetchResponse(ListByDIDAndTypes({"registration"}, PlateLimit)) :
      LET field == LatestRegistrationField(read.list)
      IN  /\ read.ok
          /\ puller' = [puller EXCEPT
               ![p].at = IF field = 0 /\ puller[p].row.vin = 0 THEN "vc" ELSE "write",
               ![p].plate = field, ![p].vin = field]
  /\ missed' = (missed \/ puller[p].doc \notin indexed)
  /\ UNCHANGED <<ledger, indexed, uploader, plated>>

(* No permission, no credential, a blank one or an error: unknown. *)
VINFromVC == {0, VinVC}

AskVIN(p) ==
  /\ puller[p].at = "vc"
  /\ \E vin \in VINFromVC :
       puller' = [puller EXCEPT ![p].at = "write", ![p].vin = vin]
  /\ UNCHANGED <<ledger, indexed, uploader, plated, missed>>

(* Only columns that differ from the row it read, whatever it holds now. *)
Changed(old, new, now) == IF new # 0 /\ new # old THEN new ELSE now

SyncVehicle(p) ==
  LET pull == puller[p]
  IN  /\ pull.at = "write"
      /\ plated' = [plate |-> Changed(pull.row.plate, pull.plate, plated.plate),
                    vin   |-> Changed(pull.row.vin, pull.vin, plated.vin)]
      /\ puller' = [puller EXCEPT ![p] = IdlePull]
      /\ missed' = (missed \/ \E q \in Pullers \ {p} : puller[q].at \in {"list", "vc", "write"})
      /\ UNCHANGED <<ledger, indexed, uploader>>

(* The database or fetch-api fails, or the process is restarted. *)
PullDies(p) ==
  /\ puller[p].at # "idle"
  /\ puller' = [puller EXCEPT ![p] = IdlePull]
  /\ missed' = TRUE
  /\ UNCHANGED <<ledger, indexed, uploader, plated>>

-----------------------------------------------------------------------------
Init ==
  /\ ledger = <<>> /\ indexed = {}
  /\ uploader = [u \in Uploaders |-> Idle]
  /\ puller = [p \in Pullers |-> IdlePull]
  /\ plated = [plate |-> 0, vin |-> 0]
  /\ missed = FALSE

Next ==
  \/ \E u \in Uploaders :
       \/ \E paper \in Papers, carries \in BOOLEAN : Attest(u, paper, carries)
       \/ \E e \in indexed : ledger[e].type # "tombstone" /\ Delete(u, e)
       \/ \E d \in { e \in indexed : ledger[e].type = "receipt" } : BackfillAmount(u, d)
       \/ SubmitRaw(u) \/ SubmitParsed(u) \/ SubmitFails(u)
  \/ \E e \in Events : IndexEvent(e)
  \/ \E paper \in Papers : ThirdParty(paper)
  \/ \E p \in Pullers :
       LoadVehicle(p) \/ ListRegistrations(p) \/ AskVIN(p) \/ SyncVehicle(p) \/ PullDies(p)

Spec == Init /\ [][Next]_docVars

-----------------------------------------------------------------------------
TypeOK ==
  /\ indexed \subseteq Events /\ Len(ledger) <= MaxEvents
  /\ \A e \in Events : ledger[e].type \in Papers \union {"tombstone", "cost-amendment"}
  /\ plated \in [plate : 0..MaxEvents, vin : 0..VinVC]
  /\ missed \in BOOLEAN

(* The documents no reader is shown any more. *)
Gone == { e \in indexed : ledger[e].type \in Papers } \ ListDocuments

(* What the glovebox lists behaves like a shelf: a document appears when   *)
(* the index gets it, leaves when its owner deletes it or newer events     *)
(* crowd it out, and neither a deletion that frees its place nor a late    *)
(* index entry ever brings one back (ListDocuments, TombstonedIDs).        *)
Shelved == INSTANCE Shelf WITH Documents <- 1..MaxEvents, shown <- ListDocuments, left <- Gone

ShelfIsKept == Shelved!Spec

(* Two reads of one ledger agree: as long as no limit cuts them short, the *)
(* receipts the cost report counts or misses are those the glovebox lists, *)
(* also when the owner deleted a document of another license, which        *)
(* fetch-api goes on answering with (VehicleSummary, ListDocuments).       *)
CostsOfListed ==
  Cardinality(indexed) <= GloveboxLimit =>
    VehicleSummary.lines \union VehicleSummary.missing
      = { d \in ListDocuments : ledger[d].type = "receipt" }

(* Uploads bring the row up to date: when every goroutine has come after   *)
(* its document was indexed, none died and no two overlapped, and nobody   *)
(* else changed the ledger, plate and VIN are those of the newest          *)
(* registration that carries them (SyncVehicle, AttestDocument).           *)
PlateFollows ==
  LET listed == ListByDIDAndTypes({"registration"}, PlateLimit)
      newest == GreatestOf({ e \in listed : ledger[e].carries })
  IN  ~missed /\ newest # 0 /\ (\A p \in Pullers : puller[p].at = "idle")
        => plated = [plate |-> newest, vin |-> newest]
=============================================================================
