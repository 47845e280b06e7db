---------------------------- MODULE VehicleData ----------------------------
(***************************************************************************)
(* What is kept about a vehicle, side by side: its registrations with      *)
(* plate and VIN, its receipts, its position, its row, a document's        *)
(* fields, and the reports on the fleet.  They share no state: a behaviour *)
(* chooses its subject at the start and is a behaviour of that part alone. *)
(* This module extends DocumentLedger, for registrations; the other parts  *)
(* are instances, whose variables are the places s1, s2, ..., which mean   *)
(* something only under their subject.                                     *)
(***************************************************************************)
EXTENDS DocumentLedger

CONSTANTS
  GloveboxSize, Summarised, MaxReceipts, MaxOthers, \* DocumentLedger, for receipts
  Replicas, Readers, Writers, Fleet,                \* Locations
  Keep, Slow, Late, MaxFixes,
  Runs, Tokens, MaxTruthChanges, MaxSyncFailures,   \* VehicleSync
  Vehicles, Items, Amount, Tariffs, Assets,         \* FleetReports
  MaxEdits,
  MaxDepth, WrapperKeys, Answers, Categories, Typed \* Extraction

(* Times are ticks. *)
ASSUME PositionsAssumption == {Keep, Slow, Late, MaxFixes} \subseteq Nat

(* Token ids count from one, which a cursor of 0 comes before.             *)
ASSUME TokenIdsAssumption == Tokens \subseteq Nat \ {0}

VARIABLES subject, s1, s2, s3, s4, s5, s6, s7

Empty == "empty"

Receipts == INSTANCE DocumentLedger WITH
  Papers <- {"receipt"}, GloveboxLimit <- GloveboxSize, CostLimit <- Summarised,
  MaxEvents <- MaxReceipts, MaxForeign <- MaxOthers,
  ledger <- s1, indexed <- s2, uploader <- s3, puller <- s4, plated <- s5, missed <- s6

Located == INSTANCE Locations WITH
  fix <- s1, old <- s2, outcome <- s3, reader <- s4, writer <- s5, stored <- s6

Sync == INSTANCE VehicleSync WITH
  managed <- s1, granted <- s2, row <- s3, run <- s4,
  past <- s5, turns <- s6, failures <- s7

Reporting == INSTANCE FleetReports WITH
  fleet <- s1, items <- s2, tariff <- s3, asset <- s4, report <- s5, since <- s6, edits <- s7

Fields == INSTANCE Extraction WITH
  upload <- s1, attested <- s2, row <- s3, line <- s4

-----------------------------------------------------------------------------
places  == <<s1, s2, s3, s4, s5, s6, s7>>
allVars == <<subject, docVars, places>>

SubjectInit ==
  \/ /\ subject = "registrations" /\ Init
     /\ s1 = Empty /\ s2 = Empty /\ s3 = Empty /\ s4 = Empty /\ s5 = Empty /\ s6 = Empty /\ s7 = Empty
  \/ /\ subject = "receipts" /\ Init /\ Receipts!Init
     /\ s7 = Empty
  \/ /\ subject = "positions" /\ Init /\ Located!Init
     /\ s7 = Empty
  \/ /\ subject = "sync" /\ Init /\ Sync!Init
  \/ /\ subject = "reports" /\ Init /\ Reporting!Init
  \/ /\ subject = "extraction" /\ Init /\ Fields!Init
     /\ s5 = Empty /\ s6 = Empty /\ s7 = Empty

OfRegistrations == subject = "registrations" /\ Next /\ UNCHANGED <<subject, places>>
OfReceipts      == subject = "receipts" /\ Receipts!Next /\ UNCHANGED <<subject, docVars, s7>>
OfPositions     == subject = "positions" /\ Located!Next /\ UNCHANGED <<subject, docVars, s7>>
OfSync          == subject = "sync" /\ Sync!Next /\ UNCHANGED <<subject, docVars>>
OfReports       == subject = "reports" /\ Reporting!Next /\ UNCHANGED <<subject, docVars>>
OfExtraction    == subject = "extraction" /\ Fields!Next /\ UNCHANGED <<subject, docVars, s5, s6, s7>>

SubjectNext ==
  \/ OfRegistrations \/ OfReceipts \/ OfPositions \/ OfSync \/ OfReports \/ OfExtraction

(* The nightly job and the button go on starting runs, which go on. *)
SyncFairness ==
  \A r \in Runs :
    /\ WF_places(subject = "sync" /\ Sync!RunSteps(r) /\ Sync!Witness(Sync!Running))
    /\ SF_places(subject = "sync" /\ Sync!Begin(r, "sync") /\ Sync!Witness(Sync!Running))

SubjectSpec == SubjectInit /\ [][SubjectNext]_allVars /\ SyncFairness

-----------------------------------------------------------------------------
(* Every part's values stay within the types its module states. *)
TypesOK ==
  CASE subject = "receipts"      -> Receipts!TypeOK
    [] subject = "positions"     -> Located!TypeOK
    [] subject = "sync"          -> Sync!TypeOK
    [] subject = "reports"       -> Reporting!TypeOK
    [] subject = "extraction"    -> Fields!TypeOK
    [] OTHER                      -> TypeOK

(* The other subjects have an empty shelf. *)
Glovebox == INSTANCE Shelf WITH
  Documents <- 1..MaxReceipts,
  shown <- IF subject = "receipts" THEN Receipts!ListDocuments ELSE {},
  left  <- IF subject = "receipts" THEN Receipts!Gone ELSE {}

(* The glovebox is a shelf: what left it never comes back, and what leaves *)
(* unasked is older than what stays (ListDocuments).                       *)
GloveboxIsAShelf == Glovebox!Spec

(* Cost report and glovebox, which read one ledger separately, agree on    *)
(* which receipts there are (VehicleSummary, ListDocuments); a report's    *)
(* totals are the sums of what it lists, at settings that were current     *)
(* while it was built (FleetSummary, BuildCSV); and what they and the sync *)
(* read out of a document is what its uploader was shown or typed          *)
(* (findFieldInDoc, extractAmount).                                        *)
ReportsAddUp ==
  /\ subject = "receipts" => Receipts!CostsOfListed
  /\ subject = "reports" => Reporting!ReportsAddUp
  /\ subject = "extraction" => Fields!ReadAlike

(* A reply's positions were the latest within the life of a cached         *)
(* outcome, or, when forced, since the request began (FleetLocations).     *)
RepliesAreRecent == subject = "positions" => Located!RepliesAreRecent

(* A detached write takes a row back no further than the cache, the        *)
(* requests and the write itself last (UpsertLastLocations).               *)
RowsAreRecent == [][subject = "positions" => Located!RowMove]_allVars

(* A vehicle's row and what only this application knows of it is lost only *)
(* by a run that could see the vehicle revoked (vehicle.go, both commands). *)
OnlyRevokedLose == [][subject = "sync" => Sync!Losses]_allVars

(* Overlapped or cut short, the sync brings the table in step with what is *)
(* shared, and an operator-managed one with what is entitled.              *)
SyncConverges == <>[](subject = "sync" => Sync!InStep)
=============================================================================
