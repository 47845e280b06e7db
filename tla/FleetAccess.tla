----------------------------- MODULE FleetAccess -----------------------------
(***************************************************************************)
(* Which vehicles a caller reaches, and what it is then told of them.  A   *)
(* behaviour chooses its subject at the start.  This module extends        *)
(* FleetScope; FleetList, which starts from a resolved set, GeofenceReads, *)
(* TenantDoors and VehicleReads are instances, whose variables are the     *)
(* places s1, s2, ... and mean something only under their subject.         *)
(***************************************************************************)
EXTENDS FleetScope, FiniteSets, Integers

CONSTANTS
  Cars, Divisions, MaxListTurns,                     \* FleetList
  Tokens, Zones, MaxScanVehicles, MaxScreenTurns,    \* GeofenceReads
  Wallets, Me, MaxDoorTurns,                         \* TenantDoors
  Panels, Asks, Limit, behaviorMaxDays,              \* VehicleReads
  LastDay, MaxReadTurns

(* Token ids are numbers, of which a tenant has finitely many.             *)
ASSUME CarsAssumption == Cars \subseteq Nat /\ IsFiniteSet(Cars) /\ MaxListTurns \in Nat
ASSUME TokensAssumption ==
  /\ Tokens \subseteq Nat /\ IsFiniteSet(Tokens) /\ Tokens # {}
  /\ MaxScanVehicles \in Nat /\ MaxScreenTurns \in Nat
ASSUME WalletsAssumption == IsFiniteSet(Wallets) /\ Me \in Wallets /\ MaxDoorTurns \in Nat

(* An answer of telemetry-api holds a segment at least, and there is a day *)
(* before the last one.                                                    *)
ASSUME DaysAssumption ==
  /\ Limit \in Nat \ {0} /\ LastDay \in Nat \ {0, 1} /\ MaxReadTurns \in Nat
  /\ behaviorMaxDays \in Nat \ {0}

VARIABLES subject, s1, s2, s3, s4, s5, s6, s7, s8

Nothing == "nothing"

Listing == INSTANCE FleetList WITH
  Tokens <- Cars, Groups <- Divisions, MaxTurns <- MaxListTurns,
  managed <- s1, rostered <- s2, tenancy <- s3, table <- s4,
  cached <- s5, request <- s6, since <- s7, turns <- s8

Screens == INSTANCE GeofenceReads WITH
  Groups <- Zones, MaxTurns <- MaxScreenTurns,
  world <- s1, request <- s2, since <- s3, turns <- s4

Doors == INSTANCE TenantDoors WITH
  MaxTurns <- MaxDoorTurns,
  managed <- s1, world <- s2, cached <- s3, request <- s4,
  since <- s5, meant <- s6, turns <- s7

Reads == INSTANCE VehicleReads WITH
  MaxTurns <- MaxReadTurns,
  world <- s1, held <- s2, panel <- s3, since <- s4, turns <- s5

places  == <<s1, s2, s3, s4, s5, s6, s7, s8>>
allVars == <<subject, vars, places>>

SubjectInit ==
  \/ /\ subject = "reach" /\ Init
     /\ s1 = Nothing /\ s2 = Nothing /\ s3 = Nothing /\ s4 = Nothing
     /\ s5 = Nothing /\ s6 = Nothing /\ s7 = Nothing /\ s8 = Nothing
  \/ /\ subject = "list" /\ Init /\ managed /\ Listing!Init
  \/ /\ subject = "screens" /\ Init /\ managed /\ Screens!Init
     /\ s5 = Nothing /\ s6 = Nothing /\ s7 = Nothing /\ s8 = Nothing
  \/ /\ subject = "doors" /\ Init /\ managed /\ Doors!Init /\ s8 = Nothing
  \/ /\ subject = "reads" /\ Init /\ managed /\ Reads!Init
     /\ s6 = Nothing /\ s7 = Nothing /\ s8 = Nothing

OfReach   == subject = "reach" /\ Next /\ UNCHANGED <<subject, places>>
OfList    == subject = "list" /\ Listing!Next /\ UNCHANGED <<subject, vars>>
OfScreens == subject = "screens" /\ Screens!Next /\ UNCHANGED <<subject, vars, s5, s6, s7, s8>>
OfDoors   == subject = "doors" /\ Doors!Next /\ UNCHANGED <<subject, vars, s8>>
OfReads   == subject = "reads" /\ Reads!Next /\ UNCHANGED <<subject, vars, s6, s7, s8>>

SubjectNext == OfReach \/ OfList \/ OfScreens \/ OfDoors \/ OfReads

SubjectSpec == SubjectInit /\ [][SubjectNext]_allVars

-----------------------------------------------------------------------------
(* Each part's values stay within the types its module states. *)
TypesOK ==
  CASE subject = "list"    -> Listing!TypeOK
    [] subject = "screens" -> Screens!TypeOK
    [] subject = "doors"   -> Doors!TypeOK
    [] subject = "reads"   -> Reads!TypeOK
    [] OTHER               -> TypeOK

(* A list has every vehicle of its set, and says nothing of one that was   *)
(* not so at some time since the request began (mergeRosterVehicles); a    *)
(* geofence screen shows a limited member only vehicles that were within   *)
(* reach and in the geofence, and leaves none out unless the reply admits  *)
(* it (restrictToAccessible and the reads around it); a door of the routes *)
(* without a fleet lets in direct members alone, what is listed there is   *)
(* what the tenant's store holds, and a login undoes no edit of its member *)
(* (requireMember, GetMembers, TouchLogin); what a page is told of one     *)
(* vehicle, "no permission" and "no trips" included, was so since it       *)
(* asked, and the trips agree with the day activity beside them            *)
(* (GetSegments, GetBehavior).                                             *)
RepliesHold ==
  /\ subject = "list" => Listing!ListIsComplete
  /\ subject = "screens" => Screens!ShownWithinReach
  /\ subject = "doors" =>
       Doors!DoorsHold /\ Doors!MembersAsStored /\ Doors!StampsUndoNothing
  /\ subject = "reads" => Reads!ReadsHold
=============================================================================
