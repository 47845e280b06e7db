----------------------------- MODULE TenantWork -----------------------------
(***************************************************************************)
(* Parts of the application that share no state with one another, side by  *)
(* side: a tenant's license, tokens, secrets, geofences, shares,           *)
(* invitations and preferences, the commands that compare it with the      *)
(* tenancy service, and the scan-interval arithmetic.  A behaviour chooses *)
(* its subject at the start and is a behaviour of that part alone.  This   *)
(* module extends TenantStore; the other parts are instances, whose        *)
(* variables are the places s1, s2, ..., which mean something only under   *)
(* their subject.                                                          *)
(***************************************************************************)
EXTENDS TenantStore

CONSTANTS
  Callers, Clients, Life, Margin, Fallback,                       \* Minter
  Owners, MaxKeys,                                                \* SecretRotation
  Operators, Slugs, Names, Edits, Goroutines, MaxEdits,           \* GeofenceCatalog
  Writers, MaxInputs,                                             \* GeofenceInput
  Grid, Probes, Corners, MaxSamples,                              \* GeofenceShapes
  Dialogs, PollAttempts, ErrorsTolerated, MaxJobs,                \* Sharing
  Calls, AnswerLife, CallTime, MaxLinks,                          \* Invitations
  Browsers, Keys, MaxChoices, MaxSignIns,                         \* Preferences
  Fleets, Pages, Loads, MaxLoads, MaxTurns,                       \* FleetCache
  Tenants, Accounts, Groups, Cars, MaxDrifts,                     \* Reconciliation
  MaxInstant, MaxRows                                             \* ScanIntervals

(* Lives and margins are ticks. *)
ASSUME TokensAssumption == Life \in Nat /\ Margin \in Nat /\ Fallback \in Nat \ {0}

(* A poller reads at least once and tolerates some errors. *)
ASSUME PollingAssumption ==
  PollAttempts \in Nat \ {0} /\ ErrorsTolerated \in Nat \ {0} /\ MaxJobs \in Nat

(* A tenant has groups, none of them called as what is not there. *)
ASSUME GroupsAssumption == Groups # {} /\ Groups \intersect {"blank", "absent"} = {} /\ MaxInputs \in Nat

(* So are the life of a cached answer and the time of a call.  Keys of     *)
(* encryption are counted.                                                 *)
ASSUME AnswersAssumption == AnswerLife \in Nat /\ CallTime \in Nat
ASSUME KeysAssumption == MaxKeys \in Nat

(* The tenant of no geofence is called "none".                             *)
ASSUME OperatorsAssumption == "none" \notin Operators

VARIABLES subject, s1, s2, s3, s4, s5, s6, s7, s8, s9, s10, s11

Empty == "empty"

Minting == INSTANCE Minter WITH
  own <- s1, services <- s2, tokens <- s3, vehicle <- s4, caller <- s5

Rotating == INSTANCE SecretRotation WITH
  secret <- s1, entered <- s2, editor <- s3, rotation <- s4, overlapped <- s5

Fencing == INSTANCE GeofenceCatalog WITH
  Publishers <- Goroutines,
  fences <- s1, assigned <- s2, edit <- s3, publisher <- s4,
  published <- s5, astray <- s6, refusal <- s7, edits <- s8

Shares == INSTANCE Sharing WITH
  Pages <- Dialogs,
  jobs <- s1, shared <- s2, page <- s3

Inviting == INSTANCE Invitations WITH
  invite <- s1, rights <- s2, heard <- s3, call <- s4, turn <- s5, late <- s6

Preferring == INSTANCE Preferences WITH
  local <- s1, stored <- s2, session <- s3, puts <- s4, chosen <- s5,
  fresh <- s6, astray <- s7, made <- s8, begun <- s9

Comparing == INSTANCE Reconciliation WITH
  MaxChanges <- MaxDrifts, Wallets <- Accounts,
  licensed <- s1, trusted <- s2, row <- s3, answer <- s4,
  fleet <- s5, cmd <- s6, steady <- s7, changes <- s8

Entering == INSTANCE GeofenceInput WITH
  MaxWrites <- MaxInputs, IndexLife <- AnswerLife,
  row <- s1, known <- s2, index <- s3, writer <- s4, reply <- s5, there <- s6, away <- s7,
  knownThen <- s8, overlapped <- s9, writes <- s10

Shapes == INSTANCE GeofenceShapes WITH
  geometry <- s1, samples <- s2

Listed == INSTANCE FleetCache WITH
  MaxChanges <- MaxTurns,
  world <- s1, address <- s2, memory <- s3, disk <- s4, noted <- s5,
  page <- s6, load <- s7, asked <- s8, past <- s9, begun <- s10, turns <- s11

Arithmetic == INSTANCE ScanIntervals WITH
  rows <- s1

-----------------------------------------------------------------------------
places  == <<s1, s2, s3, s4, s5, s6, s7, s8, s9, s10, s11>>
allVars == <<subject, tenantVars, places>>

Beyond == s10 = Empty /\ s11 = Empty

SubjectInit ==
  \/ /\ subject = "tenants" /\ Init
     /\ s1 = Empty /\ s2 = Empty /\ s3 = Empty /\ s4 = Empty /\ s5 = Empty
     /\ s6 = Empty /\ s7 = Empty /\ s8 = Empty /\ s9 = Empty /\ Beyond
  \/ /\ subject = "tokens" /\ Init /\ ~remote.is /\ Minting!Init
     /\ s6 = Empty /\ s7 = Empty /\ s8 = Empty /\ s9 = Empty /\ Beyond
  \/ /\ subject = "secrets" /\ Init /\ ~remote.is /\ Rotating!Init
     /\ s6 = Empty /\ s7 = Empty /\ s8 = Empty /\ s9 = Empty /\ Beyond
  \/ /\ subject = "geofences" /\ Init /\ ~remote.is /\ Fencing!Init
     /\ s9 = Empty /\ Beyond
  \/ /\ subject = "shares" /\ Init /\ ~remote.is /\ Shares!Init
     /\ s4 = Empty /\ s5 = Empty /\ s6 = Empty /\ s7 = Empty /\ s8 = Empty /\ s9 = Empty /\ Beyond
  \/ /\ subject = "invitations" /\ Init /\ ~remote.is /\ Inviting!Init
     /\ s7 = Empty /\ s8 = Empty /\ s9 = Empty /\ Beyond
  \/ /\ subject = "preferences" /\ Init /\ ~remote.is /\ Preferring!Init /\ Beyond
  \/ /\ subject = "comparisons" /\ Init /\ ~remote.is /\ Comparing!Init
     /\ s9 = Empty /\ Beyond
  \/ /\ subject = "inputs" /\ Init /\ ~remote.is /\ Entering!Init
     /\ s11 = Empty
  \/ /\ subject = "shapes" /\ Init /\ ~remote.is /\ Shapes!Init
     /\ s3 = Empty /\ s4 = Empty /\ s5 = Empty
     /\ s6 = Empty /\ s7 = Empty /\ s8 = Empty /\ s9 = Empty /\ Beyond
  \/ /\ subject = "lists" /\ Init /\ ~remote.is /\ Listed!Init
  \/ /\ subject = "intervals" /\ Init /\ ~remote.is /\ Arithmetic!Init
     /\ s2 = Empty /\ s3 = Empty /\ s4 = Empty /\ s5 = Empty
     /\ s6 = Empty /\ s7 = Empty /\ s8 = Empty /\ s9 = Empty /\ Beyond

OfTenants     == subject = "tenants" /\ Next /\ UNCHANGED <<subject, places>>
OfTokens      == subject = "tokens" /\ Minting!Next /\ UNCHANGED <<subject, tenantVars, s6, s7, s8, s9, s10, s11>>
OfSecrets     == subject = "secrets" /\ Rotating!Next /\ UNCHANGED <<subject, tenantVars, s6, s7, s8, s9, s10, s11>>
OfGeofences   == subject = "geofences" /\ Fencing!Next /\ UNCHANGED <<subject, tenantVars, s9, s10, s11>>
OfShares      == /\ subject = "shares" /\ Shares!Next
                 /\ UNCHANGED <<subject, tenantVars, s4, s5, s6, s7, s8, s9, s10, s11>>
OfInvitations == subject = "invitations" /\ Inviting!Next /\ UNCHANGED <<subject, tenantVars, s7, s8, s9, s10, s11>>
OfPreferences == subject = "preferences" /\ Preferring!Next /\ UNCHANGED <<subject, tenantVars, s10, s11>>
OfComparisons == subject = "comparisons" /\ Comparing!Next /\ UNCHANGED <<subject, tenantVars, s9, s10, s11>>
OfInputs      == subject = "inputs" /\ Entering!Next /\ UNCHANGED <<subject, tenantVars, s11>>
OfShapes      == /\ subject = "shapes" /\ Shapes!Next
                 /\ UNCHANGED <<subject, tenantVars, s3, s4, s5, s6, s7, s8, s9, s10, s11>>
OfIntervals   == /\ subject = "intervals" /\ Arithmetic!Next
                 /\ UNCHANGED <<subject, tenantVars, s2, s3, s4, s5, s6, s7, s8, s9, s10, s11>>
OfLists       == subject = "lists" /\ Listed!Next /\ UNCHANGED <<subject, tenantVars>>

SubjectNext ==
  \/ OfTenants \/ OfTokens \/ OfSecrets \/ OfGeofences
  \/ OfShares \/ OfInvitations \/ OfPreferences \/ OfComparisons
  \/ OfInputs \/ OfShapes \/ OfLists \/ OfIntervals

SubjectSpec == SubjectInit /\ [][SubjectNext]_allVars

-----------------------------------------------------------------------------
(* Every part's values stay within the types its module states. *)
TypesOK ==
  CASE subject = "tokens"        -> Minting!TypeOK
    [] subject = "secrets"       -> Rotating!TypeOK
    [] subject = "geofences"     -> Fencing!TypeOK
    [] subject = "shares"        -> Shares!TypeOK
    [] subject = "invitations"   -> Inviting!TypeOK
    [] subject = "preferences"   -> Preferring!TypeOK
    [] subject = "comparisons"   -> Comparing!TypeOK
    [] subject = "inputs"        -> Entering!TypeOK
    [] subject = "shapes"        -> Shapes!TypeOK
    [] subject = "lists"         -> Listed!TypeOK
    [] OTHER                      -> TypeOK

(* No token is served after it expired, unless the tenancy service gave it *)
(* with no more than the margin left (cacheTTLFromJWT).                    *)
TokensAreAlive == subject = "tokens" => Minting!TokensAreAlive

(* The re-encryption writes all rows of its scope or none, and no row      *)
(* loses the key entered last, unless an update overlapped; a comparison   *)
(* that exits with success is right about all that did not change while it *)
(* ran (Execute of secret_reencrypt.go, tenancy_check.go, tenancy_diff.go  *)
(* and vehicles_diff.go).                                                  *)
CommandsHold ==
  /\ subject = "secrets" => Rotating!RotationIsSafe
  /\ subject = "comparisons" => Comparing!SuccessHolds

(* What is attested of geofences and of their vehicles is what the tables  *)
(* say, when requests and goroutines are done (republishCatalog); and the  *)
(* row itself has groups just if its scope says so, and they were lately   *)
(* the tenant's (normalizeGroups, groupIndex).                            *)
PublishedIsCurrent ==
  /\ subject = "geofences" => Fencing!PublishedIsCurrent
  /\ subject = "inputs" => Entering!ScopeHasItsGroups

(* A page never calls a job failed that may still land, nor done one that  *)
(* has not (waitForJob).                                                   *)
VerdictsStand == subject = "shares" => Shares!VerdictsStand

(* Joining and losing the right to invite take effect within the life of a *)
(* cached answer and a call (Authz, requireManageMembers).                 *)
AccessFollowsMembership == subject = "invitations" => Inviting!AccessFollowsMembership

(* A choice of preference that nothing overlapped is not undone by another *)
(* browser's older one (hydrateFromServer, pushToServer); and the list of  *)
(* vehicles a browser keeps is of the right fleet, with the favourites it  *)
(* set and of the enforcement it heard of (invalidate and                  *)
(* noteMembershipsEnforced of fleet-cache.ts).                             *)
LatestChoiceShows ==
  /\ subject = "preferences" => Preferring!LatestChoiceShows
  /\ subject = "lists" => Listed!OwnFleetShows /\ Listed!KeptIsCurrent

(* coalesce returns the canonical form of the scanned time, which readers  *)
(* and writers of the coverage tables depend on, and computeGaps the       *)
(* unscanned stretches of a window, all of them and nothing else; the      *)
(* polygons that are stored can be used, hold every sample once between    *)
(* neighbours, and the sweep keeps just the runs inside (polygonAreaM2,    *)
(* rayCast, detectPasses).                                                 *)
ArithmeticIsExact ==
  /\ subject = "intervals" => Arithmetic!CoalesceIsCanonical /\ Arithmetic!GapsAreTheUnscannedTime
  /\ subject = "shapes" => Shapes!StoredIsUsable /\ Shapes!EveryFixIsInOne /\ Shapes!PassesAreRuns
=============================================================================
