\* Two overlapping requests of every part, one license and two updates.
CONSTANTS
  Servers = {p}
  Jobs = {a, b}
  Licenses = {1}
  MaxWrites = 2
\* Minter
  Callers = {"c"}
  Clients = {1, 2}
  Life = 3
  Margin = 1
  Fallback = 2
\* SecretRotation
  Owners = {a, b}
  MaxKeys = 2
\* GeofenceCatalog
  Operators = {a, b}
  Slugs = {"depot", "yard"}
  Names <- MCNames
  Edits = {a, b}
  Goroutines = {g1, g2, g3}
  MaxEdits = 3
\* GeofenceInput
  Writers = {a, b}
  MaxInputs = 2
\* GeofenceShapes
  Grid = {0, 2, 4}
  Probes = {0, 1, 2, 3, 4}
  Corners <- MCCorners
  MaxSamples = 3
\* Sharing
  Dialogs = {a, b}
  PollAttempts = 3
  ErrorsTolerated = 2
  MaxJobs = 2
\* Invitations
  Calls = {a, b}
  AnswerLife = 1
  CallTime = 1
  MaxLinks = 1
\* Preferences
  Browsers = {a, b}
  Keys = {"units", "locale"}
  MaxChoices = 3
  MaxSignIns = 2
\* FleetCache
  Fleets = {"mine", "theirs"}
  Pages = {a, b}
  Loads = {a, b}
  MaxLoads = 2
  MaxTurns = 2
\* Reconciliation; Cars also of GeofenceCatalog, Groups of GeofenceInput
  Tenants = {1, 2}
  Accounts = {"w"}
  Groups = {"g"}
  Cars = {"car"}
  MaxDrifts = 1
\* ScanIntervals
  MaxInstant = 6
  MaxRows = 4
SPECIFICATION MCSpec
SYMMETRY MCSymmetry
INVARIANTS
  TypesOK
  TokensAreAlive
  CommandsHold
  PublishedIsCurrent
  VerdictsStand
  AccessFollowsMembership
  LatestChoiceShows
  ArithmeticIsExact
PROPERTIES
  CreatedOpens
  LicenseHolds
CHECK_DEADLOCK FALSE
