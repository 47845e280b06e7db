\* One edit at a time, one of whose reads may fail.
CONSTANTS
  Editors = {a}
  GroupScopes = {north}
  Unrestricted = Unrestricted
  ConsoleCaps = {"onboard_vehicles"}
  MaxConsole = 0
  MaxFailures = 1
SPECIFICATION Spec
PROPERTY
  OwnersCannotBeLimited
CHECK_DEADLOCK FALSE
