SPECIFICATION Spec
CONSTANTS
  w1 = w1
  Workspaces = {w1}
  team = team
  Custom = {team}
  Remember = TRUE
  Ephemeral = Ephemeral
  NoId = NoId
  NoFile = NoFile
  NoSearch = NoSearch
  NoWorkspace = NoWorkspace
  MaxTiles = 2
  MaxSpawns = 3
  LaunchArgs <- MCLaunches
  MaxTroubles = 2
INVARIANTS
  TypeOK
  OwnIdsUnlessMixed
  OpenIdsGuarded
PROPERTIES
  ExitClosesItsOwn
CHECK_DEADLOCK FALSE
