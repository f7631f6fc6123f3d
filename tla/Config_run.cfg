SPECIFICATION Spec
CONSTANTS
  Decks = {d1, d2}
  Terminals = {t1, t2}
  Depth = 2
  work = work
  other = other
  s1 = s1
  s2 = s2
  near = near
  far = far
  Ports = {7899, 7900}
  Urls = {near, far, Empty}
  Tokens = {s1, s2}
  DefaultPort = 7899
  Empty = Empty
  GitRoots <- MCGitRoots
  GroupNames = {work, other}
  DefaultName = default
  ForcedName = other
  GroupSecrets = {s1, s2}
  Custom = {team}
  UserConfigs <- MCUserConfigs
  EnvGroups <- MCEnvGroups
  Null = Null
  NoFile = NoFile
  BadFile = BadFile
  Remember = TRUE
  MaxScopes = 3
  MaxEdits = 3
INVARIANTS
  TypeOK
  ResolvesAsDocumented
  TilesInScope
  NoSecretLeftBehind
  CurrentIsListed
  AnnouncesReachBroker
SYMMETRY MCSymmetry
