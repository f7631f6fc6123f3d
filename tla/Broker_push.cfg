SPECIFICATION SpecB
CONSTANTS
  p1 = p1
  p2 = p2
  local = local
  remote = remote
  dir = dir
  dir2 = dir2
  secret = secret
  secret2 = secret2
  s1 = s1
  s2 = s2
  Default = default
  NoHash = null
  Hosts <- MCHosts
  Cwds <- MCCwds
  BrokerHost = local
  Groups = {default, secret}
  Hashes = {null, s1, s2}
  PeerIds <- MCIds
  DeckId = "deck"
  ReservedIds = {"deck"}
  Procs <- MCProcs1
  HostOf <- MCHostOf
  PidOf <- MCPidOf
  Credentials <- MCBothGroups
  CandidateId <- MCCandidateId
  ValidIds = {}
  MaxSuffix = 2
  Stamps = 1
  MaxToken = 1
  ActiveStale = 0
  DormantTTL = 0
  Day = 1
  MaxAge = 2
  CwdOf <- MCTwoDirs
  FlushMaxCount = 1
  FlushMaxAge = 1
  MessageTTL = 0
  MaxMsg = 2
  Conns = {c1, c2}
INVARIANT PoolAuthenticated
INVARIANT FramesInOrder
PROPERTY BacklogReplayed
