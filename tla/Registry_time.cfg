SPECIFICATION FairSpec
CONSTANTS
  p1 = p1
  p2 = p2
  p3 = p3
  local = local
  remote = remote
  dir = dir
  secret = secret
  s1 = s1
  s2 = s2
  Default = default
  NoHash = null
  Hosts <- MCHosts
  Cwds <- MCCwds
  CwdOf <- MCCwdOf
  BrokerHost = local
  Groups = {default, secret}
  Hashes = {null, s1, s2}
  PeerIds <- MCIds
  DeckId = "deck"
  ReservedIds = {"deck"}
  Procs <- MCProcs3
  HostOf <- MCHostOf
  PidOf <- MCPidReused
  Credentials <- MCSecretOnly
  CandidateId <- MCCandidateId
  ValidIds = {"a-2"}
  MaxSuffix = 2
  Stamps = 1
  MaxToken = 2
  ActiveStale = 1
  DormantTTL = 1
  Day = 2
  MaxAge = 3
PROPERTY PurgedOnlyWhenExpired
PROPERTY LostRowsBecomeDormant
PROPERTY LostRowsArePurged
