SPECIFICATION SpecB
CONSTANTS
  p1 = p1
  p2 = p2
  local = local
  remote = remote
  dir = dir
  dir2 = dir2
  secret = secret
  secret2 = secret2
  s1 = s1
  s2 = s2
  Default = default
  NoHash = null
  Hosts <- MCHosts
  Cwds <- MCCwds
  BrokerHost = local
  Groups = {default, secret, secret2}
  Hashes = {null, s1}
  PeerIds <- MCIds
  DeckId = "deck"
  ReservedIds = {"deck"}
  Procs <- MCProcs2
  HostOf <- MCHostOf
  PidOf <- MCPidOf
  Credentials <- MCTwoSecrets
  CandidateId <- MCCandidateId
  ValidIds = {}
  MaxSuffix = 2
  Stamps = 1
  MaxToken = 2
  ActiveStale = 0
  DormantTTL = 0
  Day = 1
  MaxAge = 1
  CwdOf <- MCTwoDirs
  FlushMaxCount = 1
  FlushMaxAge = 0
  MessageTTL = 0
  MaxMsg = 2
  Conns = {}
INVARIANT TypeOKB
INVARIANT MessagesHaveRows
INVARIANT MailStaysInGroup
PROPERTY MailboxKept
SYMMETRY MCSymmetry
