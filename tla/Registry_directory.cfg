SPECIFICATION SpecH
CONSTANTS
  p1 = p1
  p2 = p2
  p3 = p3
  local = local
  remote = remote
  dir = dir
  secret = secret
  s1 = s1
  s2 = s2
  Default = default
  NoHash = null
  Hosts <- MCHosts
  Cwds <- MCCwds
  CwdOf <- MCCwdOf
  BrokerHost = local
  Groups = {default, secret}
  Hashes = {null, s1, s2}
  PeerIds <- MCIds
  DeckId = "deck"
  ReservedIds = {"deck"}
  Procs <- MCProcs2
  HostOf <- MCHostOf
  PidOf <- MCPidOf
  Credentials <- MCCredentials
  CandidateId <- MCCandidateId
  ValidIds = {"b"}
  MaxSuffix = 2
  Stamps = 1
  MaxToken = 2
  ActiveStale = 1
  DormantTTL = 1
  Day = 1
  MaxAge = 2
INVARIANT ListedReachable
INVARIANT SessionsLeadToRows
INVARIANT NamesUnique
INVARIANT MembersShowedSecret
INVARIANT OneHolderUnlessExposed
PROPERTY LiveTokenNotTaken
