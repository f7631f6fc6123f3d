SPECIFICATION FairSpec
CONSTANTS
  d1 = d1
  d2 = d2
  w1 = w1
  w2 = w2
  t1 = t1
  t2 = t2
  Decks = {d1, d2}
  HostOf <- MCTwoHosts
  Ids = {w1}
  Leftovers <- MCLeftOrNew
  Tiles = {t1}
  NoId = NoId
  NoFile = NoFile
  NoLock = NoLock
  MaxRuns = 1
  MaxTroubles = 1
  MaxContested = 0
PROPERTIES
  ChangesGetSaved
  DeadLocksLapse
CHECK_DEADLOCK FALSE

