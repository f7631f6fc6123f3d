SPECIFICATION FairSpec
CONSTANTS
  Groups = {g1, g2}
  Home = g1
  Conns = {c1, c2}
  NoConn = null
  NoGroup = none
  FlushMaxCount = 1
  MaxMsg = 2
  MaxEvents = 3
INVARIANT TypeOK
INVARIANT ActiveInOneGroup
PROPERTY GetsConnected
PROPERTY PendingIsShown
CHECK_DEADLOCK FALSE
