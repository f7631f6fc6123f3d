SPECIFICATION FairSpec
CONSTANTS
  a = a
  b = b
  Names = {a, b}
  Earlier <- MCEarlier
  NoName = NoName
  MaxTiles = 2
  MaxSpawns = 2
  MaxTroubles = 1
INVARIANTS
  TypeOK
  ThinkingEnds
  JoinsOnce
  JoinerNotTold
PROPERTIES
  BadgesComeRight
CHECK_DEADLOCK FALSE
