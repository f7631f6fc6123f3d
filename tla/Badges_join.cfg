SPECIFICATION FairSpec
CONSTANTS
  a = a
  b = b
  Names = {a, b}
  Earlier <- MCEarlier
  NoName = NoName
  MaxTiles = 2
  MaxSpawns = 2
  MaxTroubles = 1
INVARIANT JoinNamesTheNewcomer
CHECK_DEADLOCK FALSE
