SPECIFICATION FairSpec
CONSTANTS
  NumPackets = 4
  Size <- MCSize
  Kind <- MCKind
  ParseTimeout = 1
  TicksPerSecond = 2
  MaxLost = 1
INVARIANTS TypeOK GenuineInOrder NothingLost
PROPERTY Drained
