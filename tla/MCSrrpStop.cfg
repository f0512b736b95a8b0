SPECIFICATION Spec
CONSTANTS
  NumPackets = 4
  Size <- MCSize
  Kind <- MCKind
  ParseTimeout = 1
  TicksPerSecond = 2
  MaxLost = 0
INVARIANT StopPresent
