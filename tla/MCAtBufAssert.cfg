CONSTANTS
  Nul = Nul
  Junk = Junk
  Byte = {Nul, a}
  InitSize = 4
  MaxSize = 8
  MaxLen = 3
SPECIFICATION Spec
CHECK_DEADLOCK FALSE
INVARIANT
  NeverAborts
