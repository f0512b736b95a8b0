CONSTANTS
  Nul = Nul
  Junk = Junk
  Byte = {Nul, a}
  InitSize = 4
  MaxSize = 8
  MaxLen = 2
  RingSize = 4
  RingChunk = 4
  Funcs = {f, g}
  HeaderLen = 2
  MaxServices = 3
  Threads = {t1, t2}
  Loops = {l1, l2, l3}
  None = None
  Head_ = Head_
  Stale = Stale
  MaxDepth = 3
  Timers = {x, y}
  Second = 4
  Milli = 2
  Timeouts = {2}
  Repeats = {0, 2}
  MaxTime = 7
  liba = liba
  oldliba = oldliba
  libb = libb
  text = text
  noinit = noinit
SPECIFICATION SpecAll
CHECK_DEADLOCK FALSE
INVARIANTS
  TypesOK
  Terminated
  RoomReclaimed
  HubActsAsTable
  LineSetAsAsked
  LoopFoundUnlessOverlapped
  TimerDiesOnlyMisused
  LoaderOpenOnce
  LoaderOrderly
PROPERTIES
  FifoQueue
  RingFifo
  TimerNotEarly
  TimerKeepsRhythm
  TimerNoOversleep
  TimerDueRuns
  LoaderDirLoaded
  LoaderAllUnloaded
