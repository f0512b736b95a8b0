CONSTANTS
  FDs = {1, 2, 3}
  UnixAddrs = {u}
  MaxCloses = 1
  TcpAddrs = {p}
  Devices = {d}
  None = None
SPECIFICATION Spec
CHECK_DEADLOCK FALSE
INVARIANTS
  OwnsLive
  AllWatched
  SelectSound
  Reachable
  NamesLast
  CountdownSound
PROPERTY
  Served
