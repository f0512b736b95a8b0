CONSTANTS
  srv = srv
  cli = cli
  bak = bak
  hOnline = hOnline
  hEcho = hEcho
  hNone = hNone
  hTopic = hTopic
  hRoot = hRoot
  NoDst = NoDst
  None = None
  Listener = 3
  Conns = {srv, cli}
  Quitters = {srv, cli}
  FDs = {4, 5}
  StationIds = {0, 1, 2}
  Headers <- MCHeaders
  Crcs = {1, 2}
  DstId <- MCDstId
  Extends <- MCExtends
  Script <- ReconnectScript
  API_REQUEST_TIMEOUT = 1
  APIBUS_STATION_ALIVE_TIMEOUT = 2
  MaxSends <- TwoEach
SPECIFICATION Spec
CHECK_DEADLOCK FALSE
PROPERTIES
  AliveMeansConnected
