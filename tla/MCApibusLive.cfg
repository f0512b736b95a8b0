CONSTANTS
  srv = srv
  cli = cli
  bak = bak
  hOnline = hOnline
  hEcho = hEcho
  hNone = hNone
  hTopic = hTopic
  hRoot = hRoot
  NoDst = NoDst
  None = None
  Listener = 3
  Conns = {srv, cli, bak}
  Quitters = {cli}
  FDs = {4, 5}
  StationIds = {0, 1, 2}
  Headers <- MCHeaders
  Crcs = {1, 2}
  DstId <- MCDstId
  Extends <- MCExtends
  Script <- LiveScript
  API_REQUEST_TIMEOUT = 1
  APIBUS_STATION_ALIVE_TIMEOUT = 1
  MaxSends <- TwoByServer
SPECIFICATION FairSpec
CHECK_DEADLOCK FALSE
PROPERTIES
  RequestsSettled
  InputTaken
