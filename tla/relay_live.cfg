CONSTANTS
  Conns = {c1, c2}
  Consoles = {k1}
  Uuids = {u1}
  Ports = {p1}
  Hosts = {h1}
  DualStack = FALSE
  Slots = 3
  MaxPending = 1
  MaxPendingPerIp = 1
  MappedTexts = FALSE
  MaxListEntries = 1
  MaxGeneration = 1
  WebSocket = TRUE
  TrustProxy = TRUE
  None = None
SPECIFICATION FairSpec
PROPERTIES WaitingEnds QuietRelaysEnd BlockedRelaysEnd BlackListedSlowDown
