CONSTANTS
  Conns = {c1, c2}
  Consoles = {k1}
  Uuids = {u1}
  Ports = {p1, p2}
  Hosts = {h1}
  DualStack = TRUE
  Slots = 3
  MaxPending = 1
  MaxPendingPerIp = 1
  MappedTexts = TRUE
  MaxListEntries = 1
  MaxGeneration = 1
  WebSocket = FALSE
  TrustProxy = FALSE
  None = None
SPECIFICATION FairSpec
PROPERTIES BlockedRelaysEnd
