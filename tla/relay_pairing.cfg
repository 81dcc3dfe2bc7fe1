CONSTANTS
  Conns = {c1, c2, c3}
  Consoles = {k1}
  Uuids = {u1, u2}
  Ports = {p1}
  Hosts = {h1, h2}
  DualStack = FALSE
  Slots = 3
  MaxPending = 2
  MaxPendingPerIp = 1
  MappedTexts = TRUE
  MaxListEntries = 0
  MaxGeneration = 3
  WebSocket = TRUE
  TrustProxy = TRUE
  None = None
SPECIFICATION Spec
SYMMETRY Symmetry
INVARIANTS TypeOK OneOwner PendingHasTimer PairsAgree UsageOnlyRelays
PROPERTIES StaleTimersHarmless ImplementsService
