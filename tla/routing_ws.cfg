CONSTANTS
  Conns = {c1, c2}
  Addrs = {a1, a2}
  Ids = {i1}
  Tokens = {t1}
  Udp = Udp
  Slots = 2
  QueueCapacity = 1
  PendingCapacity = 1
  WebSocket = TRUE
  Requested = {"local", "relay"}
  SharedAddrs = TRUE
  None = None
SPECIFICATION Spec
SYMMETRY Symmetry
INVARIANTS TypeOK AnswersMatch SinksLive StaysReachable
PROPERTIES RequestNeverSilent
