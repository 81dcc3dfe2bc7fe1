CONSTANTS
  Conns = {c1, c2}
  Addrs = {a1, a2}
  Ids = {i1}
  Tokens = {t1, t2}
  Udp = Udp
  Slots = 2
  QueueCapacity = 1
  PendingCapacity = 1
  WebSocket = FALSE
  Requested = {"direct"}
  SharedAddrs = TRUE
  None = None
SPECIFICATION Spec
SYMMETRY Symmetry
INVARIANTS TokenOneShot AnswersMatch UndeliveredForgotten
PROPERTIES RequestNeverSilent
