SPECIFICATION Spec
CONSTANTS
  Ids = {d1, d2}
  Uuids = {u1}
  Pks = {k1}
  Ips = {a1}
  Loopback = {}
  Objs = {o1, o2, o3}
  Handlers = {h1, h2}
  Cleaner = cleaner
  MaxCachedPeers = 1
  RegPkLimit = 0
  AllowUnmanaged = TRUE
  StallBounded = TRUE
  CrashPossible = FALSE
  None = None
SYMMETRY Symmetry
INVARIANTS EmptyMeansUnregistered
