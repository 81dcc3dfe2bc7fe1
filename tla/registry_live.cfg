SPECIFICATION FairSpec
CONSTANTS
  Ids = {d1, d2}
  Uuids = {u1}
  Pks = {k1}
  Ips = {a1}
  Loopback = {}
  Objs = {o1, o2}
  Handlers = {h1}
  Cleaner = cleaner
  MaxCachedPeers = 1
  RegPkLimit = 0
  AllowUnmanaged = FALSE
  StallBounded = TRUE
  CrashPossible = FALSE
  None = None
INVARIANTS StoredWasGranted
PROPERTIES EvictsOnlyInactive BusyClears HandlersReturn
