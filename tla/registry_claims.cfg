SPECIFICATION Spec
CONSTANTS
  Ids = {d1}
  Uuids = {u1, u2}
  Pks = {k1, k2}
  Ips = {a1, a2}
  Loopback = {a2}
  Objs = {o1, o2}
  Handlers = {h1, h2}
  Cleaner = cleaner
  MaxCachedPeers = 2
  RegPkLimit = 0
  AllowUnmanaged = TRUE
  StallBounded = TRUE
  CrashPossible = TRUE
  None = None
SYMMETRY Symmetry
INVARIANTS TypeOK NoOrphan SingleWriter CacheMatchesDb
PROPERTIES ClaimIsPermanent KeyChangesAtRecordedIp AckMeansStored
