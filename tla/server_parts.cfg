CONSTANTS
  None = None
  Procs = {identity, relay}
  Keys = {k1, k2, k3, k4}
  OldKeys = {k1, k2}
  Attempts = 3
  MaxKills = 1
  MaxPowerLosses = 1
  Servers = {s1, s2, s3}
  Lists = {{}, {s1, s2}, {s2, s3}}
  Conns = {c1}
  Slots = 1
  QueueCapacity = 1
  Listeners = {natTest}
  MaxUpdates = 1
  Ips = {a1, a2}
  Ids = {x, y, z}
  BlockDur = 2
  DayDur = 5
  ChangeDur = 1
  RequestLimit = 2
  IdLimit = 1
  ProxyLimit = 2
  ChangeLimit = 2
  MaxTracked = 1
SPECIFICATION PartsSpec
INVARIANTS
  KeysAgree PublicMatches NoFailedStart ServedKeyIsOnDisk
  NeverWithoutRelay AllowancesHold ChangesAreRecent
PROPERTIES
  HealthyServerStays PermitsReturn
\* Servers that all run, with no fault left, have nothing more to do.
CHECK_DEADLOCK FALSE
