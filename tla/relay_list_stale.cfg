CONSTANTS
  None = None
  Servers = {s1, s2, s3}
  Lists = {{s1, s2}, {s3}}
  Conns = {c1}
  Slots = 1
  QueueCapacity = 1
  Listeners = {natTest}
  MaxUpdates = 1
SPECIFICATION FairSpec
PROPERTIES ConfiguredIsOffered
