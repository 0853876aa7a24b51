SPECIFICATION CacheSpec
CONSTANTS
  Requests = {r1, r2}
  Sessions = {s1, s2}
  Models = {m1}
  Instances = {n1}
  InstanceOf <- OneInstance
  Pools = {p1}
  MaxSlots = 1
  Overrides = {1}
  Probes = {0}
  MaxOrphans = 1
  Paths = {"call", "stream", "events"}
  None = None
  NoSlot = NoSlot
  Orphan = Orphan
SYMMETRY Interchangeable
INVARIANT GenerationIntact
PROPERTIES SnapshotsOwn ImplementsLease
CHECK_DEADLOCK FALSE
