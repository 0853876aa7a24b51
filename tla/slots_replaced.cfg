SPECIFICATION Spec
CONSTANTS
  Requests = {r1, r2}
  Sessions = {s1, s2}
  Models = {m1}
  Instances = {n1}
  InstanceOf <- OneInstance
  Pools = {p1, p2, p3}
  MaxSlots = 2
  Overrides = {0}
  Probes = {0, 2}
  MaxOrphans = 1
  None = None
  NoSlot = NoSlot
  Orphan = Orphan
CHECK_DEADLOCK FALSE
INVARIANT SlotExclusive
