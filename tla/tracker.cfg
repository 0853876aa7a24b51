SPECIFICATION FairSpec
CONSTANTS
  Requests = {r1, r2}
  Models = {a, b, c}
  Limits = {0, 1, 2}
  None = None
INVARIANTS VictimStillLast CapUnlessRaced
PROPERTY AdmissionEnds
CHECK_DEADLOCK FALSE
