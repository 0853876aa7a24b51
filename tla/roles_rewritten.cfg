SPECIFICATION Spec
CONSTANTS
  Requests = {r1}
  Models = {m1, m2}
  m1 = m1
  m2 = m2
  AnyModel = AnyModel
  NoModel = NoModel
  NoEndpoint = NoEndpoint
  Configs <- SmallConfigs
  Texts <- SmallTexts
  Budgets = {3}
  MaxCalls = 3
  MaxEdits = 1
CHECK_DEADLOCK FALSE
INVARIANT RolesRewritten
