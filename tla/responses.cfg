SPECIFICATION FairSpec
CONSTANTS
  MaxTurns = 3
  MaxCalls = 2
  Budgets = {0, 1, 2}
  MaxThoughts = 2
  None = None
INVARIANTS ItemsInPlace CallsAnswered SearchingSubsides
PROPERTIES ImplementsLoop ResponseEnds
CHECK_DEADLOCK FALSE
