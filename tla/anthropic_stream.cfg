SPECIFICATION FairSpec
CONSTANTS
  None = None
  MaxChunks = 3
  MaxWire = 2
  ToolIndices = {0, 1}
  Finishes <- MCFinishes
INVARIANTS BlocksInOrder MessageArrives FinishArrives BreakTold
PROPERTY StreamEnds
CHECK_DEADLOCK FALSE
