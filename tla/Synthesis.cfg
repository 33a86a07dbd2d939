SPECIFICATION Spec
CONSTANTS
  ToolOrder <- MCToolOrder
  Fold <- MCFold
  Requests <- MCRequests
INVARIANTS
  PlanIsExecutable
  ChainedAreFit
  AskedOnlyWhenNeeded
