CONSTANTS
  ToolOrder <- MCToolOrder
  Requests <- MCRequests
SPECIFICATION Spec
CHECK_DEADLOCK FALSE
INVARIANTS
  ReadyIsRunnable
  BudgetKeepsChain
  MutationsAreAllowed
  VerdictsAreSound
  OfferIsSound
