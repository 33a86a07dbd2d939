SPECIFICATION FairSpec
CONSTANTS
  Tools = {"a", "b", "c", "t"}
  Fields = {"f", "g"}
  Keys = {"f", "g"}
  Ids = {"s1", "s2", "s3"}
  Whole = Whole
  NoTool = NoTool
  NoPlan = NoPlan
  NoId = NoId
  MaxAttempts = 2
  MaxRepairs = 3
  Resynthesize <- MCResynthesize
  Extract <- MCExtract
  Responses <- MCResponses
  Configurations <- MCConfigurations
  InitialPlans <- MCInitialPlans
INVARIANTS
  ContextFresh
  SkipIsSafe
  TraceAccountsForCalls
  CallBudgets
  RunIsShownTruly
PROPERTIES
  StreamContract
  Terminates
