SPECIFICATION Spec
CONSTANTS
  Tools = {"a", "c", "d", "e", "t"}
  Fields = {"ordNo", "w_h", "stock", "wh"}
  Keys = {"ordNo", "w_h", "stock", "wh"}
  Ids = {"s1", "s2", "s3", "s4", "s5"}
  Whole = Whole
  NoTool = NoTool
  NoPlan = NoPlan
  NoId = NoId
  Graph <- MCGraph
  ToolOrder <- MCToolOrder
  Fold <- MCFold
  IdOf <- MCIdOf
  Requests <- MCRequests
  Resynthesize <- SynthesizedPlan
  Extract <- ExtractedEntities
  Responses <- PossibleResponses
  Configurations <- MCConfigurations
  InitialPlans <- SynthesizedPlans
INVARIANTS
  RerunOnlyForLostValue
