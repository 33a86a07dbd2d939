SPECIFICATION RequestSpec
CONSTANTS
  NameOrder <- Names
  Words <- WordsOf
  Engines <- EnginesOf
  Queries <- Asked
  Graphs <- GraphsOf
  Resembles <- Alike
  HashOrders <- Orders
  KeywordTop = 2
  PrefilterFrom = 6
  MinPool = 3
  MaxPool = 3
  DominantHead = 2
  Goals <- GoalsOf
  MaxSteps = 3
  TopTools = 5
  Answers <- AnswersOf
  Edits <- EditsOf
  Mappings = {"id"}
  EditBound = 2
INVARIANTS
  PrefilterKeepsKeywords
  LeaderIsNotBuried
  UseIsTold
  PlanEndsInTarget
CHECK_DEADLOCK FALSE
