CONSTANTS
  NoType = NoType
  NoDomain = NoDomain
  NoLabel = NoLabel
  NoLlm = NoLlm
  NoIndex = NoIndex
  NoFile = NoFile
  Names <- MCNames
  Schemas <- MCSchemas
  Batches <- MCBatches
  Labels <- MCLabels
  Prefixed <- MCPrefixed
  Lower <- MCLower
  Related <- MCRelated
  Conflicting <- MCConflicting
  Staged <- MCStaged
  Workflows <- MCWorkflows
  Declared <- MCDeclared
  Clusterings <- MCClusterings
  LlmAnswers <- MCLlmAnswers
  PairLists <- MCPairLists
  Before <- MCBefore
  Quality <- MCQuality
  MaxOps = 3
SPECIFICATION Spec
INVARIANTS GraphMatchesTools EngineIsCurrent MergeKeepsOne
PROPERTIES LoadRestores
