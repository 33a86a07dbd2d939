CONSTANTS
  Collections <- MCCollections
  Names <- MCNames
  LooseKey <- MCLooseKey
  MaxProducers = 2
  MinSuccesses = 2
  MaxFailurePercent = 50
  MaxSuggestions = 3
  Stages = {"plan"}
  MaxSpans = 2
  Runs <- MCRuns
  MaxCandidates = 1
  MaxAttempts = 3
  MaxDecisions = 1
  Deletable <- MCDeletable
SPECIFICATION Spec
CHECK_DEADLOCK FALSE
INVARIANTS
  TraceIsExported
  OperatorRules
  CountsAreEarned
  OrderIsSound
  EdgesAreGrounded
