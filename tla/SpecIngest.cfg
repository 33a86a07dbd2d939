SPECIFICATION Spec
CONSTANTS
  MaxDepth = 8
  JsonLike = {"application/hal+json"}
  SuccessCodes <- MCSuccess
  ErrorCodes <- MCErrors
  SuffixSlug <- MCSuffix
  PathSlug <- MCSlug
  Segment <- MCSegment
  Specs <- MCSpecs
INVARIANTS ContractIsLocal EveryOperationIsATool AskedIsCallers
CHECK_DEADLOCK FALSE
