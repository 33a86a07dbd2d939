SPECIFICATION Spec
CONSTANTS
  Parts = {"A", "B", "read", "list", "search_tools"}
  Backends <- MCBackends
  Offerings <- PlainOfferings
  Sessions = {"s1"}
  Requests = {"r1", "r2"}
  SessionOf <- MCOne
  MetaTools <- MCMeta
  Threshold = 2
  TopK = 2
  Caching = TRUE
  Interruptible = {"connecting", "saveMeta", "serving"}
  MaxStarts = 3
  NoFile = NoFile
  NoCall = NoCall
INVARIANTS
  EveryToolHasOneName
  CallReachesItsTool
  OfferedIsRouted
  ToldOfChanges
