SPECIFICATION Spec
CONSTANTS
  NoName = NoName
  NoDefault = NoDefault
  NoPath = NoPath
  NoType = NoType
  NoLocation = NoLocation
  NoStyle = NoStyle
  Unreachable = Unreachable
  one = one
  two = two
  dog = dog
  cat = cat
  file1 = file1
  Operations <- MCOperations
  Calls <- MCCalls
CHECK_DEADLOCK FALSE
INVARIANTS RequestIsComplete UsedAsReported ArgumentsArrive ValuesAreWritten
