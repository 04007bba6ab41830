SPECIFICATION Spec
CONSTANTS
  MarkerLen = 2
  Content <- MCContent
  BufLen = 8
  JunkByte = {0, 3}
  MaxSent = 3
INVARIANTS TypeOK LostOnlyByCut
PROPERTIES KeepsPromise
CHECK_DEADLOCK FALSE
