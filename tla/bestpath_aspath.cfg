SPECIFICATION Spec
CONSTANTS
  local = local
  plain = plain
  short = short
  odd = odd
  none = none
  N = 2
  Peer = {1}
  Local = local
  None = none
  Attr <- MCAttr
  LocalPref <- MCLocalPref
  Med <- MCMed
  Junk <- MCJunk
  MaxLen = 3
  AsPathLength <- MCAsPathLength
INVARIANTS ShorterAsPathIsBest
CHECK_DEADLOCK FALSE
