SPECIFICATION Spec
CONSTANTS
  local = local
  one = one
  better = better
  two = two
  ours = ours
  none = none
  N = 2
  Peer = {1, 2}
  External = {}
  Local = local
  None = none
  Attr <- MCAttr
  LocalPref <- MCLocalPref
  Med <- MCMed
  Junk <- PlainJunk
  Looped = {ours}
  Message <- SharedMessage
  AttrOf <- SharedAttrOf
  Originate <- OneRoute
  TidyPeers = TRUE
  MaxPaths = 3
  MaxExpired = 1
PROPERTIES PurgeClears
