SPECIFICATION FairSpec
CONSTANTS
  local = local
  one = one
  better = better
  two = two
  ours = ours
  none = none
  N = 2
  Peer = {1, 2}
  External = {1, 2}
  Local = local
  None = none
  Attr <- MCAttr
  LocalPref <- MCLocalPref
  Med <- MCMed
  Junk <- PlainJunk
  Looped = {ours}
  Message <- FewMessage
  AttrOf <- FewAttrOf
  Originate <- NoRoutes
  TidyPeers = FALSE
  MaxPaths = 2
  MaxExpired = 2
INVARIANTS TypeOK InSync
PROPERTIES ServedEventually
