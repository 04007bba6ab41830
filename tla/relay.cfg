SPECIFICATION Spec
CONSTANTS
  none = none
  None = none
  JunkWidth = {TRUE, FALSE}
  JunkFlags <- MCJunkFlags
  Neighbour = {1, 2}
  OwnAs <- MCOwnAs
  Sessions <- MCSessions
  Announced <- MCAnnounced
  Originated <- MCOriginated
  LocalAddress <- MCLocalAddress
  MaxHops = 2
INVARIANTS TypeOK LenIsWhatIsLeft WholeOrNothing ReadsWhatWasSent CapabilitiesRead LoopDropped PathIsTrace PrefixDecides PolicyRoundTrips
PROPERTIES Handled
CHECK_DEADLOCK FALSE
