SPECIFICATION Spec
CONSTANTS
  none = none
  None = none
  JunkWidth = {TRUE, FALSE}
  JunkFlags <- MCJunkFlags
  Neighbour = {1, 2}
  OwnAs = {1}
  Sessions <- WidthSessions
  Announced <- MCAnnounced
  Originated <- MCOriginated
  LocalAddress <- MCLocalAddress
  MaxHops = 2
INVARIANTS AcceptedByMatch
CHECK_DEADLOCK FALSE
