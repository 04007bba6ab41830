SPECIFICATION Spec
CONSTANTS
  none = none
  None = none
  JunkWidth = {TRUE, FALSE}
  JunkFlags <- MCJunkFlags
  Neighbour = {1, 2}
  OwnAs = {1}
  Sessions <- WidthSessions
  Announced <- MCAnnounced
  Originated <- NoRoutes
  LocalAddress <- MCLocalAddress
  MaxHops = 2
INVARIANTS OurAsInPath
CHECK_DEADLOCK FALSE
