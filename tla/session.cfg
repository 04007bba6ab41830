SPECIFICATION FairSpec
CONSTANTS
  Chunk <- MCChunk
  OwnHold = 6
  JunkTime = {0, 5}
  MaxConn = 3
  MaxReady = 2
  MaxFired = 1
INVARIANTS TypeOK KeepaliveArmed StillListening EstablishedByPeer OwnBytes KeepaliveInTime
PROPERTIES KeepalivesGoOn ReadersKept SeenByTable
CHECK_DEADLOCK FALSE
