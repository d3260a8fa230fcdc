SPECIFICATION BtideFairSpec
CONSTANTS
  Peer = {p1, p2}
  Addr = {a1}
  NULL = NULL
  Fd <- Descriptors
  Backlog = 0
CONSTRAINT Bounds
VIEW View
INVARIANTS
  SocketsApart
  PeersFreedAfterServer
PROPERTIES
  ConnectionKept
  ComponentsKept
  QuitEnds
