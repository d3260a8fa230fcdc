SPECIFICATION FairSpec
CONSTANTS
  Fd <- Descriptors
  Backlog = 3
INVARIANTS
  NoLostWakeup
  ServerSafe
PROPERTIES
  OthersKept
  QuitCompletes
