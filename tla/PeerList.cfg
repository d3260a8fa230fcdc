SPECIFICATION FairSpec
CONSTANTS
  Peer = {p1, p2, p3}
  Addr = {a1, a2}
  NULL = NULL
INVARIANTS
  MainDerefsLive
  PeersSafe
  ListIntact
PROPERTIES
  FreedOnCommand
  CommandCompletes
  ClientCompletes
