SPECIFICATION Spec
CONSTANTS
  Peer = {p1, p2, p3}
  Addr = {a1, a2}
  NULL = NULL
SYMMETRY Symmetry
INVARIANT NoLostPeer
