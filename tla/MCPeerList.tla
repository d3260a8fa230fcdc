----------------------------- MODULE MCPeerList -----------------------------
(***************************************************************************)
(* Instances of PeerList for TLC.                                          *)
(***************************************************************************)
EXTENDS PeerList, TLC

\* Peers are interchangeable, and so are addresses; used for invariants only.
Symmetry == Permutations(Peer) \cup Permutations(Addr)
=============================================================================
