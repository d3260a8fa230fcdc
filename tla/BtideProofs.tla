---------------------------- MODULE BtideProofs ----------------------------
(***************************************************************************)
(* Proofs about the program btide: its peer list, for any number of peers  *)
(* and addresses, the peer list together with the server thread, for any   *)
(* descriptors and any backlog, and its start, for any configuration files *)
(* and directories.                                                        *)
(***************************************************************************)
EXTENDS Btide, Config, SequenceTheorems, FiniteSetTheorems, WellFoundedInduction, TLAPS

-----------------------------------------------------------------------------
(***************************************************************************)
(* The peer list (PeerList)                                                *)
(*                                                                         *)
(* The code is safe for the main thread although client threads do not     *)
(* exclude it, and IInv says why: only the main thread unlinks and frees   *)
(* listed peers, a client thread only ever publishes its own peer, once,   *)
(* and no two links that a walk can follow lead to the same peer.  So a    *)
(* walk never meets a peer twice: it ends after as many hops as there are  *)
(* peers (HopsOK), also while QUIT frees the peers and leaves the head     *)
(* leading through freed ones (TearDownInv).                               *)
(***************************************************************************)

-----------------------------------------------------------------------------
(***************************************************************************)
(* The inductive invariant                                                 *)
(***************************************************************************)

\* An allocated peer whose client thread has finished.
Published(n) == n \in Peer /\ mem[n] = "alloc" /\ cpc[n] = "done"

\* An object whose next pointer a walk may still follow: allocated, and not
\* the peer that remove_peer has unlinked and is about to free.
Source(m) == mem[m] = "alloc" /\ ~(mpc = "free_removed" /\ m = mcur)

\* The life of an object, its socket and its client thread.
LifeInv == \A p \in Peer :
  /\ mem[p] = "fresh" => cpc[p] = "none"
  /\ mem[p] = "freed" =>
       cpc[p] \in {"done", "unstarted"} \/ (cpc[p] = "failed" /\ sock[p] = "none")
  /\ mem[p] = "freed" => sock[p] # "open"
  /\ cpc[p] \in {"none", "client", "unstarted"} => sock[p] = "none"
  /\ cpc[p] = "failed" => sock[p] # "open"
  /\ mem[p] = "alloc" /\ cpc[p] \notin {"none", "client", "failed"} => sock[p] = "open"

\* Every pointer into the list leads to a peer that its client thread has
\* listed (and, before the list is torn down, one that is not freed).
PointerInv ==
  /\ peer_list # NULL => cpc[peer_list] = "done"
  /\ ~Quitting /\ peer_list # NULL => mem[peer_list] = "alloc"
  /\ \A m \in Peer : next[m] # NULL => cpc[next[m]] = "done"
  /\ \A m \in Peer : mem[m] = "alloc" /\ next[m] # NULL => mem[next[m]] = "alloc"

\* No peer has two predecessors, and the head has none.
UniqueInv ==
  /\ \A m, n \in Peer :
       Source(m) /\ Source(n) /\ next[m] = next[n] /\ next[m] # NULL => m = n
  /\ ~Quitting /\ peer_list # NULL =>
       \A m \in Peer : Source(m) => next[m] # peer_list

\* The cursors of the main thread.
CursorInv ==
  /\ mpc \in {"print_peer", "get_peer", "remove_peer", "free_peer"} /\ mcur # NULL
       => Published(mcur)
  /\ mpc \in {"unlink", "free_removed", "free_node"} => Published(mcur)
  /\ mpc \in {"unlink", "free_removed"} => addr[mcur] = marg
  /\ mpc \in {"idle", "lock_get", "lock_remove", "lock_free", "get_peer", "create"}
       => mprev = NULL

\* remove_peer: previous is the only way to current.
RemoveInv == mpc \in {"remove_peer", "unlink"} /\ mcur # NULL =>
  /\ mprev # NULL => Published(mprev) /\ mprev # mcur
  /\ peer_list = mcur => mprev = NULL
  /\ \A m \in Peer : Source(m) /\ next[m] = mcur => m = mprev

\* The loaded value of current->next is reached from current alone.
UnlinkInv == mpc = "unlink" /\ mnext # NULL =>
  /\ Published(mnext)
  /\ mnext # mcur
  /\ peer_list # mnext
  /\ \A m \in Peer : Source(m) /\ next[m] = mnext => m = mcur

\* The unlinked peer is not reached at all.
FreeRemovedInv == mpc = "free_removed" =>
  /\ peer_list # mcur
  /\ \A m \in Peer : Source(m) => next[m] # mcur

\* free_peer: nothing that is left leads back to the current node.
FreePeerInv ==
  /\ mpc \in {"free_peer", "free_node"} /\ mcur # NULL =>
       \A m \in Peer : mem[m] = "alloc" => next[m] # mcur
  /\ mpc = "free_node" /\ mnext # NULL =>
       /\ Published(mnext)
       /\ mnext # mcur
       /\ \A m \in Peer : mem[m] = "alloc" /\ next[m] = mnext => m = mcur

ListInv ==
  /\ PointerInv /\ UniqueInv /\ CursorInv
  /\ RemoveInv /\ UnlinkInv /\ FreeRemovedInv /\ FreePeerInv

IInv == TypeOK /\ LifeInv /\ ListInv

\* The rest of the list begins at h: it has not been freed and no link that a
\* walk may follow leads back to its first peer.
Rest(h) == h # NULL =>
  /\ mem[h] = "alloc" /\ cpc[h] = "done"
  /\ \A m \in Peer : Source(m) => next[m] # h

\* The list that QUIT tears down: the head, which is never reset, leads through
\* the peers s[1] to s[j] that free_peer has freed to the rest.
TornDown(j, s) ==
  /\ \A i, k \in 1..j : s[i] = s[k] => i = k
  /\ \A i \in 1..j : mem[s[i]] = "freed"
  /\ \A i \in 1..(j - 1) : next[s[i]] = s[i + 1]
  /\ j # 0 => peer_list = s[1]
  /\ Rest(IF j = 0 THEN peer_list ELSE next[s[j]])

TearDownInv == \E j \in Nat : \E s \in [1..j -> Peer] : TornDown(j, s)

-----------------------------------------------------------------------------
(***************************************************************************)
(* Each part is preserved by every step                                    *)
(***************************************************************************)

\* Every action keeps the variables in their types.
LEMMA TypeStep == TypeOK /\ [Next]_vars => TypeOK'
<1>. SUFFICES ASSUME TypeOK, [Next]_vars PROVE TypeOK'
  OBVIOUS
<1>. USE DEF TypeOK, PeerOrNull, MainPCs, ClientPCs
<1>. USE DEF MainAt, ClientAt, vars, heap, locks, mainVars, clientVars
<1>1. CASE Peers
  BY <1>1 DEF Peers
<1>2. CASE PrintPeerStep
  BY <1>2 DEF PrintPeerStep
<1>3. CASE PrintPeerEnd
  BY <1>3 DEF PrintPeerEnd, Prompt
<1>4. CASE GetPeerLock
  BY <1>4 DEF GetPeerLock, LockAndLoadHead
<1>5. CASE GetPeerStep
  BY <1>5 DEF GetPeerStep
<1>6. CASE GetPeerFound
  BY <1>6 DEF GetPeerFound, Prompt
<1>7. CASE GetPeerNone
  BY <1>7 DEF GetPeerNone
<1>8. CASE RemovePeerLock
  BY <1>8 DEF RemovePeerLock, LockAndLoadHead
<1>9. CASE RemovePeerStep
  BY <1>9 DEF RemovePeerStep
<1>10. CASE RemovePeerUnknown
  BY <1>10 DEF RemovePeerUnknown, Prompt
<1>11. CASE RemovePeerMatch
  BY <1>11 DEF RemovePeerMatch
<1>12. CASE RemovePeerUnlink
  BY <1>12 DEF RemovePeerUnlink
<1>13. CASE RemovePeerFree
  BY <1>13 DEF RemovePeerFree, CloseAndFree, Prompt
<1>14. CASE FreePeerLock
  BY <1>14 DEF FreePeerLock, LockAndLoadHead
<1>15. CASE FreePeerLoad
  BY <1>15 DEF FreePeerLoad
<1>16. CASE FreePeerNode
  BY <1>16 DEF FreePeerNode, CloseAndFree
<1>17. CASE FreePeerEnd
  BY <1>17 DEF FreePeerEnd
<1>18. CASE ExitMain
  BY <1>18 DEF ExitMain
<1>19. CASE Quit
  BY <1>19 DEF Quit, Begin
<1>20. CASE EndOfInput \/ CommandEnds
  BY <1>20 DEF EndOfInput, CommandEnds
<1>21. CASE Terminated
  BY <1>21 DEF Terminated
<1>22. ASSUME NEW a \in Addr, Connect(a) PROVE TypeOK'
  BY <1>22 DEF Connect, Begin
<1>23. ASSUME NEW a \in Addr, Disconnect(a) PROVE TypeOK'
  BY <1>23 DEF Disconnect, Begin
<1>24. ASSUME NEW p \in Peer, CreateClient(p) PROVE TypeOK'
  BY <1>24 DEF CreateClient, AllocateAndStart, Prompt
<1>25. ASSUME NEW p \in Peer, CreateClientFails(p) PROVE TypeOK'
  BY <1>25 DEF CreateClientFails, Prompt
<1>26. ASSUME NEW p \in Peer, ClientConnected(p) PROVE TypeOK'
  BY <1>26 DEF ClientConnected
<1>27. ASSUME NEW p \in Peer, ClientRefused(p) PROVE TypeOK'
  BY <1>27 DEF ClientRefused
<1>28. ASSUME NEW p \in Peer, ClientNoSocket(p) PROVE TypeOK'
  BY <1>28 DEF ClientNoSocket
<1>29. ASSUME NEW p \in Peer, ClientFree(p) PROVE TypeOK'
  BY <1>29 DEF ClientFree
<1>30. ASSUME NEW p \in Peer, ClientDoubleFree(p) PROVE TypeOK'
  BY <1>30 DEF ClientDoubleFree
<1>31. ASSUME NEW p \in Peer, AddPeerTestHead(p) PROVE TypeOK'
  BY <1>31 DEF AddPeerTestHead
<1>32. ASSUME NEW p \in Peer, AddPeerSetHead(p) PROVE TypeOK'
  BY <1>32 DEF AddPeerSetHead, AddPeerReturn
<1>33. ASSUME NEW p \in Peer, AddPeerLoadHead(p) PROVE TypeOK'
  BY <1>33 DEF AddPeerLoadHead
<1>34. ASSUME NEW p \in Peer, AddPeerTestNext(p) PROVE TypeOK'
  BY <1>34 DEF AddPeerTestNext, Live
<1>35. ASSUME NEW p \in Peer, AddPeerLoadNext(p) PROVE TypeOK'
  BY <1>35 DEF AddPeerLoadNext, Live
<1>36. ASSUME NEW p \in Peer, AddPeerLink(p) PROVE TypeOK'
  BY <1>36 DEF AddPeerLink, AddPeerReturn, Live
<1>37. ASSUME NEW p \in Peer, AddPeerFault(p) PROVE TypeOK'
  BY <1>37 DEF AddPeerFault
<1>38. CASE UNCHANGED vars
  BY <1>38 DEF vars
<1>. QED
  BY <1>1, <1>2, <1>3, <1>4, <1>5, <1>6, <1>7, <1>8, <1>9, <1>10,
     <1>11, <1>12, <1>13, <1>14, <1>15, <1>16, <1>17, <1>18, <1>19,
     <1>20, <1>21, <1>22, <1>23, <1>24, <1>25, <1>26, <1>27, <1>28,
     <1>29, <1>30, <1>31, <1>32, <1>33, <1>34, <1>35, <1>36, <1>37,
     <1>38
  DEF Next, Command, MainStep, ClientStep, ClientAttempt, AddPeerStep

\* The life of an object follows its client thread; the main thread frees
\* only what its cursor makes it free, which is published.
LEMMA LifeStep == TypeOK /\ LifeInv /\ ListInv /\ [Next]_vars => LifeInv'
<1>. SUFFICES ASSUME TypeOK, LifeInv, ListInv, [Next]_vars PROVE LifeInv'
  OBVIOUS
<1>. USE DEF LifeInv, TypeOK, PeerOrNull, MainPCs, ClientPCs
<1>. USE DEF MainAt, ClientAt, vars, heap, locks, mainVars, clientVars
<1>1. CASE Peers
  BY <1>1 DEF Peers
<1>2. CASE PrintPeerStep
  BY <1>2 DEF PrintPeerStep
<1>3. CASE PrintPeerEnd
  BY <1>3 DEF PrintPeerEnd, Prompt
<1>4. CASE GetPeerLock
  BY <1>4 DEF GetPeerLock, LockAndLoadHead
<1>5. CASE GetPeerStep
  BY <1>5 DEF GetPeerStep
<1>6. CASE GetPeerFound
  BY <1>6 DEF GetPeerFound, Prompt
<1>7. CASE GetPeerNone
  BY <1>7 DEF GetPeerNone
<1>8. CASE RemovePeerLock
  BY <1>8 DEF RemovePeerLock, LockAndLoadHead
<1>9. CASE RemovePeerStep
  BY <1>9 DEF RemovePeerStep
<1>10. CASE RemovePeerUnknown
  BY <1>10 DEF RemovePeerUnknown, Prompt
<1>11. CASE RemovePeerMatch
  BY <1>11 DEF RemovePeerMatch
<1>12. CASE RemovePeerUnlink
  BY <1>12 DEF RemovePeerUnlink
<1>13. CASE RemovePeerFree
  BY <1>13 DEF RemovePeerFree, CloseAndFree, Prompt, ListInv, CursorInv, Published
<1>14. CASE FreePeerLock
  BY <1>14 DEF FreePeerLock, LockAndLoadHead
<1>15. CASE FreePeerLoad
  BY <1>15 DEF FreePeerLoad
<1>16. CASE FreePeerNode
  BY <1>16 DEF FreePeerNode, CloseAndFree, ListInv, CursorInv, Published
<1>17. CASE FreePeerEnd
  BY <1>17 DEF FreePeerEnd
<1>18. CASE ExitMain
  BY <1>18 DEF ExitMain
<1>19. CASE Quit
  BY <1>19 DEF Quit, Begin
<1>20. CASE EndOfInput \/ CommandEnds
  BY <1>20 DEF EndOfInput, CommandEnds
<1>21. CASE Terminated
  BY <1>21 DEF Terminated
<1>22. ASSUME NEW a \in Addr, Connect(a) PROVE LifeInv'
  BY <1>22 DEF Connect, Begin
<1>23. ASSUME NEW a \in Addr, Disconnect(a) PROVE LifeInv'
  BY <1>23 DEF Disconnect, Begin
<1>24. ASSUME NEW p \in Peer, CreateClient(p) PROVE LifeInv'
  BY <1>24 DEF CreateClient, AllocateAndStart, Prompt
<1>25. ASSUME NEW p \in Peer, CreateClientFails(p) PROVE LifeInv'
  BY <1>25 DEF CreateClientFails, Prompt
<1>26. ASSUME NEW p \in Peer, ClientConnected(p) PROVE LifeInv'
  BY <1>26 DEF ClientConnected
<1>27. ASSUME NEW p \in Peer, ClientRefused(p) PROVE LifeInv'
  BY <1>27 DEF ClientRefused
<1>28. ASSUME NEW p \in Peer, ClientNoSocket(p) PROVE LifeInv'
  BY <1>28 DEF ClientNoSocket
<1>29. ASSUME NEW p \in Peer, ClientFree(p) PROVE LifeInv'
  BY <1>29 DEF ClientFree
<1>30. ASSUME NEW p \in Peer, ClientDoubleFree(p) PROVE LifeInv'
  BY <1>30 DEF ClientDoubleFree
<1>31. ASSUME NEW p \in Peer, AddPeerTestHead(p) PROVE LifeInv'
  BY <1>31 DEF AddPeerTestHead
<1>32. ASSUME NEW p \in Peer, AddPeerSetHead(p) PROVE LifeInv'
  BY <1>32 DEF AddPeerSetHead, AddPeerReturn
<1>33. ASSUME NEW p \in Peer, AddPeerLoadHead(p) PROVE LifeInv'
  BY <1>33 DEF AddPeerLoadHead
<1>34. ASSUME NEW p \in Peer, AddPeerTestNext(p) PROVE LifeInv'
  BY <1>34 DEF AddPeerTestNext, Live
<1>35. ASSUME NEW p \in Peer, AddPeerLoadNext(p) PROVE LifeInv'
  BY <1>35 DEF AddPeerLoadNext, Live
<1>36. ASSUME NEW p \in Peer, AddPeerLink(p) PROVE LifeInv'
  BY <1>36 DEF AddPeerLink, AddPeerReturn, Live
<1>37. ASSUME NEW p \in Peer, AddPeerFault(p) PROVE LifeInv'
  BY <1>37 DEF AddPeerFault
<1>38. CASE UNCHANGED vars
  BY <1>38 DEF vars
<1>. QED
  BY <1>1, <1>2, <1>3, <1>4, <1>5, <1>6, <1>7, <1>8, <1>9, <1>10,
     <1>11, <1>12, <1>13, <1>14, <1>15, <1>16, <1>17, <1>18, <1>19,
     <1>20, <1>21, <1>22, <1>23, <1>24, <1>25, <1>26, <1>27, <1>28,
     <1>29, <1>30, <1>31, <1>32, <1>33, <1>34, <1>35, <1>36, <1>37,
     <1>38
  DEF Next, Command, MainStep, ClientStep, ClientAttempt, AddPeerStep

\* The shape of the list.  A client thread only adds a link to its own peer,
\* which no pointer leads to before (PointerInv); remove_peer bypasses a peer
\* with a single predecessor (UniqueInv, RemoveInv), whose successor then has
\* a single predecessor again (UnlinkInv).
LEMMA ListStep == TypeOK /\ LifeInv /\ ListInv /\ [Next]_vars => ListInv'
<1>. SUFFICES ASSUME TypeOK, LifeInv, ListInv, [Next]_vars PROVE ListInv'
  OBVIOUS
<1>. USE NullAssumption
     DEF TypeOK, PeerOrNull, MainPCs, ClientPCs, LifeInv, Published, Source, Quitting
<1>. USE DEF ListInv, PointerInv, UniqueInv, CursorInv, RemoveInv, UnlinkInv,
             FreeRemovedInv, FreePeerInv
<1>. USE DEF MainAt, ClientAt, vars, heap, locks, mainVars, clientVars
<1>1. CASE Peers
  BY <1>1 DEF Peers
<1>2. CASE PrintPeerStep
  BY <1>2 DEF PrintPeerStep
<1>3. CASE PrintPeerEnd
  BY <1>3 DEF PrintPeerEnd, Prompt
<1>4. CASE GetPeerLock
  BY <1>4 DEF GetPeerLock, LockAndLoadHead
<1>5. CASE GetPeerStep
  BY <1>5 DEF GetPeerStep
<1>6. CASE GetPeerFound
  BY <1>6 DEF GetPeerFound, Prompt
<1>7. CASE GetPeerNone
  BY <1>7 DEF GetPeerNone
<1>8. CASE RemovePeerLock
  BY <1>8 DEF RemovePeerLock, LockAndLoadHead
<1>9. CASE RemovePeerStep
  <2>1. PointerInv'
    BY <1>9 DEF RemovePeerStep
  <2>2. UniqueInv'
    BY <1>9 DEF RemovePeerStep
  <2>3. CursorInv'
    BY <1>9 DEF RemovePeerStep
  <2>4. RemoveInv'
    BY <1>9 DEF RemovePeerStep
  <2>5. UnlinkInv'
    BY <1>9 DEF RemovePeerStep
  <2>6. FreeRemovedInv'
    BY <1>9 DEF RemovePeerStep
  <2>7. FreePeerInv'
    BY <1>9 DEF RemovePeerStep
  <2>. QED
    BY <2>1, <2>2, <2>3, <2>4, <2>5, <2>6, <2>7
<1>10. CASE RemovePeerUnknown
  BY <1>10 DEF RemovePeerUnknown, Prompt
<1>11. CASE RemovePeerMatch
  <2>1. PointerInv'
    BY <1>11 DEF RemovePeerMatch
  <2>2. UniqueInv'
    BY <1>11 DEF RemovePeerMatch
  <2>3. CursorInv'
    BY <1>11 DEF RemovePeerMatch
  <2>4. RemoveInv'
    BY <1>11 DEF RemovePeerMatch
  <2>5. UnlinkInv'
    BY <1>11 DEF RemovePeerMatch
  <2>6. FreeRemovedInv'
    BY <1>11 DEF RemovePeerMatch
  <2>7. FreePeerInv'
    BY <1>11 DEF RemovePeerMatch
  <2>. QED
    BY <2>1, <2>2, <2>3, <2>4, <2>5, <2>6, <2>7
<1>12. CASE RemovePeerUnlink
  <2>1. PointerInv'
    BY <1>12 DEF RemovePeerUnlink
  <2>2. UniqueInv'
    BY <1>12 DEF RemovePeerUnlink
  <2>3. CursorInv'
    BY <1>12 DEF RemovePeerUnlink
  <2>4. RemoveInv'
    BY <1>12 DEF RemovePeerUnlink
  <2>5. UnlinkInv'
    BY <1>12 DEF RemovePeerUnlink
  <2>6. FreeRemovedInv'
    BY <1>12 DEF RemovePeerUnlink
  <2>7. FreePeerInv'
    BY <1>12 DEF RemovePeerUnlink
  <2>. QED
    BY <2>1, <2>2, <2>3, <2>4, <2>5, <2>6, <2>7
<1>13. CASE RemovePeerFree
  <2>1. PointerInv'
    BY <1>13 DEF RemovePeerFree, CloseAndFree, Prompt
  <2>2. UniqueInv'
    BY <1>13 DEF RemovePeerFree, CloseAndFree, Prompt
  <2>3. CursorInv'
    BY <1>13 DEF RemovePeerFree, CloseAndFree, Prompt
  <2>4. RemoveInv'
    BY <1>13 DEF RemovePeerFree, CloseAndFree, Prompt
  <2>5. UnlinkInv'
    BY <1>13 DEF RemovePeerFree, CloseAndFree, Prompt
  <2>6. FreeRemovedInv'
    BY <1>13 DEF RemovePeerFree, CloseAndFree, Prompt
  <2>7. FreePeerInv'
    BY <1>13 DEF RemovePeerFree, CloseAndFree, Prompt
  <2>. QED
    BY <2>1, <2>2, <2>3, <2>4, <2>5, <2>6, <2>7
<1>14. CASE FreePeerLock
  BY <1>14 DEF FreePeerLock, LockAndLoadHead
<1>15. CASE FreePeerLoad
  <2>1. PointerInv'
    BY <1>15 DEF FreePeerLoad
  <2>2. UniqueInv'
    BY <1>15 DEF FreePeerLoad
  <2>3. CursorInv'
    BY <1>15 DEF FreePeerLoad
  <2>4. RemoveInv'
    BY <1>15 DEF FreePeerLoad
  <2>5. UnlinkInv'
    BY <1>15 DEF FreePeerLoad
  <2>6. FreeRemovedInv'
    BY <1>15 DEF FreePeerLoad
  <2>7. FreePeerInv'
    BY <1>15 DEF FreePeerLoad
  <2>. QED
    BY <2>1, <2>2, <2>3, <2>4, <2>5, <2>6, <2>7
<1>16. CASE FreePeerNode
  <2>1. PointerInv'
    BY <1>16 DEF FreePeerNode, CloseAndFree
  <2>2. UniqueInv'
    BY <1>16 DEF FreePeerNode, CloseAndFree
  <2>3. CursorInv'
    BY <1>16 DEF FreePeerNode, CloseAndFree
  <2>4. RemoveInv'
    BY <1>16 DEF FreePeerNode, CloseAndFree
  <2>5. UnlinkInv'
    BY <1>16 DEF FreePeerNode, CloseAndFree
  <2>6. FreeRemovedInv'
    BY <1>16 DEF FreePeerNode, CloseAndFree
  <2>7. FreePeerInv'
    BY <1>16 DEF FreePeerNode, CloseAndFree
  <2>. QED
    BY <2>1, <2>2, <2>3, <2>4, <2>5, <2>6, <2>7
<1>17. CASE FreePeerEnd
  BY <1>17 DEF FreePeerEnd
<1>18. CASE ExitMain
  BY <1>18 DEF ExitMain
<1>19. CASE Quit
  BY <1>19 DEF Quit, Begin
<1>20. CASE EndOfInput \/ CommandEnds
  BY <1>20 DEF EndOfInput, CommandEnds
<1>21. CASE Terminated
  BY <1>21 DEF Terminated
<1>22. ASSUME NEW a \in Addr, Connect(a) PROVE ListInv'
  BY <1>22 DEF Connect, Begin
<1>23. ASSUME NEW a \in Addr, Disconnect(a) PROVE ListInv'
  BY <1>23 DEF Disconnect, Begin
<1>24. ASSUME NEW p \in Peer, CreateClient(p) PROVE ListInv'
  BY <1>24 DEF CreateClient, AllocateAndStart, Prompt
<1>25. ASSUME NEW p \in Peer, CreateClientFails(p) PROVE ListInv'
  BY <1>25 DEF CreateClientFails, Prompt
<1>26. ASSUME NEW p \in Peer, ClientConnected(p) PROVE ListInv'
  BY <1>26 DEF ClientConnected
<1>27. ASSUME NEW p \in Peer, ClientRefused(p) PROVE ListInv'
  BY <1>27 DEF ClientRefused
<1>28. ASSUME NEW p \in Peer, ClientNoSocket(p) PROVE ListInv'
  BY <1>28 DEF ClientNoSocket
<1>29. ASSUME NEW p \in Peer, ClientFree(p) PROVE ListInv'
  BY <1>29 DEF ClientFree
<1>30. ASSUME NEW p \in Peer, ClientDoubleFree(p) PROVE ListInv'
  BY <1>30 DEF ClientDoubleFree
<1>31. ASSUME NEW p \in Peer, AddPeerTestHead(p) PROVE ListInv'
  BY <1>31 DEF AddPeerTestHead
<1>32. ASSUME NEW p \in Peer, AddPeerSetHead(p) PROVE ListInv'
  <2>1. PointerInv'
    BY <1>32 DEF AddPeerSetHead, AddPeerReturn
  <2>2. UniqueInv'
    BY <1>32 DEF AddPeerSetHead, AddPeerReturn
  <2>3. CursorInv'
    BY <1>32 DEF AddPeerSetHead, AddPeerReturn
  <2>4. RemoveInv'
    BY <1>32 DEF AddPeerSetHead, AddPeerReturn
  <2>5. UnlinkInv'
    BY <1>32 DEF AddPeerSetHead, AddPeerReturn
  <2>6. FreeRemovedInv'
    BY <1>32 DEF AddPeerSetHead, AddPeerReturn
  <2>7. FreePeerInv'
    BY <1>32 DEF AddPeerSetHead, AddPeerReturn
  <2>. QED
    BY <2>1, <2>2, <2>3, <2>4, <2>5, <2>6, <2>7
<1>33. ASSUME NEW p \in Peer, AddPeerLoadHead(p) PROVE ListInv'
  BY <1>33 DEF AddPeerLoadHead
<1>34. ASSUME NEW p \in Peer, AddPeerTestNext(p) PROVE ListInv'
  BY <1>34 DEF AddPeerTestNext, Live
<1>35. ASSUME NEW p \in Peer, AddPeerLoadNext(p) PROVE ListInv'
  BY <1>35 DEF AddPeerLoadNext, Live
<1>36. ASSUME NEW p \in Peer, AddPeerLink(p) PROVE ListInv'
  <2>1. PointerInv'
    BY <1>36 DEF AddPeerLink, AddPeerReturn, Live
  <2>2. UniqueInv'
    BY <1>36 DEF AddPeerLink, AddPeerReturn, Live
  <2>3. CursorInv'
    BY <1>36 DEF AddPeerLink, AddPeerReturn, Live
  <2>4. RemoveInv'
    BY <1>36 DEF AddPeerLink, AddPeerReturn, Live
  <2>5. UnlinkInv'
    BY <1>36 DEF AddPeerLink, AddPeerReturn, Live
  <2>6. FreeRemovedInv'
    BY <1>36 DEF AddPeerLink, AddPeerReturn, Live
  <2>7. FreePeerInv'
    BY <1>36 DEF AddPeerLink, AddPeerReturn, Live
  <2>. QED
    BY <2>1, <2>2, <2>3, <2>4, <2>5, <2>6, <2>7
<1>37. ASSUME NEW p \in Peer, AddPeerFault(p) PROVE ListInv'
  BY <1>37 DEF AddPeerFault
<1>38. CASE UNCHANGED vars
  BY <1>38 DEF vars
<1>. QED
  BY <1>1, <1>2, <1>3, <1>4, <1>5, <1>6, <1>7, <1>8, <1>9, <1>10,
     <1>11, <1>12, <1>13, <1>14, <1>15, <1>16, <1>17, <1>18, <1>19,
     <1>20, <1>21, <1>22, <1>23, <1>24, <1>25, <1>26, <1>27, <1>28,
     <1>29, <1>30, <1>31, <1>32, <1>33, <1>34, <1>35, <1>36, <1>37,
     <1>38
  DEF Next, Command, MainStep, ClientStep, ClientAttempt, AddPeerStep

-----------------------------------------------------------------------------
(***************************************************************************)
(* Theorems                                                                *)
(***************************************************************************)

\* The inductive invariant holds in the first state, with no object
\* allocated and the main thread at the prompt.
LEMMA InitIInv == Init => IInv
  BY NullAssumption
  DEF Init, IInv, TypeOK, PeerOrNull, MainPCs, ClientPCs, LifeInv, ListInv, PointerInv,
      UniqueInv, CursorInv, RemoveInv, UnlinkInv, FreeRemovedInv, FreePeerInv,
      Published, Source, Quitting

\* The inductive invariant, of every behaviour of the main thread and any
\* number of client threads.
THEOREM Invariance == Spec => []IInv
<1>1. Init => IInv
  BY InitIInv
<1>2. IInv /\ [Next]_vars => IInv'
  BY TypeStep, LifeStep, ListStep DEF IInv
<1>. QED
  BY <1>1, <1>2, PTL DEF Spec

\* Every variable keeps its type: in particular no pointer is ever
\* uninitialised.
THEOREM TypeCorrect == Spec => []TypeOK
<1>1. IInv => TypeOK
  BY DEF IInv
<1>. QED
  BY <1>1, Invariance, PTL

\* The walks of print_peer, get_peer, remove_peer and free_peer never touch
\* a freed peer and never free one twice, whatever the client threads do.
THEOREM MainThreadSafe == Spec => []MainDerefsLive
<1>1. IInv => MainDerefsLive
  BY NullAssumption
  DEF IInv, ListInv, CursorInv, RemoveInv, MainDerefsLive, Published, Live, TypeOK, PeerOrNull
<1>. QED
  BY <1>1, Invariance, PTL

\* No peer is freed under its own client thread.
THEOREM ClientOwnsPeer == Spec => []FreedAfterClient
<1>1. IInv => FreedAfterClient
  BY DEF IInv, LifeInv, FreedAfterClient
<1>. QED
  BY <1>1, Invariance, PTL

\* No socket outlives the peer it was opened for.
THEOREM SocketsClosed == Spec => []NoOpenFreed
<1>1. IInv => NoOpenFreed
  BY DEF IInv, LifeInv, NoOpenFreed
<1>. QED
  BY <1>1, Invariance, PTL

\* A listed peer is freed only by the command that says so.
THEOREM FreedByCommand == Spec => FreedOnCommand
<1>1. IInv /\ [Next]_vars =>
        [\A p \in Peer :
           cpc[p] = "done" /\ mem[p] = "alloc" /\ mem'[p] = "freed" =>
             \/ mpc = "free_removed" /\ addr[p] = marg
             \/ mpc = "free_node"]_vars
  <2>. SUFFICES ASSUME IInv, Next, NEW p \in Peer,
                       cpc[p] = "done", mem[p] = "alloc", mem'[p] = "freed"
                PROVE  \/ mpc = "free_removed" /\ addr[p] = marg
                       \/ mpc = "free_node"
    OBVIOUS
  <2>. USE DEF IInv, TypeOK, PeerOrNull, MainAt, ClientAt
  <2>1. CASE RemovePeerFree
    BY <2>1 DEF RemovePeerFree, CloseAndFree, ListInv, CursorInv, Published
  <2>2. CASE FreePeerNode
    BY <2>2 DEF FreePeerNode
  <2>3. ASSUME NEW q \in Peer, mem[q] = "fresh" \/ cpc[q] # "done",
               mem' = [mem EXCEPT ![q] = "freed"] \/ mem' = [mem EXCEPT ![q] = "alloc"]
        PROVE  FALSE
    BY <2>3
  <2>4. ~UNCHANGED mem
    OBVIOUS
  <2>. QED
    BY <2>1, <2>2, <2>3, <2>4
    DEF Next, Command, MainStep, ClientStep, ClientAttempt, AddPeerStep, heap, vars,
        Peers, PrintPeerStep, PrintPeerEnd, Connect, Disconnect, Quit, Begin, EndOfInput,
        CommandEnds,
        GetPeerLock, RemovePeerLock, FreePeerLock, LockAndLoadHead, GetPeerStep,
        GetPeerFound, GetPeerNone, CreateClient, AllocateAndStart, CreateClientFails,
        RemovePeerStep, RemovePeerUnknown, RemovePeerMatch, RemovePeerUnlink,
        FreePeerLoad, FreePeerEnd, ExitMain, ClientConnected, ClientRefused,
        ClientNoSocket, ClientFree, ClientDoubleFree, AddPeerTestHead, AddPeerSetHead,
        AddPeerLoadHead, AddPeerTestNext, AddPeerLoadNext, AddPeerLink, AddPeerFault,
        Terminated
<1>. QED
  BY <1>1, Invariance, PTL DEF Spec, FreedOnCommand

\* Over its whole life a peer object is typed, freed after its thread is
\* through with it, and never freed with its socket open.
THEOREM PeersSafeCorrect == Spec => []PeersSafe
<1>. QED
  BY TypeCorrect, ClientOwnsPeer, SocketsClosed, PTL DEF PeersSafe

-----------------------------------------------------------------------------
(***************************************************************************)
(* The list while QUIT tears it down                                       *)
(***************************************************************************)

\* What every step but the three that write a link or free a listed peer keeps
\* of the list.
KeepsLinks ==
  /\ UNCHANGED <<peer_list, next>>
  /\ \A m \in Peer : /\ mem'[m] = "alloc" => mem[m] = "alloc"
                     /\ mem[m] = "freed" => mem'[m] = "freed"
                     /\ cpc[m] = "done" => cpc'[m] = "done" /\ mem'[m] = mem[m]

\* After QUIT has begun only client threads and free_peer run.
LEMMA TearDownSteps ==
  ASSUME IInv, Quitting, [Next]_vars
  PROVE  /\ Quitting'
         /\ \/ KeepsLinks \/ FreePeerNode
            \/ \E p \in Peer : AddPeerSetHead(p) \/ AddPeerLink(p)
<1>. DEFINE Goal == Quitting' /\ KeepsLinks
<1>. USE DEF Quitting, KeepsLinks, MainAt, ClientAt, heap, locks, mainVars, clientVars
<1>0. /\ \A p \in Peer : mem[p] = "fresh" => cpc[p] = "none"
      /\ mem \in [Peer -> {"fresh", "alloc", "freed"}] /\ cpc \in [Peer -> ClientPCs]
  BY DEF IInv, LifeInv, TypeOK
<1>1. CASE FreePeerLoad
  BY <1>1 DEF FreePeerLoad
<1>2. CASE FreePeerEnd
  BY <1>2 DEF FreePeerEnd
<1>3. CASE ExitMain
  BY <1>3 DEF ExitMain
<1>4. CASE Terminated \/ UNCHANGED vars
  BY <1>4 DEF Terminated, vars
<1>5. ASSUME NEW p \in Peer, ClientAttempt(p) PROVE Goal
  BY <1>0, <1>5 DEF ClientAttempt, ClientConnected, ClientRefused, ClientNoSocket
<1>6. ASSUME NEW p \in Peer, ClientFree(p) \/ ClientDoubleFree(p) PROVE Goal
  BY <1>0, <1>6 DEF ClientFree, ClientDoubleFree
<1>7. ASSUME NEW p \in Peer,
             \/ AddPeerTestHead(p) \/ AddPeerLoadHead(p) \/ AddPeerTestNext(p)
             \/ AddPeerLoadNext(p) \/ AddPeerFault(p)
      PROVE Goal
  BY <1>0, <1>7 DEF AddPeerTestHead, AddPeerLoadHead, AddPeerTestNext, AddPeerLoadNext, AddPeerFault
<1>8. ASSUME NEW p \in Peer, AddPeerSetHead(p) \/ AddPeerLink(p) PROVE Quitting'
  BY <1>8 DEF AddPeerSetHead, AddPeerLink
<1>9. CASE FreePeerNode
  BY <1>9 DEF FreePeerNode
<1>10. ~Command
  BY DEF Command, Peers, Connect, Disconnect, Quit, Begin, EndOfInput, CommandEnds
<1>11. CASE MainStep
  BY <1>1, <1>2, <1>3, <1>9, <1>11
  DEF MainStep, PrintPeerStep, PrintPeerEnd, GetPeerLock, GetPeerStep, GetPeerFound, GetPeerNone,
      CreateClient, AllocateAndStart, CreateClientFails, RemovePeerLock, RemovePeerStep,
      RemovePeerUnknown, RemovePeerMatch, RemovePeerUnlink, RemovePeerFree, FreePeerLock,
      LockAndLoadHead
<1>12. ASSUME NEW p \in Peer, ClientStep(p)
       PROVE  Goal \/ (Quitting' /\ (AddPeerSetHead(p) \/ AddPeerLink(p)))
  <2>1. CASE AddPeerSetHead(p) \/ AddPeerLink(p)
    BY <1>8, <2>1
  <2>2. CASE ~(AddPeerSetHead(p) \/ AddPeerLink(p))
    <3>. HIDE DEF Goal
    <3>. QED
      BY <1>5, <1>6, <1>7, <1>12, <2>2, Zenon DEF ClientStep, AddPeerStep
  <2>. QED
    BY <2>1, <2>2
<1>. QED
  BY <1>4, <1>10, <1>11, <1>12 DEF Next

\* QUIT begins with the lock of free_peer.
LEMMA QuitEnters == [Next]_vars /\ ~Quitting /\ Quitting' => FreePeerLock
<1>. USE DEF Quitting, MainAt, vars, mainVars
<1>1. ASSUME NEW p \in Peer, ClientStep(p) PROVE UNCHANGED mpc
  BY <1>1 DEF ClientStep, ClientAttempt, AddPeerStep, ClientConnected, ClientRefused,
     ClientNoSocket, ClientFree, ClientDoubleFree, AddPeerTestHead, AddPeerSetHead,
     AddPeerLoadHead, AddPeerTestNext, AddPeerLoadNext, AddPeerLink, AddPeerFault
<1>2. Command => mpc' = mpc \/ mpc' \notin {"free_peer", "free_node", "quit"}
  BY DEF Command, Peers, Connect, Disconnect, Quit, Begin, EndOfInput, CommandEnds
<1>3. MainStep /\ mpc \notin {"free_peer", "free_node", "quit"} /\ ~FreePeerLock =>
        mpc' \notin {"free_peer", "free_node", "quit"}
  BY DEF MainStep, PrintPeerStep, PrintPeerEnd, GetPeerLock, GetPeerStep, GetPeerFound,
     GetPeerNone, CreateClient, AllocateAndStart, CreateClientFails, RemovePeerLock,
     RemovePeerStep, RemovePeerUnknown, RemovePeerMatch, RemovePeerUnlink, RemovePeerFree,
     LockAndLoadHead, FreePeerLoad, FreePeerNode, FreePeerEnd, ExitMain, Prompt
<1>. QED
  BY <1>1, <1>2, <1>3 DEF Next, Terminated

\* Before QUIT the whole list is the rest.
LEMMA RestBefore == IInv /\ ~Quitting => Rest(peer_list)
  BY DEF IInv, ListInv, PointerInv, UniqueInv, Rest, TypeOK, PeerOrNull

\* If nothing has been freed yet, nothing is before the rest.
LEMMA RestIsTornDown == Rest(peer_list) => TearDownInv
<1>. SUFFICES ASSUME Rest(peer_list) PROVE TearDownInv
  OBVIOUS
<1>. DEFINE s == [i \in 1..0 |-> NULL]
<1>1. s \in [1..0 -> Peer] /\ TornDown(0, s)
  BY DEF TornDown
<1>. QED
  BY <1>1 DEF TearDownInv

\* free_peer frees the first peer of the rest or, when a client thread has
\* overwritten the link to it, a peer that the list has lost.
LEMMA TearDownStep == IInv /\ TearDownInv /\ [Next]_vars /\ IInv' => TearDownInv'
<1>. SUFFICES ASSUME IInv, TearDownInv, [Next]_vars, IInv' PROVE TearDownInv'
  OBVIOUS
<1>. USE NullAssumption
<1>1. IInv' /\ ~Quitting' => Rest(peer_list)'
  BY RestBefore, PTL
<1>2. Rest(peer_list)' => TearDownInv'
  BY RestIsTornDown, PTL
<1>3. CASE ~Quitting'
  BY <1>1, <1>2, <1>3
<1>4. CASE ~Quitting /\ Quitting'
  <2>1. FreePeerLock
    BY <1>4, QuitEnters
  <2>2. Rest(peer_list)'
    BY <1>4, <2>1, RestBefore
    DEF FreePeerLock, LockAndLoadHead, MainAt, Rest, Source, heap, clientVars
  <2>. QED
    BY <1>2, <2>2
<1>5. CASE Quitting
  <2>1. PICK j \in Nat : \E s \in [1..j -> Peer] : TornDown(j, s)
    BY DEF TearDownInv
  <2>2. PICK s \in [1..j -> Peer] : TornDown(j, s)
    BY <2>1
  <2>. DEFINE h == IF j = 0 THEN peer_list ELSE next[s[j]]
  <2>3. /\ \A m \in Peer : Source(m) <=> mem[m] = "alloc"
        /\ \A m \in Peer : Source(m)' <=> mem'[m] = "alloc"
        /\ Quitting'
    BY <1>5, TearDownSteps DEF Source, Quitting
  <2>4. /\ TypeOK /\ h \in PeerOrNull
        /\ h # NULL => /\ mem[h] = "alloc" /\ cpc[h] = "done"
                       /\ \A m \in Peer : mem[m] = "alloc" => next[m] # h
        /\ \A i \in 1..j : mem[s[i]] = "freed"
        /\ \A i, k \in 1..j : s[i] = s[k] => i = k
        /\ \A i \in 1..(j - 1) : next[s[i]] = s[i + 1]
        /\ j # 0 => peer_list = s[1]
    BY <2>2, <2>3 DEF IInv, TypeOK, TornDown, Rest, PeerOrNull
  <2>5. CASE KeepsLinks
    <3>1. TornDown(j, s)'
      BY <2>2, <2>3, <2>4, <2>5 DEF KeepsLinks, TornDown, Rest, PeerOrNull
    <3>. QED
      BY <3>1 DEF TearDownInv
  <2>6. ASSUME NEW p \in Peer, AddPeerSetHead(p) PROVE TearDownInv'
    <3>1. /\ mem[p] = "alloc" /\ cpc[p] # "done" /\ peer_list' = p /\ mem' = mem /\ next' = next
          /\ cpc'[p] = "done"
      BY <2>4, <2>6 DEF IInv, LifeInv, AddPeerSetHead, AddPeerReturn, ClientAt, TypeOK
    <3>2. Rest(peer_list)'
      BY <2>3, <3>1 DEF Rest, IInv, ListInv, PointerInv
    <3>. QED
      BY <1>2, <3>2
  <2>7. ASSUME NEW p \in Peer, AddPeerLink(p) PROVE TearDownInv'
    <3>1. /\ mem[cur[p]] = "alloc" /\ cur[p] \in Peer /\ cpc[p] # "done"
          /\ peer_list' = peer_list /\ mem' = mem
          /\ next' = [next EXCEPT ![cur[p]] = p]
          /\ \A m \in Peer : cpc[m] = "done" => cpc'[m] = "done"
      BY <2>4, <2>7 DEF AddPeerLink, AddPeerReturn, ClientAt, Live, TypeOK, PeerOrNull
    <3>2. \A i \in 1..j : next'[s[i]] = next[s[i]]
      BY <2>4, <3>1 DEF TypeOK
    <3>3. h' = h
      BY <3>1, <3>2
    <3>4. \A m \in Peer : next'[m] = next[m] \/ next'[m] = p
      BY <2>4, <3>1 DEF TypeOK
    <3>5. h # NULL => mem'[h] = "alloc" /\ cpc'[h] = "done"
                      /\ \A m \in Peer : mem'[m] = "alloc" => next'[m] # h
      BY <2>4, <3>1, <3>4 DEF PeerOrNull
    <3>6. TornDown(j, s)'
      BY <2>3, <2>4, <3>1, <3>2, <3>3, <3>5 DEF TornDown, Rest
    <3>. QED
      BY <3>6 DEF TearDownInv
  <2>8. CASE FreePeerNode
    <3>1. /\ mcur \in Peer /\ mem[mcur] = "alloc" /\ cpc[mcur] = "done"
          /\ mem' = [mem EXCEPT ![mcur] = "freed"]
          /\ UNCHANGED <<peer_list, next, cpc>>
          /\ \A m \in Peer : mem[m] = "alloc" => next[m] # mcur
      BY <2>8 DEF FreePeerNode, CloseAndFree, MainAt, IInv, ListInv, CursorInv, FreePeerInv,
                  Published, clientVars
    <3>2. CASE h = mcur
      <4>. DEFINE t == [i \in 1..(j + 1) |-> IF i = j + 1 THEN mcur ELSE s[i]]
      <4>1. PICK x : x = mcur
        OBVIOUS
      <4>. DEFINE u == [i \in 1..(j + 1) |-> IF i = j + 1 THEN x ELSE s[i]]
      <4>2. u \in [1..(j + 1) -> Peer] /\ u[j + 1] = x /\ \A i \in 1..j : u[i] = s[i]
        BY <3>1, <4>1
      <4>. HIDE DEF u
      <4>3. next[x] # NULL =>
              /\ next[x] \in Peer /\ next[x] # x
              /\ mem[next[x]] = "alloc" /\ cpc[next[x]] = "done"
              /\ \A m \in Peer : mem[m] = "alloc" /\ m # x => next[m] # next[x]
        BY <2>3, <2>4, <3>1, <4>1 DEF IInv, ListInv, PointerInv, UniqueInv, TypeOK, PeerOrNull
      <4>4. Rest(next[x])'
        BY <2>3, <2>4, <3>1, <4>1, <4>3 DEF Rest, TypeOK
      <4>5. /\ \A i, k \in 1..(j + 1) : u[i] = u[k] => i = k
            /\ \A i \in 1..(j + 1) : mem'[u[i]] = "freed"
        BY <2>4, <3>1, <4>1, <4>2 DEF TypeOK
      <4>6. \A i \in 1..j : next'[u[i]] = u[i + 1]
        BY <2>4, <3>1, <3>2, <4>1, <4>2
      <4>7. peer_list' = u[1]
        BY <2>4, <3>1, <3>2, <4>1, <4>2
      <4>8. TornDown(j + 1, u)'
        BY <4>1, <4>2, <4>4, <4>5, <4>6, <4>7 DEF TornDown
      <4>. QED
        BY <4>2, <4>8 DEF TearDownInv
    <3>3. CASE h # mcur
      <4>1. TornDown(j, s)'
        BY <2>2, <2>3, <2>4, <3>1, <3>3 DEF TornDown, Rest, TypeOK
      <4>. QED
        BY <4>1 DEF TearDownInv
    <3>. QED
      BY <3>2, <3>3
  <2>. QED
    BY <1>5, <2>5, <2>6, <2>7, <2>8, TearDownSteps
<1>. QED
  BY <1>3, <1>4, <1>5

\* The order in which QUIT frees the listed peers, of any behaviour.
THEOREM TearDown == Spec => []TearDownInv
<1>1. Init => TearDownInv
  BY InitIInv, RestBefore, RestIsTornDown DEF Init, Quitting
<1>. QED
  BY <1>1, TearDownStep, Invariance, PTL DEF Spec

-----------------------------------------------------------------------------
(***************************************************************************)
(* The walk from the head                                                  *)
(***************************************************************************)

\* Induction over the natural numbers, from the well-foundedness of <.
LEMMA Induction ==
  ASSUME NEW Q \in SUBSET Nat, 0 \in Q, \A n \in Q : n + 1 \in Q
  PROVE  Q = Nat
<1>. DEFINE less == {p \in Nat \X Nat : p[1] < p[2]}
            T == Nat \ Q
<1>1. IsWellFoundedOn(less, Nat)
  <2>1. less = OpToRel(<, Nat)
    BY DEF OpToRel
  <2>. QED
    BY <2>1, NatLessThanWellFounded
<1>. SUFFICES ASSUME T # {} PROVE FALSE
  OBVIOUS
<1>2. PICK x \in T : \A y \in T : <<y, x>> \notin less
  <2>1. T \subseteq Nat
    OBVIOUS
  <2>. HIDE DEF less, T
  <2>. QED
    BY <1>1, <2>1, WFMin, Zenon
<1>3. x # 0 /\ x - 1 \in T
  OBVIOUS
<1>4. <<x - 1, x>> \in Nat \X Nat /\ <<x - 1, x>>[1] < <<x - 1, x>>[2]
  BY <1>3
<1>5. <<x - 1, x>> \in less
  BY <1>4
<1>. QED
  BY <1>2, <1>3, <1>5

\* One step of a walk f from h along the links l, and the walk of n steps.
StepOf(h, l, f, k) == IF k = 0 THEN h ELSE IF f[k - 1] = NULL THEN NULL ELSE l[f[k - 1]]
WalkOf(h, l, n, f) == f = [k \in 0..n |-> StepOf(h, l, f, k)]

\* A walk of any length exists, so that what CHOOSE picks is one.
LEMMA WalkExists ==
  ASSUME NEW h, NEW l
  PROVE  \A n \in Nat : \E f : WalkOf(h, l, n, f)
<1>. DEFINE Q == {n \in Nat : \E f : WalkOf(h, l, n, f)}
<1>1. 0 \in Q
  <2>. DEFINE f == [k \in 0..0 |-> h]
  <2>1. \A k \in 0..0 : StepOf(h, l, f, k) = h
    BY DEF StepOf
  <2>2. WalkOf(h, l, 0, f)
    BY <2>1 DEF WalkOf
  <2>. QED
    BY <2>2
<1>2. ASSUME NEW n \in Q PROVE n + 1 \in Q
  <2>1. n \in Nat /\ \E f : WalkOf(h, l, n, f)
    OBVIOUS
  <2>2. PICK f : WalkOf(h, l, n, f)
    BY <2>1
  <2>3. \A k \in 0..n : f[k] = StepOf(h, l, f, k)
    BY <2>2, Zenon DEF WalkOf
  <2>. DEFINE g == [k \in 0..(n + 1) |-> IF k = n + 1 THEN StepOf(h, l, f, n + 1) ELSE f[k]]
  <2>4. \A k \in 0..n : g[k] = f[k]
    BY <2>1
  <2>5. ASSUME NEW k \in 0..(n + 1) PROVE g[k] = StepOf(h, l, g, k)
    <3>1. StepOf(h, l, g, k) = StepOf(h, l, f, k)
      <4>1. k = 0 \/ k - 1 \in 0..n
        BY <2>1
      <4>. QED
        BY <2>4, <4>1 DEF StepOf
    <3>2. CASE k = n + 1
      BY <3>1, <3>2
    <3>3. CASE k \in 0..n
      BY <2>3, <2>4, <3>1, <3>3
    <3>. QED
      BY <2>1, <3>2, <3>3
  <2>6. g = [k \in 0..(n + 1) |-> g[k]]
    OBVIOUS
  <2>7. WalkOf(h, l, n + 1, g)
    <3>. HIDE DEF g
    <3>. QED
      BY <2>5, <2>6 DEF WalkOf
  <2>8. \E ff : WalkOf(h, l, n + 1, ff)
    BY <2>7
  <2>. QED
    BY <2>1, <2>8
<1>3. Q = Nat
  <2>. HIDE DEF Q
  <2>1. Q \subseteq Nat
    BY DEF Q
  <2>. QED
    BY <1>1, <1>2, <2>1, Induction
<1>. QED
  BY <1>3

\* The equation that the recursive definition of Hop stands for.
LEMMA HopIsWalk ==
  ASSUME IsFiniteSet(Peer)
  PROVE  /\ DOMAIN Hop = 0..Cardinality(Peer)
         /\ \A k \in 0..Cardinality(Peer) : Hop[k] = StepOf(peer_list, next, Hop, k)
<1>. DEFINE n == Cardinality(Peer)
<1>1. \E f : WalkOf(peer_list, next, n, f)
  BY WalkExists, FS_CardinalityType
<1>2. Hop = CHOOSE f : WalkOf(peer_list, next, n, f)
  BY DEF Hop, WalkOf, StepOf
<1>3. WalkOf(peer_list, next, n, Hop)
  BY <1>1, <1>2, Zenon
<1>. QED
  BY <1>3, Zenon DEF WalkOf

\* What the k-th hop of the walk is: a peer that QUIT has freed or one of the
\* rest, and none of those before.
HopOK(j, k) == Hop[k] # NULL =>
  /\ \A i \in 0..k : Hop[i] \in Peer
  /\ k < j => mem[Hop[k]] = "freed"
  /\ k >= j => Source(Hop[k]) /\ cpc[Hop[k]] = "done"
  /\ \A i \in 0..(k - 1) : Hop[i] # Hop[k]

\* By induction over the hops: two that met would have the same predecessor, one
\* hop earlier.
LEMMA HopsOK ==
  ASSUME IsFiniteSet(Peer), IInv, TearDownInv
  PROVE  \E j \in Nat : /\ ~Quitting => j = 0
                        /\ \A k \in 0..Cardinality(Peer) : HopOK(j, k)
<1>. USE NullAssumption
<1>0. Cardinality(Peer) \in Nat
  BY FS_CardinalityType
<1>1. \E j \in Nat : \E s \in [1..j -> Peer] : TornDown(j, s) /\ (~Quitting => j = 0)
  <2>1. CASE Quitting
    BY <2>1 DEF TearDownInv
  <2>2. CASE ~Quitting
    <3>. DEFINE s == [i \in 1..0 |-> NULL]
    <3>1. s \in [1..0 -> Peer] /\ TornDown(0, s)
      BY <2>2, RestBefore DEF TornDown
    <3>. QED
      BY <3>1
  <2>. QED
    BY <2>1, <2>2
<1>2. PICK j \in Nat : \E s \in [1..j -> Peer] : TornDown(j, s) /\ (~Quitting => j = 0)
  BY <1>1
<1>3. PICK s \in [1..j -> Peer] : TornDown(j, s)
  BY <1>2
<1>. DEFINE h == IF j = 0 THEN peer_list ELSE next[s[j]]
            n == Cardinality(Peer)
            P(k) == HopOK(j, k) /\ (Hop[k] # NULL /\ k < j => Hop[k] = s[k + 1])
            Q == {k \in Nat : \A i \in 0..k : i <= n => P(i)}
<1>4. /\ next \in [Peer -> PeerOrNull] /\ peer_list \in PeerOrNull
      /\ h # NULL => Source(h) /\ cpc[h] = "done" /\ \A m \in Peer : Source(m) => next[m] # h
      /\ \A i \in 1..j : mem[s[i]] = "freed"
      /\ \A i, k \in 1..j : s[i] = s[k] => i = k
      /\ \A i \in 1..(j - 1) : next[s[i]] = s[i + 1]
      /\ j # 0 => peer_list = s[1]
  <2>1. j = 0 \/ mpc # "free_removed"
    BY <1>2 DEF Quitting
  <2>. QED
    BY <1>3, <2>1 DEF TornDown, Rest, Source, IInv, ListInv, FreeRemovedInv, TypeOK
<1>5. /\ \A m \in Peer : Source(m) /\ next[m] # NULL => Source(next[m]) /\ cpc[next[m]] = "done"
      /\ \A l, m \in Peer : Source(l) /\ Source(m) /\ next[l] = next[m] /\ next[l] # NULL => l = m
  BY DEF IInv, ListInv, PointerInv, UniqueInv, FreeRemovedInv, Source, TypeOK, PeerOrNull
<1>6. \A m \in Peer : Source(m) => mem[m] = "alloc"
  BY DEF Source
<1>7. 0 \in Q
  <2>1. Hop[0] = peer_list
    BY <1>0, HopIsWalk DEF StepOf
  <2>. QED
    BY <1>4, <2>1 DEF HopOK, PeerOrNull
<1>8. ASSUME NEW k \in Q PROVE k + 1 \in Q
  <2>. SUFFICES ASSUME k + 1 <= n, Hop[k + 1] # NULL PROVE P(k + 1)
    BY DEF HopOK
  <2>0. /\ k \in Nat /\ k \in 0..n /\ k + 1 \in 0..n
        /\ \A i \in 0..k : P(i)
    BY <1>0
  <2>1. Hop[k] # NULL /\ Hop[k + 1] = next[Hop[k]]
    BY <2>0, HopIsWalk DEF StepOf
  <2>2. \A i \in 0..k : Hop[i] \in Peer
    BY <2>0, <2>1 DEF HopOK
  <2>3. Hop[k + 1] \in Peer /\ \A i \in 0..(k + 1) : Hop[i] \in Peer
    BY <1>4, <2>0, <2>1, <2>2 DEF PeerOrNull
  <2>4. \A i \in 0..k : /\ i < j => mem[Hop[i]] = "freed" /\ Hop[i] = s[i + 1]
                        /\ i >= j => Source(Hop[i]) /\ mem[Hop[i]] = "alloc"
                        /\ \A l \in 0..(i - 1) : Hop[l] # Hop[i]
    <3>. SUFFICES ASSUME NEW i \in 0..k
         PROVE  /\ i < j => mem[Hop[i]] = "freed" /\ Hop[i] = s[i + 1]
                /\ i >= j => Source(Hop[i]) /\ mem[Hop[i]] = "alloc"
                /\ \A l \in 0..(i - 1) : Hop[l] # Hop[i]
      OBVIOUS
    <3>1. P(i) /\ Hop[i] \in Peer /\ Hop[i] # NULL
      BY <2>0, <2>2
    <3>. QED
      BY <1>6, <3>1 DEF HopOK
  <2>5. CASE k + 1 < j
    <3>1. Hop[k + 1] = s[(k + 1) + 1] /\ mem[Hop[k + 1]] = "freed"
      BY <1>4, <2>0, <2>1, <2>4, <2>5
    <3>2. \A i \in 0..k : Hop[i] # Hop[k + 1]
      BY <1>4, <2>0, <2>4, <2>5, <3>1
    <3>. QED
      BY <2>0, <2>3, <2>5, <3>1, <3>2 DEF HopOK
  <2>6. CASE k + 1 = j
    <3>1. Hop[k + 1] = h /\ Source(h) /\ cpc[h] = "done" /\ mem[h] = "alloc"
      BY <1>4, <1>6, <2>0, <2>1, <2>3, <2>4, <2>6
    <3>2. \A i \in 0..k : Hop[i] # Hop[k + 1]
      BY <2>0, <2>4, <2>6, <3>1
    <3>. HIDE DEF h
    <3>. QED
      BY <2>0, <2>3, <2>6, <3>1, <3>2 DEF HopOK
  <2>7. CASE k + 1 > j
    <3>1. Source(Hop[k]) /\ Source(Hop[k + 1]) /\ cpc[Hop[k + 1]] = "done"
          /\ mem[Hop[k + 1]] = "alloc"
      BY <1>5, <1>6, <2>0, <2>1, <2>2, <2>3, <2>4, <2>7
    <3>2. ASSUME NEW i \in 0..k PROVE Hop[i] # Hop[k + 1]
      <4>1. CASE i < j
        BY <2>4, <3>1, <4>1
      <4>2. CASE i = j
        <5>1. Hop[i] = h
          <6>1. CASE j = 0
            BY <1>0, <4>2, <6>1, HopIsWalk DEF StepOf
          <6>2. CASE j # 0
            <7>1. j - 1 \in 0..k /\ j - 1 < j /\ j \in 0..n
              BY <1>0, <2>0, <2>7, <6>2
            <7>2. Hop[j - 1] = s[j] /\ Hop[j - 1] # NULL
              BY <2>2, <2>4, <7>1
            <7>. QED
              BY <4>2, <6>2, <7>1, <7>2, HopIsWalk DEF StepOf
          <6>. QED
            BY <6>1, <6>2
        <5>2. h # NULL
          BY <2>2, <5>1
        <5>. HIDE DEF h
        <5>. QED
          BY <1>4, <2>0, <2>1, <2>2, <3>1, <5>1, <5>2
      <4>3. CASE i > j
        <5>1. i - 1 \in 0..k /\ i - 1 >= j /\ i - 1 \in 0..(k - 1) /\ i \in 0..n
          BY <1>0, <2>0, <4>3
        <5>2. Hop[i] = next[Hop[i - 1]] /\ Hop[i] # NULL /\ Hop[i - 1] # Hop[k]
          BY <2>0, <2>2, <2>4, <4>3, <5>1, HopIsWalk DEF StepOf
        <5>. QED
          BY <1>5, <2>0, <2>1, <2>2, <2>4, <3>1, <5>1, <5>2
      <4>. QED
        BY <4>1, <4>2, <4>3
    <3>. QED
      BY <2>0, <2>3, <2>7, <3>1, <3>2 DEF HopOK
  <2>. QED
    BY <2>0, <2>5, <2>6, <2>7
<1>9. Q = Nat
  <2>. HIDE DEF Q
  <2>1. Q \subseteq Nat
    BY DEF Q
  <2>. QED
    BY <1>7, <1>8, <2>1, Induction
<1>10. \A k \in 0..n : P(k)
  <2>1. ASSUME NEW k \in 0..n PROVE P(k)
    <3>1. k \in Q /\ k \in 0..k /\ k <= n
      BY <1>0, <1>9
    <3>. HIDE DEF P, n
    <3>. QED
      BY <3>1
  <2>. QED
    BY <2>1
<1>. QED
  BY <1>2, <1>10

\* The walk ends, as it meets no peer twice and there are no more hops than
\* peers, and before QUIT it meets connected peers only.
LEMMA InvIntact == IsFiniteSet(Peer) /\ IInv /\ TearDownInv => ListIntact
<1>. SUFFICES ASSUME IsFiniteSet(Peer), IInv, TearDownInv PROVE ListIntact
  OBVIOUS
<1>. DEFINE n == Cardinality(Peer)
<1>0. n \in Nat
  BY FS_CardinalityType
<1>1. PICK j \in Nat : /\ ~Quitting => j = 0
                       /\ \A k \in 0..n : HopOK(j, k)
  BY HopsOK
<1>2. ListEnds
  <2>. SUFFICES ASSUME Hop[n] # NULL PROVE FALSE
    BY DEF ListEnds
  <2>1. \A i \in 0..n : Hop[i] \in Peer
    BY <1>0, <1>1 DEF HopOK
  <2>2. \A i, k \in 0..n : i < k => Hop[i] # Hop[k]
    <3>. SUFFICES ASSUME NEW i \in 0..n, NEW k \in 0..n, i < k PROVE Hop[i] # Hop[k]
      OBVIOUS
    <3>1. Hop[k] # NULL /\ i \in 0..(k - 1)
      BY <1>0, <2>1, NullAssumption
    <3>. QED
      BY <1>1, <3>1 DEF HopOK
  <2>. DEFINE f == [i \in 0..n |-> Hop[i]]
  <2>3. f \in [0..n -> Peer] /\ \A i \in 0..n : f[i] = Hop[i]
    BY <2>1
  <2>4. IsFiniteSet(0..n) /\ Cardinality(0..n) = n + 1
    BY <1>0, FS_Interval
  <2>. HIDE DEF f
  <2>5. \E x, y \in 0..n : x # y /\ f[x] = f[y]
    <3>1. Cardinality(Peer) < Cardinality(0..n)
      BY <1>0, <2>4
    <3>2. ASSUME NEW D, IsFiniteSet(D), Cardinality(Peer) < Cardinality(D), NEW g \in [D -> Peer]
          PROVE  \E x, y \in D : x # y /\ g[x] = g[y]
      BY <3>2, FS_PigeonHole
    <3>. HIDE DEF n
    <3>. QED
      BY <2>3, <2>4, <3>1, <3>2
  <2>6. \A x, y \in 0..n : x # y => x < y \/ y < x
    BY <1>0
  <2>. QED
    BY <2>2, <2>3, <2>5, <2>6
<1>3. ListedEstablished
  <2>. SUFFICES ASSUME ~Quitting, NEW p \in Listed
       PROVE  Live(p) /\ sock[p] = "open" /\ cpc[p] = "done"
    BY DEF ListedEstablished
  <2>1. DOMAIN Hop = 0..n
    BY HopIsWalk
  <2>2. PICK k \in 0..n : p = Hop[k] /\ p # NULL
    BY <2>1 DEF Listed
  <2>3. p \in Peer /\ Source(p) /\ cpc[p] = "done"
    BY <1>0, <1>1, <2>2 DEF HopOK
  <2>. QED
    BY <2>2, <2>3 DEF Source, Live, IInv, LifeInv
<1>. QED
  BY <1>2, <1>3 DEF ListIntact

\* Whatever the client threads do, every walk of the list ends, and until QUIT
\* it shows connected peers only: for any finite number of CONNECTs.
THEOREM ListIntactCorrect ==
  ASSUME IsFiniteSet(Peer)
  PROVE  Spec => []ListIntact
<1>1. IInv /\ TearDownInv => ListIntact
  BY InvIntact
<1>. QED
  BY <1>1, Invariance, TearDown, PTL

-----------------------------------------------------------------------------
(***************************************************************************)
(* The peer list and the server thread (Btide)                             *)
(*                                                                         *)
(* A step of the composition is a step, or none, of each component         *)
(* (ComponentStep), so the inductive invariants of the peer list and of    *)
(* ServerProofs hold of it.  They say which descriptors are the program's  *)
(* and when a peer's socket is open; with them SocketInv is inductive.     *)
(***************************************************************************)

\* Server as Btide has it, with its theorems.
SP == INSTANCE ServerProofs WITH mpc <- handshake, proc <- end

-----------------------------------------------------------------------------

\* What Server assumes of its constants is assumed here.
LEMMA ServerAssumed == SP!FdAssumption /\ SP!BacklogAssumption
  BY ServerAssumption DEF SP!FdAssumption, SP!BacklogAssumption

\* S, the instance Btide is built from, and SP are the same specification.
LEMMA SameServer == [S!Next]_S!vars <=> [SP!Next]_SP!vars
  BY Zenon
  DEF S!MainAt, S!ServerAt, S!Lowest, S!Exit, S!NoFd, S!ServerGoto, S!CloseBoth, S!vars,
      S!descriptors, S!epoll, S!shutdown, S!MainEventfd, S!MainEventfdFails,
      S!MainCreateServer, S!EndOfInput, S!Quit, S!QuitLock, S!QuitSetFlag, S!QuitWriteEfd,
      S!QuitJoin, S!QuitJoinGarbage, S!QuitFree, S!MainCloseEfd, S!MainReturns,
      S!ServerLoadPort, S!ServerSocket, S!Nonblock, S!ServerBind, S!ServerListen,
      S!ServerStartFails, S!ServerEpollCreate, S!ServerAddServer, S!ServerAddServerFails,
      S!ServerAddEfd, S!ServerAddEfdFails, S!ServerWait, S!ServerWaitFails,
      S!ServerDispatchEfd, S!ServerDispatchOther, S!ServerDispatchEnd, S!ServerReadEfd,
      S!ServerLock, S!ServerTestFlag, S!RemoteConnect, S!OtherOpen, S!OtherClose,
      S!Terminated, S!Next, S!MainStep, S!Command, S!ServerStart, S!ServerLoop,
      S!Environment, SP!MainAt, SP!ServerAt, SP!Lowest, SP!Exit, SP!NoFd, SP!ServerGoto,
      SP!CloseBoth, SP!vars, SP!descriptors, SP!epoll, SP!shutdown, SP!MainEventfd,
      SP!MainEventfdFails, SP!MainCreateServer, SP!EndOfInput, SP!Quit, SP!QuitLock,
      SP!QuitSetFlag, SP!QuitWriteEfd, SP!QuitJoin, SP!QuitJoinGarbage, SP!QuitFree,
      SP!MainCloseEfd, SP!MainReturns, SP!ServerLoadPort, SP!ServerSocket, SP!Nonblock,
      SP!ServerBind, SP!ServerListen, SP!ServerStartFails, SP!ServerEpollCreate,
      SP!ServerAddServer, SP!ServerAddServerFails, SP!ServerAddEfd, SP!ServerAddEfdFails,
      SP!ServerWait, SP!ServerWaitFails, SP!ServerDispatchEfd, SP!ServerDispatchOther,
      SP!ServerDispatchEnd, SP!ServerReadEfd, SP!ServerLock, SP!ServerTestFlag,
      SP!RemoteConnect, SP!OtherOpen, SP!OtherClose, SP!Terminated, SP!Next, SP!MainStep,
      SP!Command, SP!ServerStart, SP!ServerLoop, SP!Environment

\* They begin in the same states.
LEMMA SameInit == S!Init <=> SP!Init
  BY DEF S!Init, SP!Init, S!NoFd, SP!NoFd

-----------------------------------------------------------------------------
(***************************************************************************)
(* The composition implements its components                               *)
(***************************************************************************)

\* The descriptors of a client thread and of ADDPACKAGE are some of the
\* process, or none.
FdType ==
  /\ fd \in [Peer -> Fd \cup {S!NoFd}]
  /\ file_fd \in Fd \cup {S!NoFd}

\* A step of btide is a step of the peer list, or leaves it alone, and a step
\* of the server thread, or leaves that alone: client threads and the main
\* thread do nothing to the descriptors that Server does not allow them.
LEMMA ComponentStep ==
  ASSUME IInv, FdType, [BtideNext]_btideVars
  PROVE  [Next]_vars /\ [S!Next]_S!vars /\ FdType'
<1>. DEFINE Goal == [Next]_vars /\ [S!Next]_S!vars /\ FdType'
<1>. USE DEF FdType, ownVars
<1>0. UNCHANGED serverVars => UNCHANGED S!vars
  BY DEF serverVars, S!vars, S!descriptors, S!shutdown, S!epoll
<1>1. ASSUME NEW f \in Fd \cup {S!NoFd}, Close(f) PROVE [S!Next]_S!vars
  <2>1. CASE f # S!NoFd /\ table[f] = "other"
    BY <1>1, <2>1 DEF Close, S!Next, S!Environment
  <2>2. CASE ~(f # S!NoFd /\ table[f] = "other")
    BY <1>0, <1>1, <2>2 DEF Close
  <2>. QED
    BY <2>1, <2>2
<1>2. ASSUME NEW p \in Peer, ClientThread(p) PROVE Goal
  <2>1. ASSUME NEW f \in Fd, ClientSocket(p, f) PROVE Goal
    BY <2>1 DEF ClientSocket, S!Next, S!Environment
  <2>2. CASE ClientConnects(p)
    BY <1>0, <2>2 DEF ClientConnects, Next, ClientStep, ClientAttempt
  <2>3. CASE ClientCloseRefused(p)
    BY <1>1, <2>3 DEF ClientCloseRefused, CloseSocket, Next, ClientStep, ClientAttempt
  <2>4. CASE ClientSocketFails(p)
    BY <1>0, <2>4 DEF ClientSocketFails, Next, ClientStep, ClientAttempt
  <2>5. CASE ClientLists(p)
    BY <1>0, <2>5 DEF ClientLists, Next, ClientStep
  <2>. QED
    BY <1>2, <2>1, <2>2, <2>3, <2>4, <2>5 DEF ClientThread
<1>3. CASE PeerCommand
  BY <1>0, <1>3 DEF PeerCommand, Next, Command
<1>4. CASE PeerCommandStep
  BY <1>0, <1>4 DEF PeerCommandStep, Next, MainStep
<1>5. CASE PeerClose
  <2>1. mcur \in Peer
    BY <1>5 DEF PeerClose, RemovePeerFree, FreePeerNode, MainAt, IInv, ListInv, CursorInv, Published
  <2>. QED
    BY <1>1, <1>5, <2>1 DEF PeerClose, CloseSocket, Next, MainStep
<1>6. CASE Handshake
  BY <1>6 DEF Handshake, S!Next, S!MainStep
<1>7. CASE QuitTyped
  BY <1>7 DEF QuitTyped, S!Next, S!Command
<1>8. CASE QuitFreesPeers
  BY <1>0, <1>8 DEF QuitFreesPeers, Next, Command
<1>9. CASE QuitFreesPeersStep
  BY <1>0, <1>9 DEF QuitFreesPeersStep, Next, MainStep
<1>10. CASE QuitFreesConfig
  BY <1>10 DEF QuitFreesConfig, Next, MainStep, S!Next, S!MainStep
<1>11. CASE MainReturns
  BY <1>11 DEF MainReturns, Next, MainStep, S!Next, S!MainStep
<1>12. CASE InputEnds
  BY <1>12 DEF InputEnds, Next, Command, S!Next, S!Command
<1>13. CASE ServerStart \/ ServerLoop \/ Remote
  BY <1>13 DEF ServerStart, ServerLoop, Remote, S!Next, S!Environment
<1>14. CASE Ended \/ UNCHANGED btideVars
  BY <1>0, <1>14 DEF Ended, btideVars
<1>15. ASSUME NEW f \in Fd, AddOpen(f) PROVE Goal
  BY <1>15 DEF AddOpen, S!Next, S!Environment
<1>16. CASE AddClose
  BY <1>1, <1>16 DEF AddClose
<1>17. CASE CommandFaults
  BY <1>0, <1>17 DEF CommandFaults, Next, Command
<1>. QED
  BY <1>2, <1>3, <1>4, <1>5, <1>6, <1>7, <1>8, <1>9, <1>10, <1>11, <1>12, <1>13, <1>14,
     <1>15, <1>16, <1>17
  DEF BtideNext, UserInput, BtideMain

\* The inductive invariants of both components hold of btide as a whole.
THEOREM ComponentInvariance == BtideSpec => [](IInv /\ SP!IInv /\ FdType)
<1>1. BtideInit => IInv /\ SP!IInv /\ FdType
  BY InitIInv, SameInit, ServerAssumed, SP!InitIInv DEF BtideInit, FdType
<1>2. IInv /\ SP!IInv /\ FdType /\ [BtideNext]_btideVars => (IInv /\ SP!IInv /\ FdType)'
  <2>1. IInv /\ [Next]_vars => IInv'
    BY TypeStep, LifeStep, ListStep DEF IInv
  <2>2. SP!IInv /\ [SP!Next]_SP!vars => SP!IInv'
    BY SP!TypeStep, SP!MainStepInv, SP!DescriptorStep, SP!ServerStepInv, SP!EpollStep,
       SP!WakeupStep, ServerAssumed DEF SP!IInv
  <2>. QED
    BY <2>1, <2>2, ComponentStep, SameServer
<1>. QED
  BY <1>1, <1>2, PTL DEF BtideSpec

\* Whatever the other threads do to the descriptors and to the main thread,
\* the peer list and the server thread do what their own modules say.
THEOREM Composes == BtideSpec => ComponentsKept
<1>1. BtideInit => Init /\ S!Init
  BY DEF BtideInit
<1>2. IInv /\ SP!IInv /\ FdType /\ [BtideNext]_btideVars => [Next]_vars /\ [S!Next]_S!vars
  BY ComponentStep
<1>. QED
  BY <1>1, <1>2, ComponentInvariance, PTL DEF BtideSpec, ComponentsKept, Spec, S!Spec

-----------------------------------------------------------------------------
(***************************************************************************)
(* The inductive invariant                                                 *)
(***************************************************************************)

\* A connection that is open has a descriptor.
OpenFd == \A p \in Peer : sock[p] = "open" => fd[p] # S!NoFd

\* The peers are freed between pthread_join and the end of main().
QuitInv ==
  /\ mpc \in {"lock_free", "free_peer", "free_node"} => handshake = "free"
  /\ mpc = "quit" => handshake \in {"close_efd", "returned"}

\* On the error path the server thread closes its numbers for the second time
\* as it ends: whoever got one of them has lost it.
Lost(f) == spc = "exited" /\ f \in {server_fd, epoll_fd}

\* A connection and the file of ADDPACKAGE have a descriptor of their own that
\* stands for them, unless it is lost.
SocketInv ==
  /\ \A p \in Socketed :
       /\ table[fd[p]] = "other" \/ Lost(fd[p])
       /\ \A q \in Socketed : fd[p] = fd[q] => p = q \/ Lost(fd[p])
       /\ fd[p] = file_fd => Lost(fd[p])
  /\ file_fd # S!NoFd => table[file_fd] = "other" \/ Lost(file_fd)

BtideInv == IInv /\ SP!IInv /\ FdType /\ OpenFd /\ QuitInv /\ SocketInv

\* What is neither a client thread nor a command on peers or packages closes
\* no descriptor of theirs, but for the second close of the server thread when
\* it could not register its descriptors.
LEMMA TableStep ==
  ASSUME SP!IInv,
         S!MainStep \/ S!Command \/ S!ServerStart \/ S!ServerLoop \/ S!RemoteConnect,
         NEW f \in Fd, table[f] = "other"
  PROVE  \/ table'[f] = "other"
         \/ /\ spc = "add_efd" /\ spc' = "exited" /\ watched = {}
            /\ f \in {server_fd, epoll_fd} /\ UNCHANGED <<server_fd, epoll_fd>>
<1>. USE DEF SP!IInv, SP!TypeOK, S!ServerAt, S!MainAt, S!descriptors
<1>2. ASSUME S!CloseBoth, table'[f] # "other"
      PROVE  /\ ~SP!InLoop /\ spc # "add_server" /\ (spc = "add_efd" => watched = {})
             /\ f \in {server_fd, epoll_fd}
  <2>1. f \in {server_fd, epoll_fd}
    BY <1>2 DEF S!CloseBoth
  <2>2. ~SP!Holds
    BY <2>1 DEF SP!Holds
  <2>. QED
    BY <2>1, <2>2 DEF SP!ServerInv
<1>3. CASE S!MainCloseEfd
  BY <1>3 DEF S!MainCloseEfd, SP!DescriptorInv, S!NoFd, SP!NoFd
<1>4. CASE UNCHANGED table
  BY <1>4
<1>5. ASSUME NEW g \in Fd, S!Lowest(g), NEW o \in {"efd", "server", "epoll"},
             table' = [table EXCEPT ![g] = o]
      PROVE  table'[f] = "other"
  BY <1>5 DEF S!Lowest
<1>. QED
  BY <1>2, <1>3, <1>4, <1>5
  DEF S!MainStep, S!Command, S!ServerStart, S!ServerLoop, S!Exit, S!vars, SP!InLoop,
      S!MainEventfd, S!MainEventfdFails, S!MainCreateServer, S!QuitLock, S!QuitSetFlag,
      S!QuitWriteEfd, S!QuitJoin, S!QuitJoinGarbage, S!QuitFree, S!MainReturns, S!Quit,
      S!EndOfInput, S!ServerGoto, S!ServerLoadPort, S!ServerSocket, S!ServerEpollCreate,
      S!Nonblock, S!ServerBind, S!ServerListen, S!ServerStartFails, S!ServerAddServer,
      S!ServerAddServerFails, S!ServerAddEfd, S!ServerAddEfdFails, S!ServerWait,
      S!ServerWaitFails, S!ServerDispatchEfd, S!ServerDispatchEnd, S!ServerDispatchOther,
      S!ServerReadEfd, S!ServerLock, S!ServerTestFlag, S!RemoteConnect

\* What a step may do to the sockets and to the table: nothing, ...
Quiet == UNCHANGED <<sock, ownVars, serverVars>>

\* ... what a thread of the program does to the table, ...
ProgramStep ==
  /\ S!MainStep \/ S!Command \/ S!ServerStart \/ S!ServerLoop \/ S!RemoteConnect
  /\ UNCHANGED <<sock, ownVars>>

\* ... or close the socket of p.
Closes(p) ==
  /\ p \in Socketed
  /\ CloseSocket(p)
  /\ sock' = [sock EXCEPT ![p] = "closed"]
  /\ UNCHANGED ownVars

\* Every step of btide is of one of these kinds, a client thread opens its
\* socket or connects it, or ADDPACKAGE opens or closes a file.  In particular close() is only called for a peer
\* whose socket is open.
LEMMA StepKinds ==
  ASSUME BtideInv, [BtideNext]_btideVars
  PROVE  \/ Quiet
         \/ ProgramStep
         \/ \E p \in Peer : ClientConnects(p) \/ Closes(p) \/ \E f \in Fd : ClientSocket(p, f)
         \/ AddClose \/ \E f \in Fd : AddOpen(f)
<1>. USE DEF heap
<1>1. ASSUME NEW p \in Peer, ClientThread(p), ~ClientConnects(p),
             ~\E f \in Fd : ClientSocket(p, f)
      PROVE  Quiet \/ Closes(p)
  <2>1. CASE ClientCloseRefused(p)
    <3>1. sock[p] = "none"
      BY <2>1 DEF ClientCloseRefused, ClientRefused, ClientAt, BtideInv, IInv, LifeInv
    <3>. QED
      BY <2>1, <3>1 DEF ClientCloseRefused, ClientRefused, Closes, Socketed
  <2>2. CASE ClientSocketFails(p)
    BY <2>2 DEF ClientSocketFails, ClientNoSocket, Quiet
  <2>3. CASE ClientLists(p)
    BY <2>3 DEF ClientLists, ClientFree, ClientDoubleFree, AddPeerStep, AddPeerTestHead,
                AddPeerSetHead, AddPeerLoadHead, AddPeerTestNext, AddPeerLoadNext,
                AddPeerLink, AddPeerFault, Quiet
  <2>. QED
    BY <1>1, <2>1, <2>2, <2>3 DEF ClientThread
<1>2. CASE PeerCommand
  BY <1>2 DEF PeerCommand, Peers, Connect, Disconnect, Begin, Quiet
<1>3. CASE PeerCommandStep
  BY <1>3
  DEF PeerCommandStep, PrintPeerStep, PrintPeerEnd, GetPeerLock, LockAndLoadHead, GetPeerStep,
      GetPeerFound, GetPeerNone, CreateClient, CreateClientFails, RemovePeerLock,
      RemovePeerStep, RemovePeerUnknown, RemovePeerMatch, RemovePeerUnlink, Quiet
<1>4. CASE PeerClose
  <2>1. Published(mcur)
    BY <1>4 DEF PeerClose, RemovePeerFree, FreePeerNode, MainAt, BtideInv, IInv, ListInv,
                CursorInv
  <2>2. sock[mcur] = "open"
    BY <2>1 DEF Published, BtideInv, IInv, LifeInv
  <2>3. mcur \in Socketed
    BY <2>1, <2>2 DEF Published, Socketed, BtideInv, OpenFd
  <2>. QED
    BY <1>4, <2>1, <2>3 DEF PeerClose, RemovePeerFree, FreePeerNode, CloseAndFree, Closes,
                            Published
<1>5. CASE Handshake \/ QuitTyped \/ InputEnds
  BY <1>5 DEF Handshake, QuitTyped, InputEnds, EndOfInput, ProgramStep, S!MainStep, S!Command,
              vars
<1>6. CASE QuitFreesPeers \/ QuitFreesPeersStep
  BY <1>6 DEF QuitFreesPeers, Quit, Begin, QuitFreesPeersStep, FreePeerLock, LockAndLoadHead,
              FreePeerLoad, Quiet
<1>7. CASE QuitFreesConfig \/ MainReturns
  BY <1>7 DEF QuitFreesConfig, FreePeerEnd, MainReturns, ExitMain, ProgramStep, S!MainStep
<1>8. CASE ServerStart \/ ServerLoop \/ Remote
  BY <1>8 DEF ServerStart, ServerLoop, Remote, ProgramStep, vars
<1>9. CASE Ended \/ UNCHANGED btideVars \/ CommandFaults
  BY <1>9 DEF Ended, btideVars, vars, CommandFaults, CommandEnds, Quiet
<1>. QED
  BY <1>1, <1>2, <1>3, <1>4, <1>5, <1>6, <1>7, <1>8, <1>9 DEF BtideNext, UserInput, BtideMain

\* The server thread is created once, and ended it leaves its variables.
LEMMA ExitedStays ==
  ASSUME SP!IInv, ProgramStep, spc = "exited"
  PROVE  spc' = "exited" /\ UNCHANGED <<server_fd, epoll_fd>>
  BY DEF SP!IInv, S!descriptors, SP!MainInv, ProgramStep, S!ServerAt, S!MainAt,
      S!MainStep, S!Command, S!ServerStart, S!ServerLoop, S!Exit, S!vars,
      S!MainEventfd, S!MainEventfdFails, S!MainCreateServer, S!QuitLock, S!QuitSetFlag,
      S!QuitWriteEfd, S!QuitJoin, S!QuitJoinGarbage, S!QuitFree, S!MainReturns, S!Quit,
      S!EndOfInput, S!ServerGoto, S!ServerLoadPort, S!ServerSocket, S!ServerEpollCreate,
      S!Nonblock, S!ServerBind, S!ServerListen, S!ServerStartFails, S!ServerAddServer,
      S!ServerAddServerFails, S!ServerAddEfd, S!ServerAddEfdFails, S!ServerWait,
      S!ServerWaitFails, S!ServerDispatchEfd, S!ServerDispatchEnd, S!ServerDispatchOther,
      S!ServerReadEfd, S!ServerLock, S!ServerTestFlag, S!RemoteConnect, S!MainCloseEfd

\* No step takes the descriptor of a connection that stays, or gives it to
\* another one.
LEMMA SocketStep ==
  ASSUME BtideInv, [BtideNext]_btideVars
  PROVE  OpenFd' /\ SocketInv'
<1>. USE DEF BtideInv, FdType, OpenFd, SocketInv, Socketed, Lost, ownVars
<1>0. /\ table \in [Fd -> {"free", "efd", "server", "epoll", "other"}]
      /\ sock \in [Peer -> {"none", "open", "closed"}]
  BY DEF SP!IInv, SP!TypeOK, IInv, TypeOK
<1>1. CASE Quiet
  BY <1>1 DEF Quiet, serverVars
<1>2. CASE ProgramStep
  <2>1. \A f : Lost(f) => Lost(f)'
    BY <1>2, ExitedStays
  <2>2. \A f \in Fd : table[f] = "other" => table'[f] = "other" \/ Lost(f)'
    BY <1>2, TableStep DEF ProgramStep
  <2>3. Socketed' = Socketed /\ UNCHANGED <<sock, fd, file_fd>>
    BY <1>2 DEF ProgramStep
  <2>. HIDE DEF Lost
  <2>4. \A p \in Socketed : fd[p] \in Fd
    OBVIOUS
  <2>. HIDE DEF Socketed
  <2>5. OpenFd'
    BY <2>3
  <2>6. SocketInv'
    BY <2>1, <2>2, <2>3, <2>4
  <2>. QED
    BY <2>5, <2>6
<1>3. ASSUME NEW p \in Peer, ClientConnects(p) PROVE OpenFd' /\ SocketInv'
  <2>1. /\ fd[p] # S!NoFd /\ cpc[p] = "client"
        /\ UNCHANGED <<fd, file_fd, table, spc, server_fd, epoll_fd>>
        /\ sock' = [sock EXCEPT ![p] = "open"]
    BY <1>3 DEF ClientConnects, ClientConnected, ClientAt, serverVars
  <2>2. sock[p] = "none"
    BY <2>1 DEF IInv, LifeInv
  <2>3. Socketed' = Socketed
    BY <1>0, <2>1, <2>2
  <2>. QED
    BY <1>0, <2>1, <2>3
<1>4. ASSUME NEW p \in Peer, Closes(p) PROVE OpenFd' /\ SocketInv'
  <2>1. /\ sock' = [sock EXCEPT ![p] = "closed"]
        /\ UNCHANGED <<fd, file_fd, spc, server_fd, epoll_fd>>
    BY <1>4 DEF Closes, CloseSocket, Close, serverVars, S!OtherClose, S!epoll
  <2>2. fd[p] \in Fd /\ p \in Socketed
    BY <1>4 DEF Closes
  <2>3. table' = table \/ table' = [table EXCEPT ![fd[p]] = "free"]
    BY <1>4 DEF Closes, CloseSocket, Close, serverVars, S!OtherClose
  <2>4. Socketed' = Socketed \ {p}
    BY <1>0, <2>1
  <2>5. \A f : Lost(f)' <=> Lost(f)
    BY <2>1
  <2>6. \A f \in Fd : f # fd[p] => table'[f] = table[f]
    BY <1>0, <2>2, <2>3
  <2>7. OpenFd'
    BY <1>0, <2>1
  <2>. HIDE DEF Lost
  <2>8. \A q \in Socketed : fd[q] \in Fd
    OBVIOUS
  <2>. HIDE DEF Socketed
  <2>9. SocketInv'
    BY <2>1, <2>2, <2>4, <2>5, <2>6, <2>8
  <2>. QED
    BY <2>7, <2>9
<1>5. ASSUME NEW p \in Peer, NEW f \in Fd, ClientSocket(p, f) PROVE OpenFd' /\ SocketInv'
  <2>1. /\ fd[p] = S!NoFd /\ table[f] = "free"
        /\ UNCHANGED <<sock, file_fd, spc, server_fd, epoll_fd>>
        /\ fd' = [fd EXCEPT ![p] = f] /\ table' = [table EXCEPT ![f] = "other"]
    BY <1>5 DEF ClientSocket, S!OtherOpen, S!Lowest, vars, heap
  <2>2. Socketed' \subseteq Socketed \cup {p}
    BY <2>1
  <2>3. f # S!NoFd
    BY ServerAssumption DEF S!NoFd
  <2>4. \A g : Lost(g)' <=> Lost(g)
    BY <2>1
  <2>5. \A q \in Socketed : q # p /\ fd[q] \in Fd /\ fd'[q] = fd[q]
    BY <2>1
  <2>6. \A g \in Fd : table[g] = "other" => table'[g] = "other"
    BY <1>0, <2>1
  <2>7. OpenFd'
    BY <2>1, <2>3
  <2>8. fd'[p] = f /\ table'[f] = "other"
    BY <1>0, <2>1
  <2>. HIDE DEF Socketed
  <2>9. \A q \in Socketed : fd[q] = f => Lost(f)
    BY <2>1
  <2>10. file_fd = f => Lost(f)
    BY <2>1, <2>3
  <2>11. ASSUME NEW q \in Socketed, NEW r \in Socketed'
         PROVE  /\ table'[fd'[q]] = "other" \/ Lost(fd'[q])
                /\ fd'[q] = fd'[r] => q = r \/ Lost(fd'[q])
                /\ fd'[q] = file_fd' => Lost(fd'[q])
    <3>1. r = p \/ (r \in Socketed /\ fd'[r] = fd[r])
      BY <2>2, <2>5
    <3>2. fd'[q] = fd[q] /\ fd[q] \in Fd
      BY <2>5
    <3>3. table'[fd'[q]] = "other" \/ Lost(fd'[q])
      BY <2>4, <2>6, <3>2
    <3>4. fd'[q] = fd'[r] => q = r \/ Lost(fd'[q])
      BY <2>4, <2>8, <2>9, <3>1, <3>2
    <3>5. fd'[q] = file_fd' => Lost(fd'[q])
      BY <2>1, <2>4, <3>2
    <3>. QED
      BY <3>3, <3>4, <3>5
  <2>12. ASSUME NEW r \in Socketed'
         PROVE  fd'[p] = fd'[r] => p = r \/ Lost(fd'[p])
    BY <2>2, <2>4, <2>5, <2>8, <2>9
  <2>13. fd'[p] = file_fd' => Lost(fd'[p])
    BY <2>1, <2>4, <2>8, <2>10
  <2>14. file_fd' # S!NoFd => table'[file_fd'] = "other" \/ Lost(file_fd')
    BY <2>1, <2>4, <2>6
  <2>15. SocketInv'
    BY <2>1, <2>2, <2>5, <2>8, <2>11, <2>12, <2>13, <2>14
  <2>. QED
    BY <2>7, <2>15

<1>6. ASSUME NEW f \in Fd, AddOpen(f) PROVE OpenFd' /\ SocketInv'
  <2>1. /\ table[f] = "free" /\ UNCHANGED <<sock, fd, spc, server_fd, epoll_fd>>
        /\ file_fd' = f /\ table' = [table EXCEPT ![f] = "other"]
    BY <1>6 DEF AddOpen, S!OtherOpen, S!Lowest, vars, heap
  <2>. QED
    BY <1>0, <2>1
<1>7. CASE AddClose
  <2>1. /\ file_fd \in Fd /\ file_fd' = S!NoFd
        /\ UNCHANGED <<sock, fd, spc, server_fd, epoll_fd>>
    BY <1>7 DEF AddClose, Close, serverVars, S!OtherClose, vars, heap
  <2>2. table' = table \/ table' = [table EXCEPT ![file_fd] = "free"]
    BY <1>7 DEF AddClose, Close, serverVars, S!OtherClose
  <2>. QED
    BY <1>0, <2>1, <2>2
<1>. QED
  BY <1>1, <1>2, <1>3, <1>4, <1>5, <1>6, <1>7, StepKinds

\* The main thread does not leave the teardown of the peers, nor is it there
\* at any other point of the handshake.
LEMMA QuitStep ==
  ASSUME BtideInv, [BtideNext]_btideVars
  PROVE  QuitInv'
<1>. USE DEF BtideInv, QuitInv, MainAt, S!MainAt, Prompt
<1>1. ASSUME NEW p \in Peer, ClientThread(p) PROVE UNCHANGED <<mpc, handshake>>
  BY <1>1
  DEF ClientThread, ClientSocket, S!OtherOpen, ClientConnects, ClientConnected,
      ClientCloseRefused, ClientRefused, CloseSocket, Close, S!OtherClose, ClientSocketFails,
      ClientNoSocket, ClientLists, ClientFree, ClientDoubleFree, AddPeerStep,
      AddPeerTestHead, AddPeerSetHead, AddPeerLoadHead, AddPeerTestNext, AddPeerLoadNext,
      AddPeerLink, AddPeerFault, vars, mainVars, serverVars
<1>2. CASE PeerCommand
  BY <1>2 DEF PeerCommand, Peers, Connect, Disconnect, Begin, serverVars
<1>3. CASE PeerCommandStep
  BY <1>3
  DEF PeerCommandStep, PrintPeerStep, PrintPeerEnd, GetPeerLock, LockAndLoadHead, GetPeerStep,
      GetPeerFound, GetPeerNone, CreateClient, CreateClientFails, AllocateAndStart,
      RemovePeerLock, RemovePeerStep, RemovePeerUnknown, RemovePeerMatch, RemovePeerUnlink,
      serverVars
<1>4. CASE PeerClose
  BY <1>4 DEF PeerClose, RemovePeerFree, FreePeerNode, CloseSocket, Close, S!OtherClose, serverVars
<1>5. CASE Handshake
  BY <1>5
  DEF Handshake, S!MainEventfd, S!MainEventfdFails, S!MainCreateServer, S!QuitLock,
      S!QuitSetFlag, S!QuitWriteEfd, S!QuitJoin, S!QuitJoinGarbage, S!MainCloseEfd, vars,
      mainVars
<1>6. CASE QuitTyped \/ InputEnds
  BY <1>6 DEF QuitTyped, S!Quit, InputEnds, EndOfInput, S!EndOfInput, S!Exit, AtPrompt, vars,
              mainVars
<1>7. CASE QuitFreesPeers \/ QuitFreesPeersStep
  BY <1>7 DEF QuitFreesPeers, Quit, Begin, QuitFreesPeersStep, FreePeerLock, LockAndLoadHead,
              FreePeerLoad, serverVars
<1>8. CASE QuitFreesConfig \/ MainReturns
  BY <1>8 DEF QuitFreesConfig, FreePeerEnd, S!QuitFree, MainReturns, ExitMain, S!MainReturns,
              S!Exit, mainVars
<1>9. CASE ServerStart
  BY <1>9
  DEF ServerStart, S!ServerStart, S!ServerGoto, S!ServerLoadPort, S!ServerSocket,
      S!ServerEpollCreate, S!Nonblock, S!ServerBind, S!ServerListen, S!ServerStartFails,
      S!Exit, S!ServerAddServer, S!ServerAddServerFails, S!ServerAddEfd, S!ServerAddEfdFails,
      vars, mainVars
<1>10. CASE ServerLoop \/ Remote
  BY <1>10
  DEF ServerLoop, S!ServerLoop, S!ServerGoto, S!ServerWait, S!ServerWaitFails,
      S!ServerDispatchEfd, S!ServerDispatchEnd, S!ServerDispatchOther, S!ServerReadEfd,
      S!ServerLock, S!ServerTestFlag, Remote, S!RemoteConnect, vars, mainVars
<1>11. CASE Ended \/ UNCHANGED btideVars
  BY <1>11 DEF Ended, btideVars, vars, mainVars, serverVars
<1>12. ASSUME NEW f \in Fd, AddOpen(f) PROVE QuitInv'
  BY <1>12 DEF AddOpen, S!OtherOpen, vars, mainVars
<1>13. CASE AddClose
  BY <1>13 DEF AddClose, Close, S!OtherClose, serverVars, vars, mainVars
<1>14. CASE CommandFaults
  BY <1>14 DEF CommandFaults, CommandEnds, serverVars, mainVars
<1>. QED
  BY <1>1, <1>2, <1>3, <1>4, <1>5, <1>6, <1>7, <1>8, <1>9, <1>10, <1>11, <1>12, <1>13, <1>14
  DEF BtideNext, UserInput, BtideMain

-----------------------------------------------------------------------------
(***************************************************************************)
(* The theorems                                                            *)
(***************************************************************************)

\* Every reachable state of btide satisfies the inductive invariant.
THEOREM BtideInvariance == BtideSpec => []BtideInv
<1>1. BtideInit => OpenFd /\ QuitInv /\ SocketInv
  BY DEF BtideInit, Init, S!Init, OpenFd, QuitInv, SocketInv, Socketed
<1>2. BtideInv /\ [BtideNext]_btideVars => (OpenFd /\ QuitInv /\ SocketInv)'
  BY SocketStep, QuitStep
<1>3. BtideInv <=> (IInv /\ SP!IInv /\ FdType) /\ (OpenFd /\ QuitInv /\ SocketInv)
  BY DEF BtideInv
<1>. QED
  BY <1>1, <1>2, <1>3, ComponentInvariance, PTL DEF BtideSpec

\* While the server thread is in its loop no two of the connections and the
\* file of ADDPACKAGE share a descriptor, and none has one of the program: who
\* closes its own closes nothing else.
THEOREM OwnConnections == BtideSpec => []SocketsApart
<1>1. BtideInv => SocketsApart
  BY DEF BtideInv, SocketInv, Lost, SocketsApart
<1>. QED
  BY <1>1, BtideInvariance, PTL

\* The server thread is past its last step when QUIT frees the peers.
THEOREM ServerJoinedFirst == BtideSpec => []PeersFreedAfterServer
<1>1. BtideInv => PeersFreedAfterServer
  BY DEF BtideInv, QuitInv, SP!IInv, SP!MainInv, PeersFreedAfterServer
<1>. QED
  BY <1>1, BtideInvariance, PTL

\* An established connection is closed by the command that removes its peer,
\* or it had one of the numbers that the server thread closes twice: then by
\* the second close, or after it by another thread that has the number too.
THEOREM ConnectionsKept == BtideSpec => ConnectionKept
<1>. DEFINE Excused(p) ==
              /\ fd[p] \in {server_fd, epoll_fd}
              /\ \/ spc = "add_efd" /\ spc' = "exited" /\ watched = {}
                 \/ /\ spc = "exited"
                    /\ file_fd = fd[p] \/ \E q \in Socketed \ {p} : fd[q] = fd[p]
            Kept == \A p \in Peer :
              /\ sock[p] = "open" /\ sock'[p] = "open"
              /\ table[fd[p]] = "other" /\ table'[fd[p]] # "other"
              => Excused(p)
<1>1. BtideInv /\ [BtideNext]_btideVars => [Kept]_btideVars
  <2>. SUFFICES ASSUME BtideInv, [BtideNext]_btideVars, NEW p \in Peer,
                       sock[p] = "open", sock'[p] = "open",
                       table[fd[p]] = "other", table'[fd[p]] # "other"
                PROVE  Excused(p)
    OBVIOUS
  <2>0. /\ fd[p] \in Fd
        /\ table \in [Fd -> {"free", "efd", "server", "epoll", "other"}]
        /\ sock \in [Peer -> {"none", "open", "closed"}]
        /\ p \in Socketed
    BY DEF BtideInv, FdType, OpenFd, SP!IInv, SP!TypeOK, IInv, TypeOK, Socketed
  <2>1. CASE Quiet
    BY <2>1 DEF Quiet, serverVars
  <2>2. CASE ProgramStep
    BY <2>0, <2>2, TableStep DEF ProgramStep, BtideInv
  <2>3. ASSUME NEW q \in Peer, ClientConnects(q) PROVE FALSE
    BY <2>3 DEF ClientConnects, serverVars
  <2>4. ASSUME NEW q \in Peer, Closes(q) PROVE Excused(p)
    <3>1. q # p
      BY <2>0, <2>4 DEF Closes
    <3>2. fd[q] = fd[p]
      BY <2>0, <2>4 DEF Closes, CloseSocket, Close, serverVars, S!OtherClose
    <3>3. q \in Socketed
      BY <2>4 DEF Closes
    <3>4. Lost(fd[p])
      BY <2>0, <3>1, <3>2, <3>3 DEF BtideInv, SocketInv
    <3>. QED
      BY <3>1, <3>2, <3>3, <3>4 DEF Lost
  <2>5. ASSUME NEW q \in Peer, NEW f \in Fd, ClientSocket(q, f) PROVE FALSE
    BY <2>0, <2>5 DEF ClientSocket, S!OtherOpen
  <2>6. ASSUME NEW f \in Fd, AddOpen(f) PROVE FALSE
    BY <2>0, <2>6 DEF AddOpen, S!OtherOpen
  <2>7. CASE AddClose
    <3>1. file_fd = fd[p]
      BY <2>0, <2>7 DEF AddClose, Close, serverVars, S!OtherClose
    <3>2. Lost(fd[p])
      BY <2>0, <3>1 DEF BtideInv, SocketInv
    <3>. QED
      BY <3>1, <3>2 DEF Lost
  <2>. QED
    BY <2>1, <2>2, <2>3, <2>4, <2>5, <2>6, <2>7, StepKinds
<1>. QED
  BY <1>1, BtideInvariance, PTL DEF BtideSpec, ConnectionKept

\* What the components promise alone they keep together: the life of a peer,
\* the walks of the main thread and what frees a peer; the descriptors of the
\* server thread and the wake-up that QUIT waits for.
THEOREM ComponentsSafe ==
  BtideSpec => /\ [](PeersSafe /\ MainDerefsLive) /\ FreedOnCommand
               /\ [](S!ServerSafe /\ S!NoLostWakeup)
<1>1. S!Spec => SP!Spec
  BY SameServer, SameInit, PTL DEF S!Spec, SP!Spec
<1>2. Spec => [](PeersSafe /\ MainDerefsLive) /\ FreedOnCommand
  BY PeersSafeCorrect, MainThreadSafe, FreedByCommand, PTL
<1>3. SP!Spec => [](SP!ServerSafe /\ SP!NoLostWakeup)
  BY SP!ServerSafeCorrect, SP!WakeupNotLost, ServerAssumed, PTL
<1>4. SP!NoLostWakeup => S!NoLostWakeup
  BY DEF SP!NoLostWakeup, S!NoLostWakeup, SP!Stopping, S!Stopping, SP!NoFd, S!NoFd
<1>5. SP!ServerSafe => S!ServerSafe
  BY Zenon DEF SP!ServerSafe, SP!TypeOK, SP!ReadNeverBlocks, SP!ServerOwnsDescriptors,
     SP!ServerClosesAll, SP!PortReadLive, SP!NoFd, SP!MainPCs, SP!ServerPCs,
     S!ServerSafe, S!TypeOK, S!ReadNeverBlocks, S!ServerOwnsDescriptors,
     S!ServerClosesAll, S!PortReadLive, S!NoFd, S!MainPCs, S!ServerPCs
<1>. QED
  BY <1>1, <1>2, <1>3, <1>4, <1>5, Composes, PTL DEF ComponentsKept

-----------------------------------------------------------------------------
(***************************************************************************)
(* The start (Config)                                                      *)
(*                                                                         *)
(* ReadInv ties what is left to read to the lines of the file and each     *)
(* field to the one line that may fill it; StartInv records which checks   *)
(* the fields have passed when main gets to a point.  Another instance may *)
(* make the directory, but nobody takes one away, so what mkdir has found  *)
(* (Made) lasts.                                                           *)
(***************************************************************************)

\* The lines of the file.
Rows == {file[n] : n \in 1..Len(file)}

\* A line that is for the key whose turn it is, and what it says.
ForKey(n) == file[n].key = Keys[n]
ValueOf(n) == file[n].value

\* The first three lines are the ones that btide can start with.
Wanted ==
  /\ \A n \in 1..3 : Len(file) >= n /\ ForKey(n)
  /\ ValueOf(2) \in MIN_PEERS..MAX_PEERS /\ ValueOf(3) \in MIN_PAYLOAD..MAX_PAYLOAD

\* What the first lines leave in a field: line n, once read, its value when it
\* is for its key, and nothing before or otherwise.
FieldOf(n, none) == IF n <= counter /\ ForKey(n) THEN ValueOf(n) ELSE none

\* What has been read, and what the fields hold.
ReadInv ==
  /\ file \in Files /\ counter \in 0..Len(file)
  /\ rest \in Seq(Rows) /\ Len(rest) = Len(file) - counter
  /\ \A n \in 1..Len(rest) : rest[n] = file[counter + n]
  /\ obj = [directory |-> FieldOf(1, NoString), max_peers |-> FieldOf(2, NoInt),
            port |-> FieldOf(3, NoInt)]

\* Something that mkdir has not refused is at the path.
Made ==
  /\ obj.directory # NoString /\ obj.directory \in Directories
  /\ disk[obj.directory] \in {"directory", "regular_file"}
Refused == obj.directory = NoString \/ disk[obj.directory] = "no_parent"

\* Where the start is, and what it has found right on the way there.
StartInv ==
  /\ disk \in [Directories -> Paths]
  /\ start \in {"open", "null", "lines", "mkdir", "verify", "started", "end"}
  /\ status \in {Running, 3, 4, 5, Fault} /\ (start # "end" => status = Running)
  /\ start \in {"mkdir", "verify", "started"} => counter = Len(file)
  /\ start \in {"verify", "started"} => Made
  /\ start = "started" => ValidPeers /\ ValidPort
  /\ status = 3 => Refused
  /\ status \in {4, 5} => Made /\ counter = Len(file)
  /\ status = 4 => ~ValidPeers
  /\ status = 5 => ValidPeers /\ ~ValidPort

ConfigInv == ReadInv /\ StartInv

\* A file is a sequence of its lines.
LEMMA FileIs ==
  ASSUME file \in Files
  PROVE  file \in Seq(Rows) /\ Len(file) \in Nat
<1>1. Len(file) \in Nat /\ file = [n \in 1..Len(file) |-> file[n]]
  BY FilesAssumption
<1>2. PICK n, X : n = Len(file) /\ X = Rows
  OBVIOUS
<1>3. n \in Nat /\ file \in [1..n -> X]
  <2>1. \A j \in 1..n : file[j] \in X
    BY <1>2 DEF Rows
  <2>. QED
    BY <1>1, <1>2, <2>1
<1>4. file \in Seq(X)
  BY <1>3
<1>. QED
  BY <1>1, <1>2, <1>4

\* The lines of the file for a key say what the key takes.
LEMMA ValuesAre ==
  ASSUME file \in Files, NEW n \in 1..3, n <= Len(file), ForKey(n)
  PROVE  IF n = 1 THEN ValueOf(n) \in Directories ELSE ValueOf(n) \in Int
<1>1. Keys[1] = "directory" /\ Keys[2] = "max_peers" /\ Keys[3] = "port"
  BY DEF Keys
<1>2. PICK r : r = file[n]
  OBVIOUS
<1>3. /\ r.key = "directory" => r.value \in Directories
      /\ r.key \in {"max_peers", "port"} => r.value \in Int
  <2>1. n \in 1..Len(file)
    BY FilesAssumption
  <2>. QED
    BY <1>2, <2>1, FilesAssumption
<1>4. r.key = Keys[n] /\ ValueOf(n) = r.value
  BY <1>2 DEF ForKey, ValueOf
<1>5. CASE n = 1
  BY <1>1, <1>3, <1>4, <1>5
<1>6. CASE n # 1
  <2>1. n = 2 \/ n = 3
    BY <1>6
  <2>. QED
    BY <1>1, <1>3, <1>4, <1>6, <2>1
<1>. QED
  BY <1>5, <1>6

\* The fields: a path that the file names, or numbers.
LEMMA FieldsAre ==
  ASSUME ReadInv, NEW d, NEW m, NEW p, d = obj.directory, m = obj.max_peers, p = obj.port
  PROVE  /\ d = FieldOf(1, NoString) /\ m = FieldOf(2, NoInt) /\ p = FieldOf(3, NoInt)
         /\ d # NoString => d \in Directories
         /\ m \in Int /\ p \in Int
<1>1. d = FieldOf(1, NoString) /\ m = FieldOf(2, NoInt) /\ p = FieldOf(3, NoInt)
  BY DEF ReadInv
<1>2. file \in Files /\ counter \in 0..Len(file) /\ Len(file) \in Nat
  BY FilesAssumption DEF ReadInv
<1>3. \A n \in 1..3 : n <= counter => n <= Len(file)
  BY <1>2
<1>4. d # NoString => d \in Directories
  BY <1>1, <1>2, <1>3, ValuesAre DEF FieldOf
<1>5. m \in Int /\ p \in Int
  BY <1>1, <1>2, <1>3, ValuesAre DEF FieldOf, NoInt
<1>. QED
  BY <1>1, <1>4, <1>5

\* The limits, as sets of numbers.
LEMMA LimitsAre ==
  ASSUME NEW m \in Int, NEW p \in Int, m = obj.max_peers, p = obj.port
  PROVE  /\ MIN_PEERS \in Nat \ {0} /\ MAX_PEERS \in Nat
         /\ MIN_PAYLOAD \in Nat \ {0} /\ MAX_PAYLOAD \in Nat
         /\ ValidPeers <=> m \in MIN_PEERS..MAX_PEERS
         /\ ValidPort <=> p \in MIN_PAYLOAD..MAX_PAYLOAD
<1>1. /\ MIN_PEERS \in Nat \ {0} /\ MAX_PEERS \in Nat
      /\ MIN_PAYLOAD \in Nat \ {0} /\ MAX_PAYLOAD \in Nat
  BY DEF MIN_PEERS, MAX_PEERS, MIN_PAYLOAD, MAX_PAYLOAD
<1>2. (m > 0 /\ m < 2049 <=> MIN_PEERS <= m /\ m <= MAX_PEERS)
      /\ (p > 1023 /\ p < 65536 <=> MIN_PAYLOAD <= p /\ p <= MAX_PAYLOAD)
  BY SMT DEF MIN_PEERS, MAX_PEERS, MIN_PAYLOAD, MAX_PAYLOAD
<1>3. ValidPeers <=> MIN_PEERS <= m /\ m <= MAX_PEERS
  BY <1>2, SMT DEF ValidPeers
<1>4. ValidPort <=> MIN_PAYLOAD <= p /\ p <= MAX_PAYLOAD
  BY <1>2, SMT DEF ValidPort
<1>. QED
  BY <1>1, <1>3, <1>4, SMT

\* A store to one of the three fields.
LEMMA StoreIs ==
  ASSUME NEW a, NEW b, NEW c, NEW r, r = [directory |-> a, max_peers |-> b, port |-> c],
         NEW key, key \in {"directory", "max_peers", "port"}, NEW v,
         NEW t, t = [r EXCEPT ![key] = v]
  PROVE  /\ key = "directory" => t = [directory |-> v, max_peers |-> b, port |-> c]
         /\ key = "max_peers" => t = [directory |-> a, max_peers |-> v, port |-> c]
         /\ key = "port" => t = [directory |-> a, max_peers |-> b, port |-> v]
<1>1. CASE key = "directory"
  BY <1>1
<1>2. CASE key = "max_peers"
  BY <1>2
<1>3. CASE key = "port"
  BY <1>3
<1>. QED
  BY <1>1, <1>2, <1>3

\* ReadLine: the line that is read is the one whose turn it is.
LEMMA ReadLineKeeps ==
  ASSUME ReadInv, ReadLine
  PROVE  ReadInv'
<1>1. PICK c, f, X, s : c = counter /\ f = file /\ X = Rows /\ s = rest
  OBVIOUS
<1>2. f \in Files /\ Len(f) \in Nat /\ c \in 0..Len(f) /\ s \in Seq(X) /\ s # <<>>
      /\ Len(s) = Len(f) - c /\ \A n \in 1..Len(s) : s[n] = f[c + n]
  BY <1>1, FilesAssumption DEF ReadInv, ReadLine
<1>3. /\ Len(s) \in Nat \ {0} /\ Head(s) = s[1] /\ Tail(s) \in Seq(X)
      /\ Len(Tail(s)) = Len(s) - 1 /\ \A n \in 1..(Len(s) - 1) : Tail(s)[n] = s[n + 1]
  BY <1>2, EmptySeq, LenProperties, HeadTailProperties
<1>4. c + 1 \in 1..Len(f) /\ Head(s) = f[c + 1]
  BY <1>2, <1>3
<1>5. /\ counter' = c + 1 /\ rest' = Tail(s) /\ file' = f /\ Rows' = X
  BY <1>1 DEF ReadLine, Rows
<1>6. counter' \in 0..Len(file') /\ rest' \in Seq(Rows') /\ Len(rest') = Len(file') - counter'
  BY <1>2, <1>3, <1>4, <1>5
<1>7. \A n \in 1..Len(rest') : rest'[n] = file'[counter' + n]
  <2>1. ASSUME NEW n \in 1..(Len(s) - 1) PROVE Tail(s)[n] = f[(c + 1) + n]
    <3>1. n + 1 \in 1..Len(s) /\ c + (n + 1) = (c + 1) + n
      BY <1>2, <1>3
    <3>. QED
      BY <1>2, <1>3, <3>1
  <2>. QED
    BY <1>3, <1>5, <2>1
<1>8. obj' = [directory |-> FieldOf(1, NoString)', max_peers |-> FieldOf(2, NoInt)',
              port |-> FieldOf(3, NoInt)']
  <2>1. PICK x, y, z, o, key, v : /\ x = FieldOf(1, NoString) /\ y = FieldOf(2, NoInt)
                                  /\ z = FieldOf(3, NoInt) /\ o = obj
                                  /\ key = f[c + 1].key /\ v = f[c + 1].value
    OBVIOUS
  <2>2. o = [directory |-> x, max_peers |-> y, port |-> z]
    BY <2>1 DEF ReadInv
  <2>3. obj' = IF c < 3 /\ key = Keys[c + 1] THEN [o EXCEPT ![key] = v] ELSE o
    BY <1>1, <1>4, <2>1 DEF ReadLine
  <2>4. ASSUME NEW n \in 1..3, NEW none
        PROVE  FieldOf(n, none)'
                 = IF n = c + 1 /\ key = Keys[n] THEN v ELSE FieldOf(n, none)
    <3>1. /\ ForKey(n)' <=> ForKey(n)
          /\ ValueOf(n)' = ValueOf(n)
          /\ n = c + 1 => (ForKey(n) <=> key = Keys[n]) /\ ValueOf(n) = v
      BY <1>1, <1>5, <2>1 DEF ForKey, ValueOf, Keys
    <3>2. CASE n = c + 1
      <4>1. n <= c + 1 /\ ~(n <= c)
        BY <1>2, <3>2
      <4>. QED
        BY <1>1, <1>5, <3>1, <3>2, <4>1 DEF FieldOf
    <3>3. CASE n # c + 1
      <4>1. n <= c + 1 <=> n <= c
        BY <1>2, <3>3
      <4>. QED
        BY <1>1, <1>5, <3>1, <3>3, <4>1 DEF FieldOf
    <3>. QED
      BY <3>2, <3>3
  <2>5. Keys[1] = "directory" /\ Keys[2] = "max_peers" /\ Keys[3] = "port"
    BY DEF Keys
  <2>6. /\ FieldOf(1, NoString)' = IF c = 0 /\ key = "directory" THEN v ELSE x
        /\ FieldOf(2, NoInt)' = IF c = 1 /\ key = "max_peers" THEN v ELSE y
        /\ FieldOf(3, NoInt)' = IF c = 2 /\ key = "port" THEN v ELSE z
    <3>1. (1 = c + 1 <=> c = 0) /\ (2 = c + 1 <=> c = 1) /\ (3 = c + 1 <=> c = 2)
      BY <1>2
    <3>2. /\ FieldOf(1, NoString)' = IF 1 = c + 1 /\ key = Keys[1] THEN v ELSE FieldOf(1, NoString)
          /\ FieldOf(2, NoInt)' = IF 2 = c + 1 /\ key = Keys[2] THEN v ELSE FieldOf(2, NoInt)
          /\ FieldOf(3, NoInt)' = IF 3 = c + 1 /\ key = Keys[3] THEN v ELSE FieldOf(3, NoInt)
      BY <2>4
    <3>. QED
      BY <2>1, <2>5, <3>1, <3>2, Zenon
  <2>7. PICK fx, fy, fz : /\ fx = FieldOf(1, NoString)' /\ fy = FieldOf(2, NoInt)'
                          /\ fz = FieldOf(3, NoInt)'
    OBVIOUS
  <2>8. obj' = [directory |-> fx, max_peers |-> fy, port |-> fz]
    <3>1. /\ fx = IF c = 0 /\ key = "directory" THEN v ELSE x
          /\ fy = IF c = 1 /\ key = "max_peers" THEN v ELSE y
          /\ fz = IF c = 2 /\ key = "port" THEN v ELSE z
      BY <2>6, <2>7
    <3>2. CASE c = 0 /\ key = "directory"
      <4>1. obj' = [o EXCEPT ![key] = v]
        BY <2>3, <2>5, <3>2
      <4>2. obj' = [directory |-> v, max_peers |-> y, port |-> z]
        BY <2>2, <3>2, <4>1, StoreIs
      <4>. QED
        BY <3>1, <3>2, <4>2
    <3>3. CASE c = 1 /\ key = "max_peers"
      <4>1. obj' = [o EXCEPT ![key] = v]
        BY <2>3, <2>5, <3>3
      <4>2. obj' = [directory |-> x, max_peers |-> v, port |-> z]
        BY <2>2, <3>3, <4>1, StoreIs
      <4>. QED
        BY <3>1, <3>3, <4>2
    <3>4. CASE c = 2 /\ key = "port"
      <4>1. obj' = [o EXCEPT ![key] = v]
        BY <2>3, <2>5, <3>4
      <4>2. obj' = [directory |-> x, max_peers |-> y, port |-> v]
        BY <2>2, <3>4, <4>1, StoreIs
      <4>. QED
        BY <3>1, <3>4, <4>2
    <3>5. CASE /\ ~(c = 0 /\ key = "directory") /\ ~(c = 1 /\ key = "max_peers")
               /\ ~(c = 2 /\ key = "port")
      <4>1. ~(c < 3 /\ key = Keys[c + 1])
        <5>1. c < 3 => c = 0 \/ c = 1 \/ c = 2
          BY <1>2
        <5>2. 0 + 1 = 1 /\ 1 + 1 = 2 /\ 2 + 1 = 3
          OBVIOUS
        <5>. QED
          BY <2>5, <3>5, <5>1, <5>2
      <4>2. obj' = o
        BY <2>3, <4>1
      <4>3. fx = x /\ fy = y /\ fz = z
        BY <3>1, <3>5
      <4>. QED
        BY <2>2, <4>2, <4>3
    <3>. QED
      BY <3>2, <3>3, <3>4, <3>5
  <2>. QED
    BY <2>7, <2>8
<1>. QED
  BY <1>2, <1>5, <1>6, <1>7, <1>8 DEF ReadInv

\* What is found right or wrong stays so while its objects do.
LEMMA SameStart ==
  ASSUME obj' = obj
  PROVE  /\ ValidPeers' <=> ValidPeers
         /\ ValidPort' <=> ValidPort
         /\ disk' = disk => (Made' <=> Made) /\ (Refused' <=> Refused)
<1>1. (ValidPeers' <=> ValidPeers) /\ (ValidPort' <=> ValidPort)
  BY DEF ValidPeers, ValidPort
<1>2. ASSUME disk' = disk PROVE (Made' <=> Made) /\ (Refused' <=> Refused)
  BY <1>2 DEF Made, Refused
<1>. QED
  BY <1>1, <1>2

\* Nothing else reads the file.
LEMMA ReadStill ==
  ASSUME ReadInv, UNCHANGED <<file, rest, counter, obj>>
  PROVE  ReadInv'
<1>1. \A n, none : FieldOf(n, none)' = FieldOf(n, none)
  BY DEF FieldOf, ForKey, ValueOf, Keys
<1>. QED
  BY <1>1 DEF ReadInv, Rows

\* Every step keeps the invariant.
LEMMA StartKeeps ==
  ASSUME ConfigInv, [Start \/ OtherMkdir \/ StartDone]_configVars
  PROVE  ConfigInv'
<1>0. ReadInv /\ StartInv
  BY DEF ConfigInv
<1>1. ReadInv'
  <2>1. CASE ReadLine
    BY <1>0, <2>1, ReadLineKeeps
  <2>2. CASE UNCHANGED <<file, rest, counter, obj>>
    BY <1>0, <2>2, ReadStill
  <2>. QED
    BY <2>1, <2>2 DEF Start, Load, Open, EndOfFile, NullConfig, Mkdir, Verify, OtherMkdir, StartDone,
                      configVars
<1>2. StartInv'
  <2>0. Len(file) \in Nat
    BY <1>0, FilesAssumption DEF ReadInv
  <2>1. CASE Open
    BY <1>0, <2>1, SameStart DEF Open, StartInv
  <2>2. CASE NullConfig
    BY <1>0, <2>2, SameStart DEF NullConfig, StartInv, Running, Fault
  <2>3. CASE ReadLine
    BY <1>0, <2>3 DEF ReadLine, StartInv, Running
  <2>4. CASE EndOfFile
    <3>1. counter = Len(file)
      <4>1. Len(rest) = 0 /\ counter \in 0..Len(file) /\ Len(rest) = Len(file) - counter
        BY <1>0, <2>4 DEF EndOfFile, ReadInv
      <4>. QED
        BY <2>0, <4>1
    <3>. QED
      BY <1>0, <2>4, <3>1 DEF EndOfFile, StartInv, Running
  <2>5. CASE Mkdir
    <3>1. PICK d : d = obj.directory
      OBVIOUS
    <3>2. CASE d = NoString \/ disk[d] = "no_parent"
      <4>1. /\ status' = 3 /\ start' = "end" /\ Refused
            /\ UNCHANGED <<file, counter, obj, disk>>
        BY <2>5, <3>1, <3>2 DEF Mkdir, Exit, Refused
      <4>. QED
        BY <1>0, <4>1, SameStart DEF StartInv
    <3>3. CASE ~(d = NoString \/ disk[d] = "no_parent")
      <4>1. /\ disk' = [disk EXCEPT ![d] = IF @ = "nothing" THEN "directory" ELSE @]
            /\ start' = "verify" /\ start = "mkdir" /\ UNCHANGED <<file, counter, obj, status>>
        BY <2>5, <3>1, <3>3 DEF Mkdir
      <4>2. d \in Directories /\ disk \in [Directories -> Paths]
        <5>1. d \in Directories
          BY <1>0, <3>1, <3>3, FieldsAre
        <5>. QED
          BY <1>0, <5>1 DEF StartInv
      <4>3. disk' \in [Directories -> Paths] /\ disk'[d] \in {"directory", "regular_file"}
        BY <3>3, <4>1, <4>2 DEF Paths
      <4>4. Made'
        <5>1. obj'.directory = d /\ d # NoString
          BY <3>1, <3>3, <4>1
        <5>. QED
          BY <4>2, <4>3, <5>1 DEF Made
      <4>5. status' = Running /\ counter' = Len(file')
        BY <1>0, <4>1 DEF StartInv
      <4>. QED
        BY <4>1, <4>3, <4>4, <4>5 DEF StartInv, Running
    <3>. QED
      BY <3>2, <3>3
  <2>6. CASE Verify
    <3>1. /\ Made /\ Made' /\ (ValidPeers' <=> ValidPeers) /\ (ValidPort' <=> ValidPort)
          /\ counter = Len(file) /\ counter' = counter /\ file' = file /\ disk' = disk
          /\ disk \in [Directories -> Paths]
      BY <1>0, <2>6, SameStart DEF Verify, StartInv
    <3>2. \/ ~ValidPeers /\ status' = 4 /\ start' = "end"
          \/ ValidPeers /\ ~ValidPort /\ status' = 5 /\ start' = "end"
          \/ ValidPeers /\ ValidPort /\ start' = "started" /\ status' = Running
      BY <1>0, <2>6 DEF Verify, Exit, StartInv
    <3>. QED
      BY <3>1, <3>2 DEF StartInv, Running
  <2>7. CASE OtherMkdir
    <3>1. PICK e \in Directories : disk[e] = "nothing" /\ disk' = [disk EXCEPT ![e] = "directory"]
      BY <2>7 DEF OtherMkdir
    <3>2. disk \in [Directories -> Paths] /\ disk' \in [Directories -> Paths]
      BY <1>0, <3>1 DEF StartInv, Paths
    <3>3. Made => Made'
      BY <2>7, <3>1, <3>2 DEF OtherMkdir, Made
    <3>4. (ValidPeers' <=> ValidPeers) /\ (ValidPort' <=> ValidPort)
      BY <2>7 DEF OtherMkdir, ValidPeers, ValidPort
    <3>. QED
      BY <1>0, <2>7, <3>2, <3>3, <3>4 DEF OtherMkdir, StartInv, Running
  <2>8. CASE UNCHANGED configVars
    BY <1>0, <2>8, SameStart DEF configVars, StartInv
  <2>. QED
    BY <2>1, <2>2, <2>3, <2>4, <2>5, <2>6, <2>7, <2>8 DEF Start, Load, StartDone
<1>. QED
  BY <1>1, <1>2 DEF ConfigInv

\* The invariant says what btide starts with and why it does not.
LEMMA StartIs ==
  ASSUME ConfigInv
  PROVE  StartExact
<1>0. ReadInv /\ StartInv /\ Len(file) \in Nat /\ counter \in 0..Len(file)
  BY FilesAssumption DEF ConfigInv, ReadInv
<1>1. ConfigTypeOK
  <2>1. counter + Len(rest) = Len(file)
    BY <1>0 DEF ReadInv
  <2>2. DOMAIN obj = {"directory", "max_peers", "port"}
    BY <1>0 DEF ReadInv
  <2>. QED
    BY <1>0, <2>1, <2>2 DEF ConfigTypeOK, StartInv, ReadInv
<1>2. PICK d, m, p : d = obj.directory /\ m = obj.max_peers /\ p = obj.port
  OBVIOUS
<1>3. /\ d = FieldOf(1, NoString) /\ m = FieldOf(2, NoInt) /\ p = FieldOf(3, NoInt)
      /\ m \in Int /\ p \in Int
  BY <1>0, <1>2, FieldsAre
<1>4. /\ MIN_PEERS \in Nat \ {0} /\ MAX_PEERS \in Nat
      /\ MIN_PAYLOAD \in Nat \ {0} /\ MAX_PAYLOAD \in Nat
      /\ ValidPeers <=> m \in MIN_PEERS..MAX_PEERS
      /\ ValidPort <=> p \in MIN_PAYLOAD..MAX_PAYLOAD
  BY <1>2, <1>3, LimitsAre
<1>5. FirstFailureNamed
  <2>1. status \in {4, 5} => disk[obj.directory] \in {"directory", "regular_file"}
    BY <1>0 DEF StartInv, Made
  <2>2. status = 5 => obj.max_peers \in MIN_PEERS..MAX_PEERS
    BY <1>0, <1>2, <1>4 DEF StartInv
  <2>3. status = 3 => obj.directory = NoString \/ disk[obj.directory] = "no_parent"
    BY <1>0 DEF StartInv, Refused
  <2>. QED
    BY <2>1, <2>2, <2>3 DEF FirstFailureNamed
<1>6. ASSUME status \in {4, 5}, Wanted PROVE FALSE
  <2>1. /\ counter = Len(file) /\ 2 <= counter /\ 3 <= counter /\ ForKey(2) /\ ForKey(3)
        /\ ~(ValidPeers /\ ValidPort)
    BY <1>0, <1>6 DEF StartInv, Wanted
  <2>2. m = ValueOf(2) /\ p = ValueOf(3)
    BY <1>3, <2>1 DEF FieldOf
  <2>. QED
    BY <1>4, <1>6, <2>1, <2>2 DEF Wanted
<1>7. ASSUME start = "started"
      PROVE  /\ Wanted
             /\ d = ValueOf(1) /\ m = ValueOf(2) /\ p = ValueOf(3)
  <2>1. counter = Len(file) /\ ValidPeers /\ ValidPort /\ Made
    BY <1>0, <1>7 DEF StartInv
  <2>2. d # NoString
    BY <1>2, <2>1 DEF Made
  <2>3. m # NoInt /\ p # NoInt /\ m \in MIN_PEERS..MAX_PEERS /\ p \in MIN_PAYLOAD..MAX_PAYLOAD
    BY <1>4, <2>1 DEF NoInt
  <2>4. /\ 1 <= counter /\ ForKey(1) /\ d = ValueOf(1)
        /\ 2 <= counter /\ ForKey(2) /\ m = ValueOf(2)
        /\ 3 <= counter /\ ForKey(3) /\ p = ValueOf(3)
    BY <1>3, <2>2, <2>3 DEF FieldOf
  <2>5. \A n \in 1..3 : Len(file) >= n /\ ForKey(n)
    <3>1. \A n \in 1..3 : n = 1 \/ n = 2 \/ n = 3
      OBVIOUS
    <3>2. Len(file) >= 1 /\ Len(file) >= 2 /\ Len(file) >= 3
      BY <1>0, <2>1, <2>4
    <3>. QED
      BY <2>4, <3>1, <3>2
  <2>. QED
    BY <2>3, <2>4, <2>5 DEF Wanted
<1>8. StartedAsWritten
  <2>1. start = "started" => \A n \in 1..3 : obj[Keys[n]] = file[n].value
    <3>1. Keys[1] = "directory" /\ Keys[2] = "max_peers" /\ Keys[3] = "port"
      BY DEF Keys
    <3>2. obj[Keys[1]] = d /\ obj[Keys[2]] = m /\ obj[Keys[3]] = p
      BY <1>2, <3>1
    <3>3. \A n \in 1..3 : n = 1 \/ n = 2 \/ n = 3
      OBVIOUS
    <3>4. start = "started" => \A n \in 1..3 : obj[Keys[n]] = ValueOf(n)
      BY <1>7, <3>2, <3>3
    <3>. QED
      BY <3>4 DEF ValueOf
  <2>2. Wanted <=> /\ \A n \in 1..3 : Len(file) >= n /\ file[n].key = Keys[n]
                   /\ file[2].value \in MIN_PEERS..MAX_PEERS
                   /\ file[3].value \in MIN_PAYLOAD..MAX_PAYLOAD
    BY DEF Wanted, ForKey, ValueOf
  <2>. QED
    BY <1>6, <1>7, <2>1, <2>2, Zenon DEF StartedAsWritten
<1>. QED
  BY <1>1, <1>5, <1>8 DEF StartExact

\* The invariant: what has been read of the file, what the fields hold and
\* which checks they have passed, whatever other instances do to the directory.
THEOREM ConfigInvariance == ConfigSpec => []ConfigInv
<1>1. ConfigInit => ConfigInv
  <2>. SUFFICES ASSUME ConfigInit PROVE ConfigInv
    OBVIOUS
  <2>1. file \in Seq(Rows) /\ Len(file) \in Nat
    BY FileIs DEF ConfigInit
  <2>2. \A n \in 1..3 : ~(n <= counter)
    BY DEF ConfigInit
  <2>3. obj = [directory |-> FieldOf(1, NoString), max_peers |-> FieldOf(2, NoInt),
               port |-> FieldOf(3, NoInt)]
    BY <2>2 DEF ConfigInit, FieldOf
  <2>4. ReadInv
    BY <2>1, <2>3 DEF ConfigInit, ReadInv
  <2>5. StartInv
    BY DEF ConfigInit, StartInv, Running
  <2>. QED
    BY <2>4, <2>5 DEF ConfigInv
<1>2. ConfigInv /\ [Start \/ OtherMkdir \/ StartDone]_configVars => ConfigInv'
  BY StartKeeps
<1>. QED
  BY <1>1, <1>2, PTL DEF ConfigSpec

\* StartExact of Config: btide starts exactly with the files whose first three
\* lines give, in this order, a path, a number of peers and a port within the
\* limits, and with those values; otherwise its exit status names the first
\* check of verifyConfigContents that fails.
THEOREM StartExactCorrect == ConfigSpec => []StartExact
  BY ConfigInvariance, StartIs, PTL
=============================================================================
