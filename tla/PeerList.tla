------------------------------ MODULE PeerList ------------------------------
(***************************************************************************)
(* The peer list of btide: a singly linked list of heap-allocated          *)
(* peer_info objects that the command loop (the main thread) searches,     *)
(* prints, removes from and frees, and that one detached client thread     *)
(* per CONNECT appends to.                                                 *)
(*                                                                         *)
(* The grain is one access to shared memory per step: the build (gcc -g    *)
(* without -O) performs every load and store of a pointer where the source *)
(* writes it, so a value loaded twice may differ.  Pointer accesses are    *)
(* sequentially consistent.  The build is instrumented with                *)
(* AddressSanitizer, so a use of freed memory or a second free ends the    *)
(* process (freed blocks stay in quarantine: a malloc returns a fresh      *)
(* object), and so does a NULL dereference.                                *)
(*                                                                         *)
(* One element of Peer stands for the object that one CONNECT mallocs, and *)
(* names the client thread it is handed to: Cardinality(Peer) bounds the   *)
(* number of CONNECTs.  A command whose address validIP refuses prints a   *)
(* message and changes nothing, and a CONNECT or DISCONNECT without an     *)
(* address works on whatever its uninitialised buffer holds, which is one  *)
(* of the addresses of Addr or refused: neither needs an action.  One that *)
(* is longer than the buffers it is copied to ends the process             *)
(* (CommandEnds).                                                          *)
(***************************************************************************)
EXTENDS Naturals, FiniteSets

CONSTANTS
  Peer,   \* the peer_info objects CONNECT may allocate
  Addr,   \* the ip:port pairs that validIP accepts
  NULL

ASSUME NullAssumption == NULL \notin Peer /\ NULL \notin Addr

VARIABLES
  peer_list,        \* the list head, a local of main() shared by pointer
  addr,             \* peer->ip and peer->port
  next,             \* peer->next
  mem,              \* the state of the heap block of a peer
  sock,             \* the state of the socket opened for a peer
  peer_list_mutex,  \* the global mutex
  copy_mutex,       \* package->peer_list_mutex: the copy each package holds
  mpc,              \* where the main thread is
  marg,             \* the address its command names
  mcur, mprev,      \* its locals current and previous
  mnext,            \* the value it loaded from current->next
  cpc,              \* where the client thread of a peer is
  cur,              \* its local current in add_peer
  proc              \* the state of the process

heap == <<peer_list, addr, next, mem, sock>>
locks == <<peer_list_mutex, copy_mutex>>
mainVars == <<mpc, marg, mcur, mprev, mnext>>
clientVars == <<cpc, cur>>
vars == <<heap, locks, mainVars, clientVars, proc>>

PeerOrNull == Peer \cup {NULL}

MainPCs == {"idle", "print_peer", "lock_get", "get_peer", "create",
            "lock_remove", "remove_peer", "unlink", "free_removed",
            "lock_free", "free_peer", "free_node", "quit"}

ClientPCs == {"none", "unstarted", "client", "failed", "test_head", "set_head",
              "load_head", "test_next", "load_next", "link", "done"}

TypeOK ==
  /\ peer_list \in PeerOrNull
  /\ addr \in [Peer -> Addr \cup {NULL}]
  /\ next \in [Peer -> PeerOrNull]
  /\ mem \in [Peer -> {"fresh", "alloc", "freed"}]
  /\ sock \in [Peer -> {"none", "open", "closed"}]
  /\ peer_list_mutex \in {"unlocked", "locked"}
  /\ copy_mutex \in [Peer -> {"unlocked", "locked"}]
  /\ mpc \in MainPCs
  /\ marg \in Addr \cup {NULL}
  /\ mcur \in PeerOrNull
  /\ mprev \in PeerOrNull
  /\ mnext \in PeerOrNull
  /\ cpc \in [Peer -> ClientPCs]
  /\ cur \in [Peer -> PeerOrNull]
  /\ proc \in {"running", "aborted", "exited"}

Init ==
  /\ peer_list = NULL
  /\ addr = [p \in Peer |-> NULL]
  /\ next = [p \in Peer |-> NULL]
  /\ mem = [p \in Peer |-> "fresh"]
  /\ sock = [p \in Peer |-> "none"]
  /\ peer_list_mutex = "unlocked"
  /\ copy_mutex = [p \in Peer |-> "unlocked"]
  /\ mpc = "idle"
  /\ marg = NULL
  /\ mcur = NULL
  /\ mprev = NULL
  /\ mnext = NULL
  /\ cpc = [p \in Peer |-> "none"]
  /\ cur = [p \in Peer |-> NULL]
  /\ proc = "running"

\* A pointer that may be dereferenced.
Live(n) == n # NULL /\ mem[n] = "alloc"

\* The main thread is about to execute the code at l.
MainAt(l) == proc = "running" /\ mpc = l

\* The command is over: process_command returns and its locals go.
Prompt ==
  /\ mpc' = "idle"
  /\ marg' = NULL
  /\ mcur' = NULL
  /\ mprev' = NULL
  /\ mnext' = NULL

-----------------------------------------------------------------------------
(***************************************************************************)
(* PEERS                                                                   *)
(***************************************************************************)

\* An empty list is reported and nothing changes; otherwise print_peer
\* starts at the head.  No mutex is taken.
Peers ==
  /\ MainAt("idle")
  /\ peer_list # NULL
  /\ mpc' = "print_peer"
  /\ mcur' = peer_list
  /\ UNCHANGED <<heap, locks, marg, mprev, mnext, clientVars, proc>>

PrintPeerStep ==
  /\ MainAt("print_peer")
  /\ mcur # NULL
  /\ mcur' = next[mcur]
  /\ UNCHANGED <<heap, locks, mpc, marg, mprev, mnext, clientVars, proc>>

PrintPeerEnd ==
  /\ MainAt("print_peer")
  /\ mcur = NULL
  /\ Prompt
  /\ UNCHANGED <<heap, locks, clientVars, proc>>

-----------------------------------------------------------------------------
(***************************************************************************)
(* CONNECT a                                                               *)
(***************************************************************************)

\* The main thread takes the global mutex at l, loads the head and goes on
\* at m.
LockAndLoadHead(l, m) ==
  /\ MainAt(l)
  /\ peer_list_mutex = "unlocked"
  /\ peer_list_mutex' = "locked"
  /\ mpc' = m
  /\ mcur' = peer_list
  /\ UNCHANGED <<heap, copy_mutex, marg, mprev, mnext, clientVars, proc>>

\* The main thread takes up a command with argument a and goes to l.
Begin(l, a) ==
  /\ MainAt("idle")
  /\ mpc' = l
  /\ marg' = a
  /\ UNCHANGED <<heap, locks, mcur, mprev, mnext, clientVars, proc>>

\* A peer object must be left for the CONNECT (the bound of the model).
Connect(a) == (\E p \in Peer : mem[p] = "fresh") /\ Begin("lock_get", a)

GetPeerLock == LockAndLoadHead("lock_get", "get_peer")

\* Mutant: get_peer does not advance its cursor.
GetPeerStuck ==
  /\ MainAt("get_peer")
  /\ mcur # NULL
  /\ addr[mcur] # marg
  /\ UNCHANGED vars

GetPeerStep ==
  /\ MainAt("get_peer")
  /\ mcur # NULL
  /\ addr[mcur] # marg
  /\ mcur' = next[mcur]
  /\ UNCHANGED <<heap, locks, mpc, marg, mprev, mnext, clientVars, proc>>

\* "Error: Connection already made"
GetPeerFound ==
  /\ MainAt("get_peer")
  /\ mcur # NULL
  /\ addr[mcur] = marg
  /\ peer_list_mutex' = "unlocked"
  /\ Prompt
  /\ UNCHANGED <<heap, copy_mutex, clientVars, proc>>

\* The address is not listed.  The mutex is released before the new peer
\* is allocated, connected and listed.
GetPeerNone ==
  /\ MainAt("get_peer")
  /\ mcur = NULL
  /\ peer_list_mutex' = "unlocked"
  /\ mpc' = "create"
  /\ UNCHANGED <<heap, copy_mutex, marg, mcur, mprev, mnext, clientVars, proc>>

\* The heap and the thread of a CONNECT: p becomes allocated for the address
\* of the command and its client thread starts.
AllocateAndStart(p) ==
  /\ MainAt("create")
  /\ mem[p] = "fresh"
  /\ mem' = [mem EXCEPT ![p] = "alloc"]
  /\ addr' = [addr EXCEPT ![p] = marg]
  /\ cpc' = [cpc EXCEPT ![p] = "client"]
  /\ Prompt

\* Mutant: the peer is put at the head of the list before it is connected.
CreateClientListsFirst(p) ==
  /\ AllocateAndStart(p)
  /\ peer_list' = p
  /\ next' = [next EXCEPT ![p] = peer_list]
  /\ copy_mutex' = [copy_mutex EXCEPT ![p] = peer_list_mutex]
  /\ UNCHANGED <<sock, peer_list_mutex, cur, proc>>

\* Mutant: the mutex is copied into the package while it is still held.
CreateClientCopiesLocked(p) ==
  /\ AllocateAndStart(p)
  /\ next' = [next EXCEPT ![p] = NULL]
  /\ copy_mutex' = [copy_mutex EXCEPT ![p] = "locked"]
  /\ UNCHANGED <<peer_list, sock, peer_list_mutex, cur, proc>>

\* Initialises the peer and its package, which gets a COPY of the mutex
\* (a struct assignment), then creates and detaches the client thread.
CreateClient(p) ==
  /\ AllocateAndStart(p)
  /\ next' = [next EXCEPT ![p] = NULL]
  /\ copy_mutex' = [copy_mutex EXCEPT ![p] = peer_list_mutex]
  /\ UNCHANGED <<peer_list, sock, peer_list_mutex, cur, proc>>

\* pthread_create fails: both objects are freed, and control falls through
\* to pthread_detach of an uninitialised thread id, which either returns an
\* error or faults.
CreateClientFails(p) ==
  /\ MainAt("create")
  /\ mem[p] = "fresh"
  /\ mem' = [mem EXCEPT ![p] = "freed"]
  /\ addr' = [addr EXCEPT ![p] = marg]
  /\ copy_mutex' = [copy_mutex EXCEPT ![p] = peer_list_mutex]
  /\ cpc' = [cpc EXCEPT ![p] = "unstarted"]
  /\ proc' \in {"running", "aborted"}
  /\ Prompt
  /\ UNCHANGED <<peer_list, next, sock, peer_list_mutex, cur>>

-----------------------------------------------------------------------------
(***************************************************************************)
(* DISCONNECT a                                                            *)
(***************************************************************************)

Disconnect(a) == Begin("lock_remove", a)

\* current = *peer_list; previous = NULL (as at the prompt)
RemovePeerLock == LockAndLoadHead("lock_remove", "remove_peer")

RemovePeerStep ==
  /\ MainAt("remove_peer")
  /\ mcur # NULL
  /\ addr[mcur] # marg
  /\ mprev' = mcur
  /\ mcur' = next[mcur]
  /\ UNCHANGED <<heap, locks, mpc, marg, mnext, clientVars, proc>>

\* "Unknown peer, not connected"
RemovePeerUnknown ==
  /\ MainAt("remove_peer")
  /\ mcur = NULL
  /\ peer_list_mutex' = "unlocked"
  /\ Prompt
  /\ UNCHANGED <<heap, copy_mutex, clientVars, proc>>

\* Mutant: any peer on the list matches.
RemovePeerMatchAny ==
  /\ MainAt("remove_peer")
  /\ mcur # NULL
  /\ mnext' = next[mcur]
  /\ mpc' = "unlink"
  /\ UNCHANGED <<heap, locks, marg, mcur, mprev, clientVars, proc>>

\* The peer is found: current->next is loaded ...
RemovePeerMatch ==
  /\ MainAt("remove_peer")
  /\ mcur # NULL
  /\ addr[mcur] = marg
  /\ mnext' = next[mcur]
  /\ mpc' = "unlink"
  /\ UNCHANGED <<heap, locks, marg, mcur, mprev, clientVars, proc>>

\* Mutant: the first node is freed without being unlinked.
RemovePeerKeepsHead ==
  /\ MainAt("unlink")
  /\ next' = IF mprev = NULL THEN next ELSE [next EXCEPT ![mprev] = mnext]
  /\ mpc' = "free_removed"
  /\ UNCHANGED <<peer_list, addr, mem, sock, locks, marg, mcur, mprev, mnext,
                 clientVars, proc>>

\* ... and stored in the head or in previous->next.
RemovePeerUnlink ==
  /\ MainAt("unlink")
  /\ IF mprev = NULL
       THEN peer_list' = mnext /\ UNCHANGED next
       ELSE next' = [next EXCEPT ![mprev] = mnext] /\ UNCHANGED peer_list
  /\ mpc' = "free_removed"
  /\ UNCHANGED <<addr, mem, sock, locks, marg, mcur, mprev, mnext, clientVars, proc>>

\* The effect of close(n->socket_fd); free(n).
CloseAndFree(n) ==
  /\ sock' = [sock EXCEPT ![n] = "closed"]
  /\ mem' = [mem EXCEPT ![n] = "freed"]

RemovePeerFree ==
  /\ MainAt("free_removed")
  /\ CloseAndFree(mcur)
  /\ peer_list_mutex' = "unlocked"
  /\ Prompt
  /\ UNCHANGED <<peer_list, addr, next, copy_mutex, clientVars, proc>>

-----------------------------------------------------------------------------
(***************************************************************************)
(* QUIT and end of input                                                   *)
(***************************************************************************)

\* QUIT, from the end of the shutdown handshake (module Server) on.
Quit == Begin("lock_free", NULL)

\* free_peer starts at the head, which is never reset.
FreePeerLock == LockAndLoadHead("lock_free", "free_peer")

\* nextnode = currentnode->next
FreePeerLoad ==
  /\ MainAt("free_peer")
  /\ mcur # NULL
  /\ mnext' = next[mcur]
  /\ mpc' = "free_node"
  /\ UNCHANGED <<heap, locks, marg, mcur, mprev, clientVars, proc>>

FreePeerNode ==
  /\ MainAt("free_node")
  /\ CloseAndFree(mcur)
  /\ mcur' = mnext
  /\ mnext' = NULL
  /\ mpc' = "free_peer"
  /\ UNCHANGED <<peer_list, addr, next, locks, marg, mprev, clientVars, proc>>

\* The configuration and the packages are freed and the mutex released.
FreePeerEnd ==
  /\ MainAt("free_peer")
  /\ mcur = NULL
  /\ peer_list_mutex' = "unlocked"
  /\ mpc' = "quit"
  /\ UNCHANGED <<heap, copy_mutex, marg, mcur, mprev, mnext, clientVars, proc>>

\* main returns 0, ending every thread that is still running.
ExitMain ==
  /\ MainAt("quit")
  /\ proc' = "exited"
  /\ UNCHANGED <<heap, locks, mainVars, clientVars>>

\* fgets returns NULL: exit(EXIT_SUCCESS) with nothing freed.
EndOfInput ==
  /\ MainAt("idle")
  /\ proc' = "exited"
  /\ UNCHANGED <<heap, locks, mainVars, clientVars>>

\* A command ends the process: its argument is longer than the array it is
\* copied to (ip and portstring in validIP, ipport, processedfile, identifier),
\* which AddressSanitizer reports, or it is one on packages that faults, or
\* exits with an error.
CommandEnds ==
  /\ MainAt("idle")
  /\ proc' = "aborted"
  /\ UNCHANGED <<heap, locks, mainVars, clientVars>>

-----------------------------------------------------------------------------
(***************************************************************************)
(* client_thread                                                           *)
(***************************************************************************)

ClientAt(p, l) == proc = "running" /\ cpc[p] = l

\* client(): socket, inet_pton and connect succeed and socket_fd is set.
ClientConnected(p) ==
  /\ ClientAt(p, "client")
  /\ sock' = [sock EXCEPT ![p] = "open"]
  /\ cpc' = [cpc EXCEPT ![p] = "test_head"]
  /\ UNCHANGED <<peer_list, addr, next, mem, locks, mainVars, cur, proc>>

\* client(): inet_pton or connect fails and the socket is closed.
ClientRefused(p) ==
  /\ ClientAt(p, "client")
  /\ sock' = [sock EXCEPT ![p] = "closed"]
  /\ cpc' = [cpc EXCEPT ![p] = "failed"]
  /\ UNCHANGED <<peer_list, addr, next, mem, locks, mainVars, cur, proc>>

\* client(): socket() fails and client() itself frees the peer.
ClientNoSocket(p) ==
  /\ ClientAt(p, "client")
  /\ mem' = [mem EXCEPT ![p] = "freed"]
  /\ cpc' = [cpc EXCEPT ![p] = "failed"]
  /\ UNCHANGED <<peer_list, addr, next, sock, locks, mainVars, cur, proc>>

\* The else branch of client_thread frees the peer (and the package) ...
ClientFree(p) ==
  /\ ClientAt(p, "failed")
  /\ mem[p] = "alloc"
  /\ mem' = [mem EXCEPT ![p] = "freed"]
  /\ cpc' = [cpc EXCEPT ![p] = "done"]
  /\ UNCHANGED <<peer_list, addr, next, sock, locks, mainVars, cur, proc>>

\* ... for the second time when client() did.
ClientDoubleFree(p) ==
  /\ ClientAt(p, "failed")
  /\ mem[p] = "freed"
  /\ proc' = "aborted"
  /\ UNCHANGED <<heap, locks, mainVars, clientVars>>

\* Locks the package's copy of the mutex; add_peer tests *peer_list == NULL.
AddPeerTestHead(p) ==
  /\ ClientAt(p, "test_head")
  /\ copy_mutex[p] = "unlocked"
  /\ copy_mutex' = [copy_mutex EXCEPT ![p] = "locked"]
  /\ cpc' = [cpc EXCEPT ![p] = IF peer_list = NULL THEN "set_head" ELSE "load_head"]
  /\ UNCHANGED <<heap, peer_list_mutex, mainVars, cur, proc>>

\* add_peer returns, the copy is unlocked, the package freed.
AddPeerReturn(p) ==
  /\ copy_mutex' = [copy_mutex EXCEPT ![p] = "unlocked"]
  /\ cpc' = [cpc EXCEPT ![p] = "done"]
  /\ cur' = [cur EXCEPT ![p] = NULL]

\* Mutant: add_peer does not return after setting the head of an empty list
\* and goes on to link the peer behind itself.
AddPeerSetHeadFallsThrough(p) ==
  /\ ClientAt(p, "set_head")
  /\ peer_list' = p
  /\ cpc' = [cpc EXCEPT ![p] = "load_head"]
  /\ UNCHANGED <<addr, next, mem, sock, locks, mainVars, cur, proc>>

\* *peer_list = peer
AddPeerSetHead(p) ==
  /\ ClientAt(p, "set_head")
  /\ peer_list' = p
  /\ AddPeerReturn(p)
  /\ UNCHANGED <<addr, next, mem, sock, peer_list_mutex, mainVars, proc>>

\* current = *peer_list, loaded anew
AddPeerLoadHead(p) ==
  /\ ClientAt(p, "load_head")
  /\ cur' = [cur EXCEPT ![p] = peer_list]
  /\ cpc' = [cpc EXCEPT ![p] = "test_next"]
  /\ UNCHANGED <<heap, locks, mainVars, proc>>

\* while (current->next != NULL)
AddPeerTestNext(p) ==
  /\ ClientAt(p, "test_next")
  /\ Live(cur[p])
  /\ cpc' = [cpc EXCEPT ![p] = IF next[cur[p]] = NULL THEN "link" ELSE "load_next"]
  /\ UNCHANGED <<heap, locks, mainVars, cur, proc>>

\* current = current->next, loaded anew
AddPeerLoadNext(p) ==
  /\ ClientAt(p, "load_next")
  /\ Live(cur[p])
  /\ cur' = [cur EXCEPT ![p] = next[cur[p]]]
  /\ cpc' = [cpc EXCEPT ![p] = "test_next"]
  /\ UNCHANGED <<heap, locks, mainVars, proc>>

\* current->next = peer
AddPeerLink(p) ==
  /\ ClientAt(p, "link")
  /\ Live(cur[p])
  /\ next' = [next EXCEPT ![cur[p]] = p]
  /\ AddPeerReturn(p)
  /\ UNCHANGED <<peer_list, addr, mem, sock, peer_list_mutex, mainVars, proc>>

\* add_peer is about to dereference current.
Dereferencing(p) == cpc[p] \in {"test_next", "load_next", "link"}

\* A dereference of NULL or of freed memory ends the process.
AddPeerFault(p) ==
  /\ proc = "running"
  /\ Dereferencing(p)
  /\ ~Live(cur[p])
  /\ proc' = "aborted"
  /\ UNCHANGED <<heap, locks, mainVars, clientVars>>

-----------------------------------------------------------------------------

\* The process is over.
Terminated == proc # "running" /\ UNCHANGED vars

\* What the main thread does without waiting for the user.
MainStep ==
  \/ PrintPeerStep \/ PrintPeerEnd
  \/ GetPeerLock \/ GetPeerStep \/ GetPeerFound \/ GetPeerNone
  \/ \E p \in Peer : CreateClient(p) \/ CreateClientFails(p)
  \/ RemovePeerLock \/ RemovePeerStep \/ RemovePeerUnknown
  \/ RemovePeerMatch \/ RemovePeerUnlink \/ RemovePeerFree
  \/ FreePeerLock \/ FreePeerLoad \/ FreePeerNode \/ FreePeerEnd \/ ExitMain

\* What the user types.
Command ==
  \/ Peers
  \/ \E a \in Addr : Connect(a) \/ Disconnect(a)
  \/ Quit
  \/ EndOfInput
  \/ CommandEnds

\* The connection attempt of client().
ClientAttempt(p) == ClientConnected(p) \/ ClientRefused(p) \/ ClientNoSocket(p)

AddPeerStep(p) ==
  \/ AddPeerTestHead(p) \/ AddPeerSetHead(p) \/ AddPeerLoadHead(p)
  \/ AddPeerTestNext(p) \/ AddPeerLoadNext(p) \/ AddPeerLink(p)
  \/ AddPeerFault(p)

ClientStep(p) ==
  \/ ClientAttempt(p)
  \/ ClientFree(p) \/ ClientDoubleFree(p)
  \/ AddPeerStep(p)

Next == Command \/ MainStep \/ (\E p \in Peer : ClientStep(p)) \/ Terminated

Spec == Init /\ [][Next]_vars

\* The scheduler runs every thread that can run, and the kernel answers
\* every connect() in the end (accepted, refused or timed out).  Nothing is
\* assumed of the user.
Fairness == WF_vars(MainStep) /\ \A p \in Peer : WF_vars(ClientStep(p))

FairSpec == Spec /\ Fairness

-----------------------------------------------------------------------------
(***************************************************************************)
(* What the list holds                                                     *)
(***************************************************************************)

\* The node reached by k steps of current = current->next from the head.
Hop[k \in 0..Cardinality(Peer)] ==
  IF k = 0 THEN peer_list
  ELSE IF Hop[k - 1] = NULL THEN NULL ELSE next[Hop[k - 1]]

Listed == {Hop[k] : k \in DOMAIN Hop} \ {NULL}

\* free_peer has started: the list is being torn down.
Quitting == mpc \in {"free_peer", "free_node", "quit"}

(***************************************************************************)
(* Safety                                                                  *)
(***************************************************************************)

\* The main thread never dereferences freed memory: print_peer, get_peer,
\* remove_peer and free_peer walk live objects only, and remove_peer and
\* free_peer free an object exactly once, although client threads rewrite
\* the links under them without excluding them.
MainDerefsLive ==
  /\ mpc \in {"print_peer", "get_peer", "remove_peer", "free_peer"} /\ mcur # NULL
       => Live(mcur)
  /\ mpc \in {"unlink", "free_removed", "free_node"} => Live(mcur)
  /\ mpc = "unlink" /\ mprev # NULL => Live(mprev)

\* Until QUIT tears the list down, everything on it is an allocated peer
\* with an open connection whose client thread is past its last access:
\* PEERS never shows a peer that is still connecting, failed or was removed.
ListedEstablished ==
  ~Quitting => \A p \in Listed : Live(p) /\ sock[p] = "open" /\ cpc[p] = "done"

\* No peer object is freed (by DISCONNECT, QUIT or a failed attempt) while
\* its own client thread may still use it, the double free after a failed
\* socket() apart.
FreedAfterClient ==
  \A p \in Peer : mem[p] = "freed" =>
    cpc[p] \in {"done", "unstarted"} \/ (cpc[p] = "failed" /\ sock[p] = "none")

\* A peer object is never freed with its socket open: whoever frees it
\* closed the connection first, so no descriptor outlives its peer.
NoOpenFreed == \A p \in Peer : mem[p] = "freed" => sock[p] # "open"

\* Whatever the interleaving of unlocked appends and removals, the list
\* never becomes a cycle: every walk of it ends.
ListEnds == Hop[Cardinality(Peer)] = NULL

\* The list can be followed to its end, over connected peers only.
ListIntact == ListEnds /\ ListedEstablished

\* Nothing that happens to a peer object happens in the wrong order: its
\* thread is through with it and its socket is closed when it is freed, and
\* no pointer was ever left uninitialised.
PeersSafe == TypeOK /\ FreedAfterClient /\ NoOpenFreed

\* A peer that its client thread has listed is freed only by a DISCONNECT
\* that names its address or by QUIT: never by a failed attempt, another
\* client thread or a DISCONNECT of another peer, even when unlocked appends
\* rewrite the links between the search of remove_peer and its free.
FreedOnCommand ==
  [][\A p \in Peer :
       cpc[p] = "done" /\ mem[p] = "alloc" /\ mem'[p] = "freed" =>
         \/ mpc = "free_removed" /\ addr[p] = marg
         \/ mpc = "free_node"]_vars

(***************************************************************************)
(* What the repository says of the list, and the code does not keep        *)
(***************************************************************************)

\* README: operations on the list are "mutex_locked to prevent data races
\* and unintended changes".  A peer whose client thread has listed it stays
\* listed until DISCONNECT or QUIT removes it.
NoLostPeer ==
  proc = "running" /\ ~Quitting =>
    \A p \in Peer :
      cpc[p] = "done" /\ sock[p] = "open" /\ ~(mpc = "free_removed" /\ p = mcur)
        => p \in Listed

\* test2.exe, test 10: a second CONNECT to the same address is answered
\* "Error: Connection already made", so no address is listed twice.
NoDuplicatePeer ==
  ~Quitting => \A p, q \in Listed : addr[p] = addr[q] => p = q

(***************************************************************************)
(* Liveness                                                                *)
(***************************************************************************)

\* Every command returns to the prompt or ends the process: no walk of the
\* list goes on for ever and no mutex is waited for in vain.
CommandCompletes == mpc # "idle" ~> (mpc = "idle" \/ proc # "running")

\* Every client thread finishes: it is never blocked on its copy of the
\* mutex and its walk to the tail ends.
ClientCompletes ==
  \A p \in Peer : cpc[p] = "client" ~> (cpc[p] = "done" \/ proc # "running")
=============================================================================
