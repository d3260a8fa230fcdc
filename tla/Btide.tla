-------------------------------- MODULE Btide --------------------------------
(***************************************************************************)
(* btide as a whole: the peer list with its client threads (PeerList) and  *)
(* the server thread with its shutdown handshake (Server), which meet in   *)
(* three places.                                                           *)
(*                                                                         *)
(*   - One main thread runs the commands of both: a peer command is taken  *)
(*     up at the prompt of Server, and QUIT frees the peers between its    *)
(*     pthread_join and the end of main().                                 *)
(*   - One table of descriptors: the socket of a client thread and each    *)
(*     file that ADDPACKAGE opens take the lowest free number, and a       *)
(*     close() closes whatever that number stands for by then.             *)
(*   - One process: when it ends, every thread ends.                       *)
(*                                                                         *)
(* The variables of PeerList keep their names; where Server has the same,  *)
(* its instance is given another.  An action conjoins what the components  *)
(* do in the same step.  Of the commands on packages only ADDPACKAGE opens *)
(* anything: its descriptors are here, what it does with the files is in   *)
(* Package and DataFile.                                                   *)
(***************************************************************************)
EXTENDS PeerList

CONSTANTS Fd, Backlog   \* of Server

ASSUME ServerAssumption == Fd \subseteq Nat /\ Backlog \in Nat

VARIABLES
  config, table, efd, ecount, shutdown_flag, shutdown_mutex, server_fd,
  epoll_fd, watched, ready, events, backlog,   \* of Server
  handshake,     \* where the main thread is in main() and in QUIT: its mpc
  spc,           \* where the server thread is
  end,           \* how the process ended on its side: its proc
  fd,            \* sockfd, from connecting on also peer->socket_fd
  file_fd        \* the descriptor of the file that ADDPACKAGE has open

S == INSTANCE Server WITH mpc <- handshake, proc <- end

serverVars == <<config, table, efd, ecount, shutdown_flag, shutdown_mutex, server_fd,
                epoll_fd, watched, ready, events, backlog, handshake, spc, end>>
ownVars == <<fd, file_fd>>
btideVars == <<vars, serverVars, ownVars>>

BtideInit ==
  /\ Init
  /\ S!Init
  /\ fd = [p \in Peer |-> S!NoFd]
  /\ file_fd = S!NoFd

\* No part has ended the process.
Alive == proc = "running" /\ end = "running"

AtPrompt == S!MainAt("prompt") /\ mpc = "idle" /\ file_fd = S!NoFd

-----------------------------------------------------------------------------
(***************************************************************************)
(* Descriptors of client threads                                           *)
(***************************************************************************)

\* close(f): an error when the number is not open any more.
Close(f) ==
  IF f # S!NoFd /\ table[f] = "other" THEN S!OtherClose(f) ELSE UNCHANGED serverVars

CloseSocket(p) == Close(fd[p])

\* The peers whose socket is open, in a connection attempt or established.
Socketed == {p \in Peer : fd[p] # S!NoFd /\ sock[p] # "closed"}

\* client(): socket() returns the lowest free number.
ClientSocket(p, f) ==
  /\ ClientAt(p, "client")
  /\ fd[p] = S!NoFd
  /\ S!OtherOpen(f)
  /\ fd' = [fd EXCEPT ![p] = f]
  /\ UNCHANGED <<vars, file_fd>>

\* client(): connect() succeeds; on a number that was closed it fails.
ClientConnects(p) ==
  /\ fd[p] # S!NoFd /\ table[fd[p]] = "other"
  /\ ClientConnected(p)
  /\ UNCHANGED <<serverVars, ownVars>>

\* Mutant: sockfd is shared by the client threads.
ClientCloseRefusedAny(p) ==
  /\ fd[p] # S!NoFd
  /\ ClientRefused(p)
  /\ \E q \in Peer : CloseSocket(q)
  /\ UNCHANGED ownVars

\* client(): inet_pton or connect fails, sockfd is closed.
ClientCloseRefused(p) ==
  /\ fd[p] # S!NoFd
  /\ ClientRefused(p)
  /\ CloseSocket(p)
  /\ UNCHANGED ownVars

\* client(): socket() fails.
ClientSocketFails(p) ==
  /\ fd[p] = S!NoFd
  /\ ClientNoSocket(p)
  /\ UNCHANGED <<serverVars, ownVars>>

\* The rest of client_thread uses no descriptor.
ClientLists(p) ==
  /\ ClientFree(p) \/ ClientDoubleFree(p) \/ AddPeerStep(p)
  /\ UNCHANGED <<serverVars, ownVars>>

ClientThread(p) ==
  \/ \E f \in Fd : ClientSocket(p, f)
  \/ ClientConnects(p) \/ ClientCloseRefused(p) \/ ClientSocketFails(p)
  \/ ClientLists(p)

-----------------------------------------------------------------------------
(***************************************************************************)
(* The main thread                                                         *)
(***************************************************************************)

\* A command on the peer list is read at the prompt.
PeerCommand ==
  /\ AtPrompt
  /\ Peers \/ \E a \in Addr : Connect(a) \/ Disconnect(a)
  /\ UNCHANGED <<serverVars, ownVars>>

\* PEERS, CONNECT and the search of DISCONNECT.
PeerCommandStep ==
  /\ \/ PrintPeerStep \/ PrintPeerEnd
     \/ GetPeerLock \/ GetPeerStep \/ GetPeerFound \/ GetPeerNone
     \/ \E p \in Peer : CreateClient(p) \/ CreateClientFails(p)
     \/ RemovePeerLock \/ RemovePeerStep \/ RemovePeerUnknown
     \/ RemovePeerMatch \/ RemovePeerUnlink
  /\ UNCHANGED <<serverVars, ownVars>>

\* remove_peer and free_peer close the socket of the peer they free.
PeerClose ==
  /\ \/ RemovePeerFree
     \/ FreePeerNode
  /\ CloseSocket(mcur)
  /\ UNCHANGED ownVars

\* main() before the prompt, and the handshake of QUIT.
Handshake ==
  /\ \/ \E f \in Fd : S!MainEventfd(f)
     \/ S!MainEventfdFails \/ S!MainCreateServer
     \/ S!QuitLock \/ S!QuitSetFlag \/ S!QuitWriteEfd \/ S!QuitJoin \/ S!QuitJoinGarbage
     \/ S!MainCloseEfd
  /\ UNCHANGED <<vars, ownVars>>

QuitTyped ==
  /\ AtPrompt
  /\ S!Quit
  /\ UNCHANGED <<vars, ownVars>>

\* Mutant: QUIT frees the peers before it has woken and joined the server
\* thread.
QuitFreesPeersEarly ==
  /\ S!MainAt("set_flag")
  /\ Quit
  /\ UNCHANGED <<serverVars, ownVars>>

\* Joined (or failed to): QUIT goes on to the peers ...
QuitFreesPeers ==
  /\ S!MainAt("free")
  /\ Quit
  /\ UNCHANGED <<serverVars, ownVars>>

QuitFreesPeersStep == (FreePeerLock \/ FreePeerLoad) /\ UNCHANGED <<serverVars, ownVars>>

\* Mutant: main_loop is not reset and the next command is read.
QuitFreesConfigLoops ==
  /\ MainAt("free_peer")
  /\ mcur = NULL
  /\ peer_list_mutex' = "unlocked"
  /\ Prompt
  /\ config' = "freed"
  /\ handshake' = "prompt"
  /\ UNCHANGED <<heap, copy_mutex, clientVars, proc, table, efd, ecount, shutdown_flag,
                 shutdown_mutex, server_fd, epoll_fd, watched, ready, events, backlog,
                 spc, end, ownVars>>

\* ... and after the last one frees the configuration and the packages.
QuitFreesConfig ==
  /\ FreePeerEnd
  /\ S!QuitFree
  /\ UNCHANGED ownVars

MainReturns ==
  /\ ExitMain
  /\ S!MainReturns
  /\ UNCHANGED ownVars

\* Mutant: the end of the input leaves the command loop, as QUIT does.
InputEndsLoop ==
  /\ AtPrompt
  /\ handshake' = "close_efd"
  /\ UNCHANGED <<vars, config, table, efd, ecount, shutdown_flag, shutdown_mutex,
                 server_fd, epoll_fd, watched, ready, events, backlog, spc, end, ownVars>>

InputEnds ==
  /\ AtPrompt
  /\ EndOfInput
  /\ S!EndOfInput
  /\ UNCHANGED ownVars

-----------------------------------------------------------------------------
(***************************************************************************)
(* ADDPACKAGE                                                              *)
(***************************************************************************)

\* add_package opens, one after the other, the package file to check and to
\* load it and the data file to look for it, to make it and to hash its
\* chunks.  Each open is a step from the prompt: what lies between two of them
\* uses no descriptor, and a call that fails leaves none.
AddOpen(f) ==
  /\ AtPrompt
  /\ S!OtherOpen(f)
  /\ file_fd' = f
  /\ UNCHANGED <<vars, fd>>

\* Each file is closed before the next one is opened or the command returns.
AddClose ==
  /\ file_fd # S!NoFd
  /\ Close(file_fd)
  /\ file_fd' = S!NoFd
  /\ UNCHANGED <<vars, fd>>

\* A command ends the process, with a file open or not: nothing outlives it.
CommandFaults ==
  /\ AtPrompt
  /\ CommandEnds
  /\ UNCHANGED <<serverVars, ownVars>>

BtideMain ==
  \/ PeerCommandStep \/ PeerClose \/ Handshake
  \/ QuitFreesPeers \/ QuitFreesPeersStep \/ QuitFreesConfig \/ MainReturns
  \/ AddClose

UserInput == PeerCommand \/ (\E f \in Fd : AddOpen(f)) \/ CommandFaults \/ QuitTyped \/ InputEnds

-----------------------------------------------------------------------------
(***************************************************************************)
(* The server thread and the process                                       *)
(***************************************************************************)

ServerStart == S!ServerStart /\ UNCHANGED <<vars, ownVars>>
ServerLoop == S!ServerLoop /\ UNCHANGED <<vars, ownVars>>
Remote == S!RemoteConnect /\ UNCHANGED <<vars, ownVars>>

Ended == ~Alive /\ UNCHANGED btideVars

BtideNext ==
  \/ /\ Alive
     /\ \/ UserInput \/ BtideMain \/ ServerStart \/ ServerLoop \/ Remote
        \/ \E p \in Peer : ClientThread(p)
  \/ Ended

BtideSpec == BtideInit /\ [][BtideNext]_btideVars

ShuttingDown == Alive /\ handshake # "prompt"

\* Once QUIT is typed the main thread and the server thread are scheduled;
\* before, and of the client threads, nothing is assumed.
BtideFairness ==
  /\ WF_btideVars(ShuttingDown /\ BtideMain)
  /\ WF_btideVars(ShuttingDown /\ (ServerStart \/ (ServerLoop /\ ~S!ServerWaitFails)))

BtideFairSpec == BtideSpec /\ BtideFairness

-----------------------------------------------------------------------------
(***************************************************************************)
(* Properties                                                              *)
(***************************************************************************)

\* The composition adds no behaviour to a component: seen alone, the peer
\* list and the server thread do what their own modules say, whatever the
\* other threads do to the descriptors and to the main thread.
ComponentsKept == Spec /\ S!Spec

\* While the server thread is in its loop every connection and the file of
\* ADDPACKAGE have a descriptor of their own, and none has one of the program:
\* whoever closes its own closes nothing else.
SocketsApart ==
  spc \in {"wait", "dispatch", "read_efd", "lock", "test_flag"} =>
    /\ \A p \in Socketed :
         /\ table[fd[p]] = "other"
         /\ fd[p] # file_fd
         /\ \A q \in Socketed : fd[p] = fd[q] => p = q
    /\ file_fd # S!NoFd => table[file_fd] = "other"

\* An established connection is closed by the DISCONNECT that names its peer
\* or by QUIT, and otherwise only if it got one of the numbers that the server
\* thread closes a second time after registering the listening socket failed:
\* by that second close, or after it by a thread that still holds the number,
\* be it a client thread, DISCONNECT of another peer or ADDPACKAGE with the
\* file it had open.
ConnectionKept ==
  [][\A p \in Peer :
       /\ sock[p] = "open" /\ sock'[p] = "open"
       /\ table[fd[p]] = "other" /\ table'[fd[p]] # "other"
       => /\ fd[p] \in {server_fd, epoll_fd}
          /\ \/ spc = "add_efd" /\ spc' = "exited" /\ watched = {}
             \/ /\ spc = "exited"
                /\ file_fd = fd[p] \/ \E q \in Socketed \ {p} : fd[q] = fd[p]]_btideVars

\* When QUIT frees the peers, the server thread is past its last step: what
\* the main thread tears down is used by client threads only.
PeersFreedAfterServer ==
  mpc \in {"lock_free", "free_peer", "free_node", "quit"} =>
    spc \in {"exited", "uncreated"}

\* QUIT ends the process although client threads go on connecting and
\* rewriting the list under free_peer.
QuitEnds == handshake = "lock" ~> ~Alive
=============================================================================
