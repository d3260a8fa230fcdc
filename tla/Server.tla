------------------------------- MODULE Server -------------------------------
(***************************************************************************)
(* The server thread of btide and its shutdown handshake with the main     *)
(* thread: QUIT sets shutdown_flag, writes the eventfd efd that the server *)
(* thread's edge-triggered epoll instance watches, joins the thread and    *)
(* only then frees what the thread reads.                                  *)
(*                                                                         *)
(* Descriptors are numbers of one table that every thread of the process   *)
(* allocates from, lowest free number first, because the error path of     *)
(* server() closes numbers that may no longer be its own.  Every system    *)
(* call that the code tests may fail.  epoll_wait interrupted by a signal  *)
(* is called again and changes nothing.  Commands other than QUIT return   *)
(* to the prompt or end the process as EndOfInput does; what they do is    *)
(* the subject of PeerList and Package.                                    *)
(***************************************************************************)
EXTENDS Integers

CONSTANTS
  Fd,        \* the descriptors left to the process after stdio
  Backlog    \* the second argument of listen

ASSUME FdAssumption == Fd \subseteq Nat
ASSUME BacklogAssumption == Backlog \in Nat

VARIABLES
  proc,             \* the state of the process
  config,           \* the heap block of the configuration
  table,            \* who opened a descriptor
  efd,              \* the global efd
  ecount,           \* the counter of the eventfd
  shutdown_flag,
  shutdown_mutex,   \* its owner
  mpc,              \* where the main thread is
  spc,              \* where the server thread is
  server_fd, epoll_fd,  \* the locals of server()
  watched,          \* the descriptors the epoll instance watches
  ready,            \* those it has an event for
  events,           \* those epoll_wait returned that are still to be looked at
  backlog           \* connections the kernel completed and nobody accepted

descriptors == <<table, efd, server_fd, epoll_fd>>
epoll == <<watched, ready, events>>
shutdown == <<shutdown_flag, shutdown_mutex>>
vars == <<proc, config, descriptors, ecount, shutdown, mpc, spc, epoll, backlog>>

NoFd == -1

MainPCs == {"eventfd", "create_server", "prompt", "lock", "set_flag", "write_efd",
            "join", "free", "close_efd", "returned"}

ServerPCs == {"none", "uncreated", "load_port", "socket", "nonblock", "bind", "listen",
              "epoll_create", "add_server", "add_efd", "wait", "dispatch", "read_efd",
              "lock", "test_flag", "exited"}

TypeOK ==
  /\ proc \in {"running", "aborted", "exit_success", "exit_failure"}
  /\ config \in {"alloc", "freed"}
  /\ table \in [Fd -> {"free", "efd", "server", "epoll", "other"}]
  /\ efd \in Fd \cup {NoFd}
  /\ ecount \in 0..1
  /\ shutdown_flag \in 0..1
  /\ shutdown_mutex \in {"unlocked", "main", "server"}
  /\ mpc \in MainPCs
  /\ spc \in ServerPCs
  /\ server_fd \in Fd \cup {NoFd}
  /\ epoll_fd \in Fd \cup {NoFd}
  /\ watched \in SUBSET Fd
  /\ ready \in SUBSET Fd
  /\ events \in SUBSET Fd
  /\ backlog \in 0..(Backlog + 1)

\* main() after config_load has returned a configuration.
Init ==
  /\ proc = "running"
  /\ config = "alloc"
  /\ table = [f \in Fd |-> "free"]
  /\ efd = NoFd
  /\ ecount = 0
  /\ shutdown_flag = 0
  /\ shutdown_mutex = "unlocked"
  /\ mpc = "eventfd"
  /\ spc = "none"
  /\ server_fd = NoFd
  /\ epoll_fd = NoFd
  /\ watched = {}
  /\ ready = {}
  /\ events = {}
  /\ backlog = 0

MainAt(l) == proc = "running" /\ mpc = l
ServerAt(l) == proc = "running" /\ spc = l

\* The number that open-like calls return: the lowest that is free.
Lowest(f) == table[f] = "free" /\ \A g \in Fd : table[g] = "free" => f <= g

\* exit() from any thread ends the process as it stands.
Exit(status) ==
  /\ proc' = status
  /\ UNCHANGED <<config, descriptors, ecount, shutdown, mpc, spc, epoll, backlog>>

-----------------------------------------------------------------------------
(***************************************************************************)
(* The main thread: main() and the QUIT branch of process_command          *)
(***************************************************************************)

\* eventfd succeeds; the test for an error compares with 1 instead of -1.
MainEventfd(f) ==
  /\ MainAt("eventfd")
  /\ Lowest(f)
  /\ table' = [table EXCEPT ![f] = "efd"]
  /\ efd' = f
  /\ proc' = IF f = 1 THEN "exit_failure" ELSE proc
  /\ mpc' = "create_server"
  /\ UNCHANGED <<config, server_fd, epoll_fd, ecount, shutdown, spc, epoll, backlog>>

\* eventfd fails: efd stays -1 and the program goes on.
MainEventfdFails ==
  /\ MainAt("eventfd")
  /\ mpc' = "create_server"
  /\ UNCHANGED <<proc, config, descriptors, ecount, shutdown, spc, epoll, backlog>>

\* The result of pthread_create is not tested.
MainCreateServer ==
  /\ MainAt("create_server")
  /\ spc' \in {"load_port", "uncreated"}
  /\ mpc' = "prompt"
  /\ UNCHANGED <<proc, config, descriptors, ecount, shutdown, epoll, backlog>>

\* fgets returns NULL
EndOfInput == MainAt("prompt") /\ Exit("exit_success")

Quit ==
  /\ MainAt("prompt")
  /\ mpc' = "lock"
  /\ UNCHANGED <<proc, config, descriptors, ecount, shutdown, spc, epoll, backlog>>

QuitLock ==
  /\ MainAt("lock")
  /\ shutdown_mutex = "unlocked"
  /\ shutdown_mutex' = "main"
  /\ mpc' = "set_flag"
  /\ UNCHANGED <<proc, config, descriptors, ecount, shutdown_flag, spc, epoll, backlog>>

\* Mutant: the flag is not set.
QuitSetNothing ==
  /\ MainAt("set_flag")
  /\ shutdown_mutex' = "unlocked"
  /\ mpc' = "write_efd"
  /\ UNCHANGED <<proc, config, descriptors, ecount, shutdown_flag, spc, epoll, backlog>>

\* shutdown_flag = 1; pthread_mutex_unlock
QuitSetFlag ==
  /\ MainAt("set_flag")
  /\ shutdown_flag' = 1
  /\ shutdown_mutex' = "unlocked"
  /\ mpc' = "write_efd"
  /\ UNCHANGED <<proc, config, descriptors, ecount, spc, epoll, backlog>>

\* write(efd, &u, sizeof u): an edge for an epoll instance that watches efd;
\* an ignored error when efd is -1.
QuitWriteEfd ==
  /\ MainAt("write_efd")
  /\ ecount' = IF efd = NoFd THEN ecount ELSE ecount + 1
  /\ ready' = IF efd \in watched THEN ready \cup {efd} ELSE ready
  /\ mpc' = "join"
  /\ UNCHANGED <<proc, config, descriptors, shutdown, spc, watched, events, backlog>>

\* Mutant: the server thread is not waited for.
QuitNoJoin ==
  /\ MainAt("join")
  /\ mpc' = "free"
  /\ UNCHANGED <<proc, config, descriptors, ecount, shutdown, spc, epoll, backlog>>

\* pthread_join(server_tid)
QuitJoin ==
  /\ MainAt("join")
  /\ spc = "exited"
  /\ mpc' = "free"
  /\ UNCHANGED <<proc, config, descriptors, ecount, shutdown, spc, epoll, backlog>>

\* pthread_join of the uninitialised id of a thread that was not created
\* returns an error or faults.
QuitJoinGarbage ==
  /\ MainAt("join")
  /\ spc = "uncreated"
  /\ proc' \in {"running", "aborted"}
  /\ mpc' = "free"
  /\ UNCHANGED <<config, descriptors, ecount, shutdown, spc, epoll, backlog>>

\* Peers, configuration and packages are freed and the command loop ends.
QuitFree ==
  /\ MainAt("free")
  /\ config' = "freed"
  /\ mpc' = "close_efd"
  /\ UNCHANGED <<proc, descriptors, ecount, shutdown, spc, epoll, backlog>>

\* close(efd), an ignored error when efd is -1
MainCloseEfd ==
  /\ MainAt("close_efd")
  /\ table' = IF efd = NoFd THEN table ELSE [table EXCEPT ![efd] = "free"]
  /\ mpc' = "returned"
  /\ UNCHANGED <<proc, config, efd, server_fd, epoll_fd, ecount, shutdown, spc, epoll,
                 backlog>>

MainReturns == MainAt("returned") /\ Exit("exit_success")

-----------------------------------------------------------------------------
(***************************************************************************)
(* The server thread                                                       *)
(***************************************************************************)

\* The server thread goes from l to m.
ServerGoto(l, m) ==
  /\ ServerAt(l)
  /\ spc' = m
  /\ UNCHANGED <<proc, config, descriptors, ecount, shutdown, mpc, epoll, backlog>>

\* port = *(int*) arg, a pointer into the configuration
ServerLoadPort == ServerGoto("load_port", "socket")

ServerSocket(f) ==
  /\ ServerAt("socket")
  /\ Lowest(f)
  /\ table' = [table EXCEPT ![f] = "server"]
  /\ server_fd' = f
  /\ spc' = "nonblock"
  /\ UNCHANGED <<proc, config, efd, epoll_fd, ecount, shutdown, mpc, epoll, backlog>>

\* A failure of F_SETFL is only reported.
Nonblock == ServerGoto("nonblock", "bind")
ServerBind == ServerGoto("bind", "listen")
ServerListen == ServerGoto("listen", "epoll_create")

\* A failure of socket, F_GETFL, bind, listen or epoll_create1 ends the
\* whole process.
ServerStartFails ==
  /\ spc \in {"socket", "nonblock", "bind", "listen", "epoll_create"}
  /\ proc = "running"
  /\ Exit("exit_failure")

ServerEpollCreate(f) ==
  /\ ServerAt("epoll_create")
  /\ Lowest(f)
  /\ table' = [table EXCEPT ![f] = "epoll"]
  /\ epoll_fd' = f
  /\ spc' = "add_server"
  /\ UNCHANGED <<proc, config, efd, server_fd, ecount, shutdown, mpc, epoll, backlog>>

\* EPOLL_CTL_ADD reports a descriptor that is ready already.
ServerAddServer ==
  /\ ServerAt("add_server")
  /\ watched' = watched \cup {server_fd}
  /\ ready' = IF backlog > 0 THEN ready \cup {server_fd} ELSE ready
  /\ spc' = "add_efd"
  /\ UNCHANGED <<proc, config, descriptors, ecount, shutdown, mpc, events, backlog>>

\* close(server_fd); close(epoll_fd): whatever these numbers stand for now.
\* Closing the listening socket drops its backlog, closing the epoll
\* instance what it watches.
CloseBoth ==
  /\ table' = [f \in Fd |-> IF f \in {server_fd, epoll_fd} THEN "free" ELSE table[f]]
  /\ backlog' = 0
  /\ watched' = {}
  /\ ready' = {}
  /\ events' = {}

\* Both descriptors are closed and server() goes on.
ServerAddServerFails ==
  /\ ServerAt("add_server")
  /\ CloseBoth
  /\ spc' = "add_efd"
  /\ UNCHANGED <<proc, config, efd, server_fd, epoll_fd, ecount, shutdown, mpc>>

ServerAddEfd ==
  /\ ServerAt("add_efd")
  /\ efd # NoFd
  /\ table[epoll_fd] = "epoll"
  /\ watched' = watched \cup {efd}
  /\ ready' = IF ecount > 0 THEN ready \cup {efd} ELSE ready
  /\ spc' = "wait"
  /\ UNCHANGED <<proc, config, descriptors, ecount, shutdown, mpc, events, backlog>>

\* Mutant: the thread goes on after the failure, as after the first one.
ServerAddEfdFailsGoesOn ==
  /\ ServerAt("add_efd")
  /\ CloseBoth
  /\ spc' = "wait"
  /\ UNCHANGED <<proc, config, efd, server_fd, epoll_fd, ecount, shutdown, mpc>>

\* efd is -1, epoll_fd is closed or the call fails: both numbers are closed
\* (for the second time after ServerAddServerFails) and the thread ends.
ServerAddEfdFails ==
  /\ ServerAt("add_efd")
  /\ CloseBoth
  /\ spc' = "exited"
  /\ UNCHANGED <<proc, config, efd, server_fd, epoll_fd, ecount, shutdown, mpc>>

\* epoll_wait returns every descriptor that has an event and forgets it.
ServerWait ==
  /\ ServerAt("wait")
  /\ ready # {}
  /\ events' = ready
  /\ ready' = {}
  /\ spc' = "dispatch"
  /\ UNCHANGED <<proc, config, descriptors, ecount, shutdown, mpc, watched, backlog>>

\* epoll_wait fails: the loop is left, the descriptors are closed.
ServerWaitFails ==
  /\ ServerAt("wait")
  /\ CloseBoth
  /\ spc' = "exited"
  /\ UNCHANGED <<proc, config, efd, server_fd, epoll_fd, ecount, shutdown, mpc>>

\* An event of the eventfd ...
ServerDispatchEfd ==
  /\ ServerAt("dispatch")
  /\ efd \in events
  /\ events' = events \ {efd}
  /\ spc' = "read_efd"
  /\ UNCHANGED <<proc, config, descriptors, ecount, shutdown, mpc, watched, ready, backlog>>

\* ... and one of the listening socket, for which nothing is done: accept is
\* never called.
ServerDispatchOther(f) ==
  /\ ServerAt("dispatch")
  /\ f \in events \ {efd}
  /\ events' = events \ {f}
  /\ UNCHANGED <<proc, config, descriptors, ecount, shutdown, mpc, spc, watched, ready,
                 backlog>>

ServerDispatchEnd == events = {} /\ ServerGoto("dispatch", "wait")

\* read(efd, ...) blocks while the counter is zero, and resets it.
ServerReadEfd ==
  /\ ServerAt("read_efd")
  /\ ecount > 0
  /\ ecount' = 0
  /\ spc' = "lock"
  /\ UNCHANGED <<proc, config, descriptors, shutdown, mpc, epoll, backlog>>

ServerLock ==
  /\ ServerAt("lock")
  /\ shutdown_mutex = "unlocked"
  /\ shutdown_mutex' = "server"
  /\ spc' = "test_flag"
  /\ UNCHANGED <<proc, config, descriptors, ecount, shutdown_flag, mpc, epoll, backlog>>

\* The mutex is released; with the flag set both descriptors are closed and
\* the thread ends, otherwise it looks at the next event.
ServerTestFlag ==
  /\ ServerAt("test_flag")
  /\ shutdown_mutex' = "unlocked"
  /\ IF shutdown_flag = 1
       THEN CloseBoth /\ spc' = "exited"
       ELSE spc' = "dispatch" /\ UNCHANGED <<table, epoll, backlog>>
  /\ UNCHANGED <<proc, config, efd, server_fd, epoll_fd, ecount, shutdown_flag, mpc>>

-----------------------------------------------------------------------------
(***************************************************************************)
(* The rest of the world                                                   *)
(***************************************************************************)

\* A remote CONNECT that the kernel completes: the listening socket accepts
\* handshakes until Backlog + 1 of them wait.
RemoteConnect ==
  /\ proc = "running"
  /\ spc \in {"epoll_create", "add_server", "add_efd", "wait", "dispatch", "read_efd",
              "lock", "test_flag"}
  /\ server_fd # NoFd /\ table[server_fd] = "server"
  /\ backlog <= Backlog
  /\ backlog' = backlog + 1
  /\ ready' = IF server_fd \in watched THEN ready \cup {server_fd} ELSE ready
  /\ UNCHANGED <<proc, config, descriptors, ecount, shutdown, mpc, spc, watched, events>>

\* Client threads and commands open descriptors of their own ...
OtherOpen(f) ==
  /\ proc = "running"
  /\ mpc \notin {"eventfd", "create_server"}
  /\ Lowest(f)
  /\ table' = [table EXCEPT ![f] = "other"]
  /\ UNCHANGED <<proc, config, efd, server_fd, epoll_fd, ecount, shutdown, mpc, spc, epoll,
                 backlog>>

\* ... and close them.
OtherClose(f) ==
  /\ proc = "running"
  /\ table[f] = "other"
  /\ table' = [table EXCEPT ![f] = "free"]
  /\ UNCHANGED <<proc, config, efd, server_fd, epoll_fd, ecount, shutdown, mpc, spc, epoll,
                 backlog>>

-----------------------------------------------------------------------------

Terminated == proc # "running" /\ UNCHANGED vars

\* What the main thread does without waiting for the user.
MainStep ==
  \/ \E f \in Fd : MainEventfd(f)
  \/ MainEventfdFails \/ MainCreateServer
  \/ QuitLock \/ QuitSetFlag \/ QuitWriteEfd \/ QuitJoin \/ QuitJoinGarbage
  \/ QuitFree \/ MainCloseEfd \/ MainReturns

Command == Quit \/ EndOfInput

ServerStart ==
  \/ ServerLoadPort
  \/ \E f \in Fd : ServerSocket(f) \/ ServerEpollCreate(f)
  \/ Nonblock \/ ServerBind \/ ServerListen \/ ServerStartFails
  \/ ServerAddServer \/ ServerAddServerFails \/ ServerAddEfd \/ ServerAddEfdFails

ServerLoop ==
  \/ ServerWait \/ ServerWaitFails
  \/ ServerDispatchEfd \/ ServerDispatchEnd
  \/ \E f \in Fd : ServerDispatchOther(f)
  \/ ServerReadEfd \/ ServerLock \/ ServerTestFlag

Environment ==
  \/ RemoteConnect
  \/ \E f \in Fd : OtherOpen(f) \/ OtherClose(f)

Next == MainStep \/ Command \/ ServerStart \/ ServerLoop \/ Environment \/ Terminated

Spec == Init /\ [][Next]_vars

\* Both threads are scheduled.  epoll_wait without an event may block for
\* ever: its failure is possible, never assumed.
Fairness ==
  /\ WF_vars(MainStep)
  /\ WF_vars(ServerStart)
  /\ WF_vars(ServerLoop /\ ~ServerWaitFails)

FairSpec == Spec /\ Fairness

-----------------------------------------------------------------------------
(***************************************************************************)
(* Safety                                                                  *)
(***************************************************************************)

\* The server thread is past the event that tells it to stop.
Stopping == spc \in {"lock", "test_flag", "exited", "uncreated"}

\* No lost wake-up: while QUIT waits in pthread_join, the request is still
\* on its way to the server thread, or the thread has taken it and will find
\* the flag set.  An edge-triggered event is reported once, so an order in
\* which the thread takes it and the flag is not set would hang QUIT.
NoLostWakeup ==
  mpc = "join" =>
    /\ shutdown_flag = 1
    /\ \/ Stopping
       \/ ecount = 1
       \/ efd = NoFd
    /\ spc \in {"wait", "dispatch", "read_efd"} =>
         efd \in ready \cup events \/ spc = "read_efd"

\* read(efd) is called only when it does not block: efd is in blocking mode.
ReadNeverBlocks == spc = "read_efd" => ecount = 1

\* In its loop the server thread works on its own descriptors: none of them
\* has been closed, or closed and reused by another thread.
ServerOwnsDescriptors ==
  spc \in {"wait", "dispatch", "read_efd", "lock", "test_flag"} =>
    /\ table[server_fd] = "server" /\ table[epoll_fd] = "epoll" /\ table[efd] = "efd"
    /\ watched = {server_fd, efd} /\ server_fd # efd

\* When the server thread has ended, on whichever path, its socket and its
\* epoll instance are closed.
ServerClosesAll ==
  spc = "exited" => \A f \in Fd : table[f] \notin {"server", "epoll"}

\* The server thread reads the port through a pointer into the configuration,
\* which QUIT frees: never before the thread has read it, however late the
\* thread is scheduled.
PortReadLive == spc = "load_port" => config = "alloc"

\* What the server thread may rely on wherever it is: the descriptors it
\* uses are its own, those it leaves are closed, its read returns, and the
\* port is there when it reads it.
ServerSafe ==
  TypeOK /\ ReadNeverBlocks /\ ServerOwnsDescriptors /\ ServerClosesAll /\ PortReadLive

\* The server thread never closes a descriptor of another thread, except on
\* the path where registering the listening socket fails: there its numbers
\* are closed twice, and may have been reused in between.
OthersKept ==
  [][\A f \in Fd : table[f] = "other" /\ table'[f] = "free" =>
       OtherClose(f) \/ (ServerAddEfdFails /\ watched = {})]_vars

(***************************************************************************)
(* Liveness                                                                *)
(***************************************************************************)

\* QUIT ends the process, whatever failed before: the eventfd, the thread,
\* the epoll instance or its registrations.
QuitCompletes == mpc = "lock" ~> proc # "running"
=============================================================================
