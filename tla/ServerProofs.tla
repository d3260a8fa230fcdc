---------------------------- MODULE ServerProofs ----------------------------
(***************************************************************************)
(* Proofs about Server, for any set of descriptors and any backlog.        *)
(***************************************************************************)
EXTENDS Server, TLAPS

-----------------------------------------------------------------------------
(***************************************************************************)
(* The inductive invariant                                                 *)
(***************************************************************************)

InLoop == spc \in {"wait", "dispatch", "read_efd", "lock", "test_flag"}

\* What the position of the main thread says.
MainInv ==
  /\ mpc \in {"eventfd", "create_server"} => spc = "none"
  /\ mpc = "eventfd" => efd = NoFd
  /\ mpc \in {"free", "close_efd", "returned"} => spc \in {"exited", "uncreated"}
  /\ config = "freed" => mpc \in {"close_efd", "returned"}
  /\ shutdown_flag = 1 <=>
       mpc \in {"write_efd", "join", "free", "close_efd", "returned"}
  /\ ecount = 1 => mpc \in {"join", "free", "close_efd", "returned"}

\* A descriptor of the program is what the variable that holds it says, and
\* the three variables never name the same one.
DescriptorInv ==
  /\ efd # NoFd /\ mpc # "returned" => table[efd] = "efd"
  /\ server_fd # NoFd => server_fd # efd
  /\ epoll_fd # NoFd => epoll_fd # efd
  /\ \A f \in Fd : table[f] = "server" => f = server_fd
  /\ \A f \in Fd : table[f] = "epoll" => f = epoll_fd

\* The server thread holds its socket and its epoll instance.
Holds == server_fd \in Fd /\ epoll_fd \in Fd /\ table[server_fd] = "server"
           /\ table[epoll_fd] = "epoll"

\* What the position of the server thread says of its descriptors.
ServerInv ==
  /\ spc \in {"none", "uncreated", "load_port", "socket"} => server_fd = NoFd
  /\ spc \in {"none", "uncreated", "load_port", "socket", "nonblock", "bind", "listen",
              "epoll_create"} => epoll_fd = NoFd
  /\ spc \in {"nonblock", "bind", "listen", "epoll_create"} =>
       server_fd \in Fd /\ table[server_fd] = "server"
  /\ spc = "add_server" \/ InLoop => Holds
  /\ spc = "add_efd" => server_fd \in Fd /\ epoll_fd \in Fd
  /\ spc = "add_efd" /\ watched # {} => Holds
  /\ (spc = "add_efd" /\ watched = {}) \/ spc = "exited" =>
       \A f \in Fd : table[f] \notin {"server", "epoll"}

\* What the epoll instance watches and reports.
EpollInv ==
  /\ watched = IF InLoop THEN {server_fd, efd}
              ELSE IF spc = "add_efd" /\ watched # {} THEN {server_fd} ELSE {}
  /\ InLoop => efd # NoFd
  /\ ready \subseteq watched
  /\ events \subseteq watched
  /\ spc \in {"wait", "add_efd"} => events = {}

\* Where the request to stop is: in the counter of the eventfd, with its one
\* event still to be dispatched, or taken by the server thread.
WakeupInv ==
  /\ mpc = "join" /\ efd # NoFd => ecount = 1 \/ Stopping
  /\ efd \in ready \cup events => ecount = 1 /\ spc # "read_efd"
  /\ efd \notin ready \cap events
  /\ spc \in {"wait", "dispatch"} /\ ecount = 1 => efd \in ready \cup events
  /\ spc = "read_efd" => ecount = 1
  /\ spc \in {"lock", "test_flag"} => ecount = 0 /\ mpc = "join"

IInv == TypeOK /\ MainInv /\ DescriptorInv /\ ServerInv /\ EpollInv /\ WakeupInv

-----------------------------------------------------------------------------
(***************************************************************************)
(* Each part is preserved by every step                                    *)
(***************************************************************************)

\* The eventfd is written once, so its counter stays below 2.
LEMMA TypeStep == TypeOK /\ MainInv /\ ServerInv /\ [Next]_vars => TypeOK'
<1>. SUFFICES ASSUME TypeOK, MainInv, ServerInv, [Next]_vars PROVE TypeOK'
  OBVIOUS
<1>. USE FdAssumption, BacklogAssumption
     DEF TypeOK, NoFd, MainPCs, ServerPCs, MainAt, ServerAt, vars, descriptors, shutdown, epoll
<1>. USE DEF MainInv, ServerInv, Holds, InLoop
<1>1. ASSUME NEW f \in Fd, MainEventfd(f) PROVE TypeOK'
  BY <1>1 DEF MainEventfd, Lowest
<1>2. CASE MainEventfdFails
  BY <1>2 DEF MainEventfdFails
<1>3. CASE MainCreateServer
  BY <1>3 DEF MainCreateServer
<1>4. CASE QuitLock
  BY <1>4 DEF QuitLock
<1>5. CASE QuitSetFlag
  BY <1>5 DEF QuitSetFlag
<1>6. CASE QuitWriteEfd
  BY <1>6 DEF QuitWriteEfd
<1>7. CASE QuitJoin
  BY <1>7 DEF QuitJoin
<1>8. CASE QuitJoinGarbage
  BY <1>8 DEF QuitJoinGarbage
<1>9. CASE QuitFree
  BY <1>9 DEF QuitFree
<1>10. CASE MainCloseEfd
  BY <1>10 DEF MainCloseEfd
<1>11. CASE MainReturns
  BY <1>11 DEF MainReturns, Exit
<1>12. CASE Quit
  BY <1>12 DEF Quit
<1>13. CASE EndOfInput
  BY <1>13 DEF EndOfInput, Exit
<1>14. CASE ServerLoadPort
  BY <1>14 DEF ServerLoadPort, ServerGoto
<1>15. ASSUME NEW f \in Fd, ServerSocket(f) PROVE TypeOK'
  BY <1>15 DEF ServerSocket, Lowest
<1>16. ASSUME NEW f \in Fd, ServerEpollCreate(f) PROVE TypeOK'
  BY <1>16 DEF ServerEpollCreate, Lowest
<1>17. CASE Nonblock
  BY <1>17 DEF Nonblock, ServerGoto
<1>18. CASE ServerBind
  BY <1>18 DEF ServerBind, ServerGoto
<1>19. CASE ServerListen
  BY <1>19 DEF ServerListen, ServerGoto
<1>20. CASE ServerStartFails
  BY <1>20 DEF ServerStartFails, Exit
<1>21. CASE ServerAddServer
  BY <1>21 DEF ServerAddServer
<1>22. CASE ServerAddServerFails
  BY <1>22 DEF ServerAddServerFails, CloseBoth
<1>23. CASE ServerAddEfd
  BY <1>23 DEF ServerAddEfd
<1>24. CASE ServerAddEfdFails
  BY <1>24 DEF ServerAddEfdFails, CloseBoth
<1>25. CASE ServerWait
  BY <1>25 DEF ServerWait
<1>26. CASE ServerWaitFails
  BY <1>26 DEF ServerWaitFails, CloseBoth
<1>27. CASE ServerDispatchEfd
  BY <1>27 DEF ServerDispatchEfd
<1>28. CASE ServerDispatchEnd
  BY <1>28 DEF ServerDispatchEnd, ServerGoto
<1>29. ASSUME NEW f \in Fd, ServerDispatchOther(f) PROVE TypeOK'
  BY <1>29 DEF ServerDispatchOther
<1>30. CASE ServerReadEfd
  BY <1>30 DEF ServerReadEfd
<1>31. CASE ServerLock
  BY <1>31 DEF ServerLock
<1>32. CASE ServerTestFlag
  <2>1. CASE shutdown_flag = 1
    BY <1>32, <2>1 DEF ServerTestFlag, CloseBoth
  <2>2. CASE shutdown_flag # 1
    BY <1>32, <2>2 DEF ServerTestFlag
  <2>. QED
    BY <2>1, <2>2
<1>33. CASE RemoteConnect
  BY <1>33 DEF RemoteConnect
<1>34. ASSUME NEW f \in Fd, OtherOpen(f) PROVE TypeOK'
  BY <1>34 DEF OtherOpen, Lowest
<1>35. ASSUME NEW f \in Fd, OtherClose(f) PROVE TypeOK'
  BY <1>35 DEF OtherClose
<1>36. CASE Terminated
  BY <1>36 DEF Terminated
<1>37. CASE UNCHANGED vars
  BY <1>37
<1>. QED
  BY <1>1, <1>2, <1>3, <1>4, <1>5, <1>6, <1>7, <1>8, <1>9, <1>10,
     <1>11, <1>12, <1>13, <1>14, <1>15, <1>16, <1>17, <1>18, <1>19,
     <1>20, <1>21, <1>22, <1>23, <1>24, <1>25, <1>26, <1>27, <1>28,
     <1>29, <1>30, <1>31, <1>32, <1>33, <1>34, <1>35, <1>36, <1>37
  DEF Next, MainStep, Command, ServerStart, ServerLoop, Environment

\* The main thread: it frees nothing before the server thread is gone.
LEMMA MainStepInv == TypeOK /\ MainInv /\ [Next]_vars => MainInv'
<1>. SUFFICES ASSUME TypeOK, MainInv, [Next]_vars PROVE MainInv'
  OBVIOUS
<1>. USE FdAssumption, BacklogAssumption
     DEF TypeOK, NoFd, MainPCs, ServerPCs, MainAt, ServerAt, vars, descriptors, shutdown, epoll
<1>. USE DEF MainInv
<1>1. ASSUME NEW f \in Fd, MainEventfd(f) PROVE MainInv'
  BY <1>1 DEF MainEventfd, Lowest
<1>2. CASE MainEventfdFails
  BY <1>2 DEF MainEventfdFails
<1>3. CASE MainCreateServer
  BY <1>3 DEF MainCreateServer
<1>4. CASE QuitLock
  BY <1>4 DEF QuitLock
<1>5. CASE QuitSetFlag
  BY <1>5 DEF QuitSetFlag
<1>6. CASE QuitWriteEfd
  BY <1>6 DEF QuitWriteEfd
<1>7. CASE QuitJoin
  BY <1>7 DEF QuitJoin
<1>8. CASE QuitJoinGarbage
  BY <1>8 DEF QuitJoinGarbage
<1>9. CASE QuitFree
  BY <1>9 DEF QuitFree
<1>10. CASE MainCloseEfd
  BY <1>10 DEF MainCloseEfd
<1>11. CASE MainReturns
  BY <1>11 DEF MainReturns, Exit
<1>12. CASE Quit
  BY <1>12 DEF Quit
<1>13. CASE EndOfInput
  BY <1>13 DEF EndOfInput, Exit
<1>14. CASE ServerLoadPort
  BY <1>14 DEF ServerLoadPort, ServerGoto
<1>15. ASSUME NEW f \in Fd, ServerSocket(f) PROVE MainInv'
  BY <1>15 DEF ServerSocket, Lowest
<1>16. ASSUME NEW f \in Fd, ServerEpollCreate(f) PROVE MainInv'
  BY <1>16 DEF ServerEpollCreate, Lowest
<1>17. CASE Nonblock
  BY <1>17 DEF Nonblock, ServerGoto
<1>18. CASE ServerBind
  BY <1>18 DEF ServerBind, ServerGoto
<1>19. CASE ServerListen
  BY <1>19 DEF ServerListen, ServerGoto
<1>20. CASE ServerStartFails
  BY <1>20 DEF ServerStartFails, Exit
<1>21. CASE ServerAddServer
  BY <1>21 DEF ServerAddServer
<1>22. CASE ServerAddServerFails
  BY <1>22 DEF ServerAddServerFails, CloseBoth
<1>23. CASE ServerAddEfd
  BY <1>23 DEF ServerAddEfd
<1>24. CASE ServerAddEfdFails
  BY <1>24 DEF ServerAddEfdFails, CloseBoth
<1>25. CASE ServerWait
  BY <1>25 DEF ServerWait
<1>26. CASE ServerWaitFails
  BY <1>26 DEF ServerWaitFails, CloseBoth
<1>27. CASE ServerDispatchEfd
  BY <1>27 DEF ServerDispatchEfd
<1>28. CASE ServerDispatchEnd
  BY <1>28 DEF ServerDispatchEnd, ServerGoto
<1>29. ASSUME NEW f \in Fd, ServerDispatchOther(f) PROVE MainInv'
  BY <1>29 DEF ServerDispatchOther
<1>30. CASE ServerReadEfd
  BY <1>30 DEF ServerReadEfd
<1>31. CASE ServerLock
  BY <1>31 DEF ServerLock
<1>32. CASE ServerTestFlag
  BY <1>32 DEF ServerTestFlag, CloseBoth
<1>33. CASE RemoteConnect
  BY <1>33 DEF RemoteConnect
<1>34. ASSUME NEW f \in Fd, OtherOpen(f) PROVE MainInv'
  BY <1>34 DEF OtherOpen, Lowest
<1>35. ASSUME NEW f \in Fd, OtherClose(f) PROVE MainInv'
  BY <1>35 DEF OtherClose
<1>36. CASE Terminated
  BY <1>36 DEF Terminated
<1>37. CASE UNCHANGED vars
  BY <1>37
<1>. QED
  BY <1>1, <1>2, <1>3, <1>4, <1>5, <1>6, <1>7, <1>8, <1>9, <1>10,
     <1>11, <1>12, <1>13, <1>14, <1>15, <1>16, <1>17, <1>18, <1>19,
     <1>20, <1>21, <1>22, <1>23, <1>24, <1>25, <1>26, <1>27, <1>28,
     <1>29, <1>30, <1>31, <1>32, <1>33, <1>34, <1>35, <1>36, <1>37
  DEF Next, MainStep, Command, ServerStart, ServerLoop, Environment

\* A number is handed out only when it is free, so the three stay distinct.
LEMMA DescriptorStep == TypeOK /\ MainInv /\ DescriptorInv /\ ServerInv /\ [Next]_vars => DescriptorInv'
<1>. SUFFICES ASSUME TypeOK, MainInv, DescriptorInv, ServerInv, [Next]_vars PROVE DescriptorInv'
  OBVIOUS
<1>. USE FdAssumption, BacklogAssumption
     DEF TypeOK, NoFd, MainPCs, ServerPCs, MainAt, ServerAt, vars, descriptors, shutdown, epoll
<1>. USE DEF MainInv, DescriptorInv, ServerInv, Holds, InLoop
<1>1. ASSUME NEW f \in Fd, MainEventfd(f) PROVE DescriptorInv'
  BY <1>1 DEF MainEventfd, Lowest
<1>2. CASE MainEventfdFails
  BY <1>2 DEF MainEventfdFails
<1>3. CASE MainCreateServer
  BY <1>3 DEF MainCreateServer
<1>4. CASE QuitLock
  BY <1>4 DEF QuitLock
<1>5. CASE QuitSetFlag
  BY <1>5 DEF QuitSetFlag
<1>6. CASE QuitWriteEfd
  BY <1>6 DEF QuitWriteEfd
<1>7. CASE QuitJoin
  BY <1>7 DEF QuitJoin
<1>8. CASE QuitJoinGarbage
  BY <1>8 DEF QuitJoinGarbage
<1>9. CASE QuitFree
  BY <1>9 DEF QuitFree
<1>10. CASE MainCloseEfd
  BY <1>10 DEF MainCloseEfd
<1>11. CASE MainReturns
  BY <1>11 DEF MainReturns, Exit
<1>12. CASE Quit
  BY <1>12 DEF Quit
<1>13. CASE EndOfInput
  BY <1>13 DEF EndOfInput, Exit
<1>14. CASE ServerLoadPort
  BY <1>14 DEF ServerLoadPort, ServerGoto
<1>15. ASSUME NEW f \in Fd, ServerSocket(f) PROVE DescriptorInv'
  BY <1>15 DEF ServerSocket, Lowest
<1>16. ASSUME NEW f \in Fd, ServerEpollCreate(f) PROVE DescriptorInv'
  BY <1>16 DEF ServerEpollCreate, Lowest
<1>17. CASE Nonblock
  BY <1>17 DEF Nonblock, ServerGoto
<1>18. CASE ServerBind
  BY <1>18 DEF ServerBind, ServerGoto
<1>19. CASE ServerListen
  BY <1>19 DEF ServerListen, ServerGoto
<1>20. CASE ServerStartFails
  BY <1>20 DEF ServerStartFails, Exit
<1>21. CASE ServerAddServer
  BY <1>21 DEF ServerAddServer
<1>22. CASE ServerAddServerFails
  BY <1>22 DEF ServerAddServerFails, CloseBoth
<1>23. CASE ServerAddEfd
  BY <1>23 DEF ServerAddEfd
<1>24. CASE ServerAddEfdFails
  BY <1>24 DEF ServerAddEfdFails, CloseBoth
<1>25. CASE ServerWait
  BY <1>25 DEF ServerWait
<1>26. CASE ServerWaitFails
  BY <1>26 DEF ServerWaitFails, CloseBoth
<1>27. CASE ServerDispatchEfd
  BY <1>27 DEF ServerDispatchEfd
<1>28. CASE ServerDispatchEnd
  BY <1>28 DEF ServerDispatchEnd, ServerGoto
<1>29. ASSUME NEW f \in Fd, ServerDispatchOther(f) PROVE DescriptorInv'
  BY <1>29 DEF ServerDispatchOther
<1>30. CASE ServerReadEfd
  BY <1>30 DEF ServerReadEfd
<1>31. CASE ServerLock
  BY <1>31 DEF ServerLock
<1>32. CASE ServerTestFlag
  BY <1>32 DEF ServerTestFlag, CloseBoth
<1>33. CASE RemoteConnect
  BY <1>33 DEF RemoteConnect
<1>34. ASSUME NEW f \in Fd, OtherOpen(f) PROVE DescriptorInv'
  BY <1>34 DEF OtherOpen, Lowest
<1>35. ASSUME NEW f \in Fd, OtherClose(f) PROVE DescriptorInv'
  BY <1>35 DEF OtherClose
<1>36. CASE Terminated
  BY <1>36 DEF Terminated
<1>37. CASE UNCHANGED vars
  BY <1>37
<1>. QED
  BY <1>1, <1>2, <1>3, <1>4, <1>5, <1>6, <1>7, <1>8, <1>9, <1>10,
     <1>11, <1>12, <1>13, <1>14, <1>15, <1>16, <1>17, <1>18, <1>19,
     <1>20, <1>21, <1>22, <1>23, <1>24, <1>25, <1>26, <1>27, <1>28,
     <1>29, <1>30, <1>31, <1>32, <1>33, <1>34, <1>35, <1>36, <1>37
  DEF Next, MainStep, Command, ServerStart, ServerLoop, Environment

\* The server thread: what it opens it holds until it closes it.
LEMMA ServerStepInv == TypeOK /\ MainInv /\ DescriptorInv /\ ServerInv /\ EpollInv /\ [Next]_vars => ServerInv'
<1>. SUFFICES ASSUME TypeOK, MainInv, DescriptorInv, ServerInv, EpollInv, [Next]_vars PROVE ServerInv'
  OBVIOUS
<1>. USE FdAssumption, BacklogAssumption
     DEF TypeOK, NoFd, MainPCs, ServerPCs, MainAt, ServerAt, vars, descriptors, shutdown, epoll
<1>. USE DEF MainInv, DescriptorInv, ServerInv, EpollInv, Holds, InLoop
<1>1. ASSUME NEW f \in Fd, MainEventfd(f) PROVE ServerInv'
  BY <1>1 DEF MainEventfd, Lowest
<1>2. CASE MainEventfdFails
  BY <1>2 DEF MainEventfdFails
<1>3. CASE MainCreateServer
  BY <1>3 DEF MainCreateServer
<1>4. CASE QuitLock
  BY <1>4 DEF QuitLock
<1>5. CASE QuitSetFlag
  BY <1>5 DEF QuitSetFlag
<1>6. CASE QuitWriteEfd
  BY <1>6 DEF QuitWriteEfd
<1>7. CASE QuitJoin
  BY <1>7 DEF QuitJoin
<1>8. CASE QuitJoinGarbage
  BY <1>8 DEF QuitJoinGarbage
<1>9. CASE QuitFree
  BY <1>9 DEF QuitFree
<1>10. CASE MainCloseEfd
  BY <1>10 DEF MainCloseEfd
<1>11. CASE MainReturns
  BY <1>11 DEF MainReturns, Exit
<1>12. CASE Quit
  BY <1>12 DEF Quit
<1>13. CASE EndOfInput
  BY <1>13 DEF EndOfInput, Exit
<1>14. CASE ServerLoadPort
  BY <1>14 DEF ServerLoadPort, ServerGoto
<1>15. ASSUME NEW f \in Fd, ServerSocket(f) PROVE ServerInv'
  BY <1>15 DEF ServerSocket, Lowest
<1>16. ASSUME NEW f \in Fd, ServerEpollCreate(f) PROVE ServerInv'
  BY <1>16 DEF ServerEpollCreate, Lowest
<1>17. CASE Nonblock
  BY <1>17 DEF Nonblock, ServerGoto
<1>18. CASE ServerBind
  BY <1>18 DEF ServerBind, ServerGoto
<1>19. CASE ServerListen
  BY <1>19 DEF ServerListen, ServerGoto
<1>20. CASE ServerStartFails
  BY <1>20 DEF ServerStartFails, Exit
<1>21. CASE ServerAddServer
  BY <1>21 DEF ServerAddServer
<1>22. CASE ServerAddServerFails
  BY <1>22 DEF ServerAddServerFails, CloseBoth
<1>23. CASE ServerAddEfd
  BY <1>23 DEF ServerAddEfd
<1>24. CASE ServerAddEfdFails
  BY <1>24 DEF ServerAddEfdFails, CloseBoth
<1>25. CASE ServerWait
  BY <1>25 DEF ServerWait
<1>26. CASE ServerWaitFails
  BY <1>26 DEF ServerWaitFails, CloseBoth
<1>27. CASE ServerDispatchEfd
  BY <1>27 DEF ServerDispatchEfd
<1>28. CASE ServerDispatchEnd
  BY <1>28 DEF ServerDispatchEnd, ServerGoto
<1>29. ASSUME NEW f \in Fd, ServerDispatchOther(f) PROVE ServerInv'
  BY <1>29 DEF ServerDispatchOther
<1>30. CASE ServerReadEfd
  BY <1>30 DEF ServerReadEfd
<1>31. CASE ServerLock
  BY <1>31 DEF ServerLock
<1>32. CASE ServerTestFlag
  BY <1>32 DEF ServerTestFlag, CloseBoth
<1>33. CASE RemoteConnect
  BY <1>33 DEF RemoteConnect
<1>34. ASSUME NEW f \in Fd, OtherOpen(f) PROVE ServerInv'
  BY <1>34 DEF OtherOpen, Lowest
<1>35. ASSUME NEW f \in Fd, OtherClose(f) PROVE ServerInv'
  BY <1>35 DEF OtherClose
<1>36. CASE Terminated
  BY <1>36 DEF Terminated
<1>37. CASE UNCHANGED vars
  BY <1>37
<1>. QED
  BY <1>1, <1>2, <1>3, <1>4, <1>5, <1>6, <1>7, <1>8, <1>9, <1>10,
     <1>11, <1>12, <1>13, <1>14, <1>15, <1>16, <1>17, <1>18, <1>19,
     <1>20, <1>21, <1>22, <1>23, <1>24, <1>25, <1>26, <1>27, <1>28,
     <1>29, <1>30, <1>31, <1>32, <1>33, <1>34, <1>35, <1>36, <1>37
  DEF Next, MainStep, Command, ServerStart, ServerLoop, Environment

\* Events come from watched descriptors.
LEMMA EpollStep == TypeOK /\ MainInv /\ DescriptorInv /\ ServerInv /\ EpollInv /\ [Next]_vars => EpollInv'
<1>. SUFFICES ASSUME TypeOK, MainInv, DescriptorInv, ServerInv, EpollInv, [Next]_vars PROVE EpollInv'
  OBVIOUS
<1>. USE FdAssumption, BacklogAssumption
     DEF TypeOK, NoFd, MainPCs, ServerPCs, MainAt, ServerAt, vars, descriptors, shutdown, epoll
<1>. USE DEF MainInv, DescriptorInv, ServerInv, EpollInv, Holds, InLoop
<1>1. ASSUME NEW f \in Fd, MainEventfd(f) PROVE EpollInv'
  BY <1>1 DEF MainEventfd, Lowest
<1>2. CASE MainEventfdFails
  BY <1>2 DEF MainEventfdFails
<1>3. CASE MainCreateServer
  BY <1>3 DEF MainCreateServer
<1>4. CASE QuitLock
  BY <1>4 DEF QuitLock
<1>5. CASE QuitSetFlag
  BY <1>5 DEF QuitSetFlag
<1>6. CASE QuitWriteEfd
  BY <1>6 DEF QuitWriteEfd
<1>7. CASE QuitJoin
  BY <1>7 DEF QuitJoin
<1>8. CASE QuitJoinGarbage
  BY <1>8 DEF QuitJoinGarbage
<1>9. CASE QuitFree
  BY <1>9 DEF QuitFree
<1>10. CASE MainCloseEfd
  BY <1>10 DEF MainCloseEfd
<1>11. CASE MainReturns
  BY <1>11 DEF MainReturns, Exit
<1>12. CASE Quit
  BY <1>12 DEF Quit
<1>13. CASE EndOfInput
  BY <1>13 DEF EndOfInput, Exit
<1>14. CASE ServerLoadPort
  BY <1>14 DEF ServerLoadPort, ServerGoto
<1>15. ASSUME NEW f \in Fd, ServerSocket(f) PROVE EpollInv'
  BY <1>15 DEF ServerSocket, Lowest
<1>16. ASSUME NEW f \in Fd, ServerEpollCreate(f) PROVE EpollInv'
  BY <1>16 DEF ServerEpollCreate, Lowest
<1>17. CASE Nonblock
  BY <1>17 DEF Nonblock, ServerGoto
<1>18. CASE ServerBind
  BY <1>18 DEF ServerBind, ServerGoto
<1>19. CASE ServerListen
  BY <1>19 DEF ServerListen, ServerGoto
<1>20. CASE ServerStartFails
  BY <1>20 DEF ServerStartFails, Exit
<1>21. CASE ServerAddServer
  BY <1>21 DEF ServerAddServer
<1>22. CASE ServerAddServerFails
  BY <1>22 DEF ServerAddServerFails, CloseBoth
<1>23. CASE ServerAddEfd
  BY <1>23 DEF ServerAddEfd
<1>24. CASE ServerAddEfdFails
  BY <1>24 DEF ServerAddEfdFails, CloseBoth
<1>25. CASE ServerWait
  BY <1>25 DEF ServerWait
<1>26. CASE ServerWaitFails
  BY <1>26 DEF ServerWaitFails, CloseBoth
<1>27. CASE ServerDispatchEfd
  BY <1>27 DEF ServerDispatchEfd
<1>28. CASE ServerDispatchEnd
  BY <1>28 DEF ServerDispatchEnd, ServerGoto
<1>29. ASSUME NEW f \in Fd, ServerDispatchOther(f) PROVE EpollInv'
  BY <1>29 DEF ServerDispatchOther
<1>30. CASE ServerReadEfd
  BY <1>30 DEF ServerReadEfd
<1>31. CASE ServerLock
  BY <1>31 DEF ServerLock
<1>32. CASE ServerTestFlag
  BY <1>32 DEF ServerTestFlag, CloseBoth
<1>33. CASE RemoteConnect
  BY <1>33 DEF RemoteConnect
<1>34. ASSUME NEW f \in Fd, OtherOpen(f) PROVE EpollInv'
  BY <1>34 DEF OtherOpen, Lowest
<1>35. ASSUME NEW f \in Fd, OtherClose(f) PROVE EpollInv'
  BY <1>35 DEF OtherClose
<1>36. CASE Terminated
  BY <1>36 DEF Terminated
<1>37. CASE UNCHANGED vars
  BY <1>37
<1>. QED
  BY <1>1, <1>2, <1>3, <1>4, <1>5, <1>6, <1>7, <1>8, <1>9, <1>10,
     <1>11, <1>12, <1>13, <1>14, <1>15, <1>16, <1>17, <1>18, <1>19,
     <1>20, <1>21, <1>22, <1>23, <1>24, <1>25, <1>26, <1>27, <1>28,
     <1>29, <1>30, <1>31, <1>32, <1>33, <1>34, <1>35, <1>36, <1>37
  DEF Next, MainStep, Command, ServerStart, ServerLoop, Environment

\* The request to stop is never lost.
LEMMA WakeupStep == TypeOK /\ MainInv /\ DescriptorInv /\ ServerInv /\ EpollInv /\ WakeupInv /\ [Next]_vars => WakeupInv'
<1>. SUFFICES ASSUME TypeOK, MainInv, DescriptorInv, ServerInv, EpollInv, WakeupInv, [Next]_vars PROVE WakeupInv'
  OBVIOUS
<1>. USE FdAssumption, BacklogAssumption
     DEF TypeOK, NoFd, MainPCs, ServerPCs, MainAt, ServerAt, vars, descriptors, shutdown, epoll
<1>. USE DEF MainInv, DescriptorInv, ServerInv, EpollInv, WakeupInv, Stopping, Holds, InLoop
<1>1. ASSUME NEW f \in Fd, MainEventfd(f) PROVE WakeupInv'
  BY <1>1 DEF MainEventfd, Lowest
<1>2. CASE MainEventfdFails
  BY <1>2 DEF MainEventfdFails
<1>3. CASE MainCreateServer
  BY <1>3 DEF MainCreateServer
<1>4. CASE QuitLock
  BY <1>4 DEF QuitLock
<1>5. CASE QuitSetFlag
  BY <1>5 DEF QuitSetFlag
<1>6. CASE QuitWriteEfd
  <2>1. ecount = 0 /\ ecount' = IF efd = NoFd THEN 0 ELSE 1
    BY <1>6 DEF QuitWriteEfd
  <2>2. efd \notin ready \cup events
    BY <2>1
  <2>3. InLoop => efd # NoFd /\ efd \in watched
    OBVIOUS
  <2>. QED
    BY <1>6, <2>1, <2>2, <2>3 DEF QuitWriteEfd
<1>7. CASE QuitJoin
  BY <1>7 DEF QuitJoin
<1>8. CASE QuitJoinGarbage
  BY <1>8 DEF QuitJoinGarbage
<1>9. CASE QuitFree
  BY <1>9 DEF QuitFree
<1>10. CASE MainCloseEfd
  BY <1>10 DEF MainCloseEfd
<1>11. CASE MainReturns
  BY <1>11 DEF MainReturns, Exit
<1>12. CASE Quit
  BY <1>12 DEF Quit
<1>13. CASE EndOfInput
  BY <1>13 DEF EndOfInput, Exit
<1>14. CASE ServerLoadPort
  BY <1>14 DEF ServerLoadPort, ServerGoto
<1>15. ASSUME NEW f \in Fd, ServerSocket(f) PROVE WakeupInv'
  BY <1>15 DEF ServerSocket, Lowest
<1>16. ASSUME NEW f \in Fd, ServerEpollCreate(f) PROVE WakeupInv'
  BY <1>16 DEF ServerEpollCreate, Lowest
<1>17. CASE Nonblock
  BY <1>17 DEF Nonblock, ServerGoto
<1>18. CASE ServerBind
  BY <1>18 DEF ServerBind, ServerGoto
<1>19. CASE ServerListen
  BY <1>19 DEF ServerListen, ServerGoto
<1>20. CASE ServerStartFails
  BY <1>20 DEF ServerStartFails, Exit
<1>21. CASE ServerAddServer
  BY <1>21 DEF ServerAddServer
<1>22. CASE ServerAddServerFails
  BY <1>22 DEF ServerAddServerFails, CloseBoth
<1>23. CASE ServerAddEfd
  BY <1>23 DEF ServerAddEfd
<1>24. CASE ServerAddEfdFails
  BY <1>24 DEF ServerAddEfdFails, CloseBoth
<1>25. CASE ServerWait
  BY <1>25 DEF ServerWait
<1>26. CASE ServerWaitFails
  BY <1>26 DEF ServerWaitFails, CloseBoth
<1>27. CASE ServerDispatchEfd
  BY <1>27 DEF ServerDispatchEfd
<1>28. CASE ServerDispatchEnd
  BY <1>28 DEF ServerDispatchEnd, ServerGoto
<1>29. ASSUME NEW f \in Fd, ServerDispatchOther(f) PROVE WakeupInv'
  BY <1>29 DEF ServerDispatchOther
<1>30. CASE ServerReadEfd
  BY <1>30 DEF ServerReadEfd
<1>31. CASE ServerLock
  BY <1>31 DEF ServerLock
<1>32. CASE ServerTestFlag
  BY <1>32 DEF ServerTestFlag, CloseBoth
<1>33. CASE RemoteConnect
  BY <1>33 DEF RemoteConnect
<1>34. ASSUME NEW f \in Fd, OtherOpen(f) PROVE WakeupInv'
  BY <1>34 DEF OtherOpen, Lowest
<1>35. ASSUME NEW f \in Fd, OtherClose(f) PROVE WakeupInv'
  BY <1>35 DEF OtherClose
<1>36. CASE Terminated
  BY <1>36 DEF Terminated
<1>37. CASE UNCHANGED vars
  BY <1>37
<1>. QED
  BY <1>1, <1>2, <1>3, <1>4, <1>5, <1>6, <1>7, <1>8, <1>9, <1>10,
     <1>11, <1>12, <1>13, <1>14, <1>15, <1>16, <1>17, <1>18, <1>19,
     <1>20, <1>21, <1>22, <1>23, <1>24, <1>25, <1>26, <1>27, <1>28,
     <1>29, <1>30, <1>31, <1>32, <1>33, <1>34, <1>35, <1>36, <1>37
  DEF Next, MainStep, Command, ServerStart, ServerLoop, Environment

-----------------------------------------------------------------------------
(***************************************************************************)
(* Theorems                                                                *)
(***************************************************************************)

\* The inductive invariant holds when main() has loaded the configuration.
LEMMA InitIInv == Init => IInv
  BY FdAssumption, BacklogAssumption
  DEF Init, IInv, TypeOK, NoFd, MainPCs, ServerPCs, MainInv, DescriptorInv, ServerInv,
      EpollInv, WakeupInv, Stopping, Holds, InLoop

\* The inductive invariant, of every behaviour of the two threads.
THEOREM Invariance == Spec => []IInv
<1>1. Init => IInv
  BY InitIInv
<1>2. IInv /\ [Next]_vars => IInv'
  BY TypeStep, MainStepInv, DescriptorStep, ServerStepInv, EpollStep, WakeupStep DEF IInv
<1>. QED
  BY <1>1, <1>2, PTL DEF Spec

\* Every variable keeps its type.
THEOREM TypeCorrect == Spec => []TypeOK
<1>1. IInv => TypeOK
  BY DEF IInv
<1>. QED
  BY <1>1, Invariance, PTL

\* QUIT's request to stop reaches the server thread: at no point is it
\* waiting in pthread_join for a thread that will not be woken.
THEOREM WakeupNotLost == Spec => []NoLostWakeup
<1>1. IInv => NoLostWakeup
  BY DEF IInv, TypeOK, MainInv, EpollInv, WakeupInv, InLoop, NoLostWakeup, Stopping, MainPCs
<1>. QED
  BY <1>1, Invariance, PTL

\* The blocking read of the eventfd never blocks.
THEOREM ReadReturns == Spec => []ReadNeverBlocks
<1>1. IInv => ReadNeverBlocks
  BY DEF IInv, WakeupInv, ReadNeverBlocks
<1>. QED
  BY <1>1, Invariance, PTL

\* The loop of the server thread works on its own descriptors.
THEOREM OwnDescriptors == Spec => []ServerOwnsDescriptors
<1>1. IInv => ServerOwnsDescriptors
  BY FdAssumption
  DEF IInv, TypeOK, MainInv, DescriptorInv, ServerInv, EpollInv, Holds, InLoop, NoFd,
      ServerOwnsDescriptors, MainPCs
<1>. QED
  BY <1>1, Invariance, PTL

\* The server thread leaves no descriptor behind.
THEOREM NothingLeftOpen == Spec => []ServerClosesAll
<1>1. IInv => ServerClosesAll
  BY DEF IInv, ServerInv, ServerClosesAll
<1>. QED
  BY <1>1, Invariance, PTL

\* The configuration outlives the server thread's use of it.
THEOREM PortPointerValid == Spec => []PortReadLive
<1>1. IInv => PortReadLive
  BY DEF IInv, TypeOK, MainInv, PortReadLive
<1>. QED
  BY <1>1, Invariance, PTL

\* No descriptor of another thread is closed by the server thread outside
\* the one error path.
THEOREM OthersKeptOpen == Spec => OthersKept
<1>1. IInv /\ [Next]_vars =>
        [\A f \in Fd : table[f] = "other" /\ table'[f] = "free" =>
           OtherClose(f) \/ (ServerAddEfdFails /\ watched = {})]_vars
  <2>. SUFFICES ASSUME IInv, Next, NEW f \in Fd, table[f] = "other", table'[f] = "free"
                PROVE  OtherClose(f) \/ (ServerAddEfdFails /\ watched = {})
    OBVIOUS
  <2>. USE DEF IInv, TypeOK, ServerAt, MainAt, descriptors
  <2>1. ASSUME NEW g \in Fd, OtherClose(g) PROVE OtherClose(f)
    BY <2>1 DEF OtherClose
  <2>2. ASSUME CloseBoth
        PROVE  ~InLoop /\ spc # "add_server" /\ (spc = "add_efd" => watched = {})
    <3>1. f \in {server_fd, epoll_fd}
      BY <2>2 DEF CloseBoth
    <3>2. ~Holds
      BY <3>1 DEF Holds
    <3>. QED
      BY <3>2 DEF ServerInv
  <2>3. CASE MainCloseEfd
    BY <2>3 DEF MainCloseEfd, DescriptorInv
  <2>4. CASE UNCHANGED table
    BY <2>4
  <2>5. ASSUME NEW g \in Fd, NEW o \in {"efd", "server", "epoll", "other"},
               table' = [table EXCEPT ![g] = o]
        PROVE  FALSE
    BY <2>5
  <2>. QED
    BY <2>1, <2>2, <2>3, <2>4, <2>5
    DEF Next, MainStep, Command, ServerStart, ServerLoop, Environment, Exit, vars, InLoop,
        MainEventfd, MainEventfdFails, MainCreateServer, QuitLock, QuitSetFlag,
        QuitWriteEfd, QuitJoin, QuitJoinGarbage, QuitFree, MainReturns, Quit, EndOfInput,
        ServerGoto, ServerLoadPort, ServerSocket, ServerEpollCreate, Nonblock, ServerBind,
        ServerListen, ServerStartFails, ServerAddServer, ServerAddServerFails,
        ServerAddEfd, ServerAddEfdFails, ServerWait, ServerWaitFails, ServerDispatchEfd,
        ServerDispatchEnd, ServerDispatchOther, ServerReadEfd, ServerLock, ServerTestFlag,
        RemoteConnect, OtherOpen, Terminated
<1>. QED
  BY <1>1, Invariance, PTL DEF Spec, OthersKept

\* On every path, whatever fails, the server thread uses what is its own,
\* leaves nothing open and blocks on nothing but epoll_wait.
THEOREM ServerSafeCorrect == Spec => []ServerSafe
<1>. QED
  BY TypeCorrect, ReadReturns, OwnDescriptors, NothingLeftOpen, PortPointerValid, PTL
  DEF ServerSafe
=============================================================================
