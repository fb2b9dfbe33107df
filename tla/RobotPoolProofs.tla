-------------------------- MODULE RobotPoolProofs --------------------------
(***************************************************************************)
(* The invariants of RobotPool for any number of robots, connections and   *)
(* descriptors and any wheel that outlasts the delayed messages.           *)
(***************************************************************************)
EXTENDS RobotPool, TLAPS

(* A mapped connection is listed under its descriptor and is live.         *)
LEMMA MappedIsLive ==
  ASSUME TypeOK, MapListsOpenSockets, NEW c \in Mapped
  PROVE  /\ c \in Conns /\ c # None
         /\ fd[c] \in Fds /\ mapConn[fd[c]] = c
         /\ Live(c) /\ BIsBufferExist(c)
BY PoolAssumption DEF TypeOK, MapListsOpenSockets, Mapped, Live, BIsBufferExist

(* A new connection takes a free slot of mapConn_.                         *)
LEMMA CreateAddsConn ==
  ASSUME TypeOK, MapListsOpenSockets,
         NEW c \in Conns, NEW f \in Fds, NEW r \in Robots \cup {Header}, NEW test \in BOOLEAN,
         CreateConnection(c, f, r, test)
  PROVE  /\ c \notin Mapped /\ ~Held(c) /\ queryConn # c
         /\ mapConn' = [mapConn EXCEPT ![f] = c]
         /\ robot' = [robot EXCEPT ![c] = r]
         /\ age' = [age EXCEPT ![c] = NoEntry]
         /\ bev' = [bev EXCEPT ![c] = "connecting"]
         /\ Mapped' = Mapped \cup {c}
         /\ MapListsOpenSockets'
         /\ fd' \in [Conns -> Fds \cup {None}]
         /\ status' \in [Conns -> Statuses]
         /\ testing' \in SUBSET Conns
<1>1. mapConn[f] = None
  <2>1. SUFFICES ASSUME mapConn[f] # None PROVE FALSE
    OBVIOUS
  <2>2. mapConn[f] \in Conns /\ Live(mapConn[f]) /\ fd[mapConn[f]] = f
    BY <2>1 DEF TypeOK, MapListsOpenSockets
  <2>3. QED
    BY <2>2 DEF CreateConnection
<1>2. /\ mapConn' = [mapConn EXCEPT ![f] = c]
      /\ robot' = [robot EXCEPT ![c] = r]
      /\ fd' = [fd EXCEPT ![c] = f]
      /\ bev' = [bev EXCEPT ![c] = "connecting"]
      /\ c \notin Mapped /\ ~Held(c) /\ queryConn # c
  BY <1>1 DEF CreateConnection, Exists
<1>3. c # None
  BY PoolAssumption
<1>4. Mapped' = Mapped \cup {c}
  BY <1>1, <1>2, <1>3 DEF Mapped, TypeOK
<1>5. MapListsOpenSockets'
  <2>1. ASSUME NEW g \in Fds, mapConn'[g] # None
        PROVE  bev'[mapConn'[g]] \in {"connecting", "up"} /\ fd'[mapConn'[g]] = g
    <3>1. CASE g = f
      BY <1>2, <3>1 DEF Live, TypeOK
    <3>2. CASE g # f
      <4>1. mapConn'[g] = mapConn[g] /\ mapConn[g] \in Mapped /\ mapConn[g] # c
        BY <1>2, <2>1, <3>2 DEF TypeOK, Mapped
      <4>2. QED
        BY <1>2, <2>1, <4>1 DEF TypeOK, MapListsOpenSockets, Live, Mapped
    <3>3. QED
      BY <3>1, <3>2
  <2>2. ASSUME NEW d \in Conns, Live(d)' PROVE d \in Mapped'
    BY <1>2, <1>4, <2>2 DEF MapListsOpenSockets, Live, TypeOK
  <2>3. QED
    BY <2>1, <2>2 DEF MapListsOpenSockets, Live
<1>6. QED
  BY <1>1, <1>2, <1>4, <1>5 DEF CreateConnection, TypeOK, Statuses

(* Erasing a mapped connection closes its socket and nothing else. A Conn  *)
(* that a delayed message still holds keeps its robot_ and its Entry.      *)
LEMMA EraseRemovesConn ==
  ASSUME TypeOK, MapListsOpenSockets,
         NEW c \in Mapped, NEW p \in {"freed", "null"}, EraseConn(c, p)
  PROVE  /\ Mapped' = Mapped \ {c}
         /\ MapListsOpenSockets'
         /\ mapConn' \in [Fds -> Conns \cup {None}]
         /\ fd' \in [Conns -> Fds \cup {None}]
         /\ robot' \in [Conns -> Robots \cup {Header, NoRobot}]
         /\ bev' \in [Conns -> BevStates]
         /\ status' \in [Conns -> Statuses]
         /\ testing' \in SUBSET Conns
         /\ age' \in [Conns -> {NoEntry} \cup 0..(WheelSize - 1)]
         /\ \A d \in Conns \ {c} : robot'[d] = robot[d] /\ age'[d] = age[d] /\ bev'[d] = bev[d]
         /\ Held(c) => robot' = robot /\ age' = age
         /\ ~Held(c) => age'[c] = NoEntry
<1>1. /\ c \in Conns /\ c # None /\ fd[c] \in Fds /\ mapConn[fd[c]] = c
  BY MappedIsLive
<1>2. mapConn' = [mapConn EXCEPT ![fd[c]] = None]
  BY DEF EraseConn
<1>3. \A g \in Fds : mapConn[g] = c => g = fd[c]
  BY <1>1 DEF MapListsOpenSockets
<1>4. Mapped' = Mapped \ {c}
  BY <1>1, <1>2, <1>3 DEF Mapped, TypeOK
<1>5. /\ bev'[c] \notin {"connecting", "up"}
      /\ \A d \in Conns \ {c} : bev'[d] = bev[d] /\ fd'[d] = fd[d] /\ robot'[d] = robot[d] /\ age'[d] = age[d]
  BY <1>1 DEF EraseConn, DestroyConn, TypeOK
<1>6. MapListsOpenSockets'
  <2>1. ASSUME NEW g \in Fds, mapConn'[g] # None
        PROVE  bev'[mapConn'[g]] \in {"connecting", "up"} /\ fd'[mapConn'[g]] = g
    <3>1. mapConn'[g] = mapConn[g] /\ mapConn[g] \in Conns \ {c}
      BY <1>1, <1>2, <1>3, <2>1 DEF TypeOK
    <3>2. QED
      BY <1>5, <2>1, <3>1 DEF MapListsOpenSockets, Live
  <2>2. ASSUME NEW d \in Conns, Live(d)' PROVE d \in Mapped'
    BY <1>4, <1>5, <2>2 DEF MapListsOpenSockets, Live
  <2>3. QED
    BY <2>1, <2>2 DEF MapListsOpenSockets, Live
<1>7. /\ mapConn' \in [Fds -> Conns \cup {None}]
      /\ fd' \in [Conns -> Fds \cup {None}]
      /\ robot' \in [Conns -> Robots \cup {Header, NoRobot}]
      /\ bev' \in [Conns -> BevStates]
      /\ status' \in [Conns -> Statuses]
      /\ testing' \in SUBSET Conns
      /\ age' \in [Conns -> {NoEntry} \cup 0..(WheelSize - 1)]
  BY <1>1, <1>2 DEF EraseConn, DestroyConn, TypeOK, BevStates, Statuses
<1>8. /\ Held(c) => robot' = robot /\ age' = age
      /\ ~Held(c) => age'[c] = NoEntry
  BY <1>1 DEF EraseConn, DestroyConn, TypeOK
<1>9. QED
  BY <1>4, <1>5, <1>6, <1>7, <1>8

-----------------------------------------------------------------------------
(* The connection of a task robot at work is the only one it has.          *)
LEMMA WorkingRobotOfConn ==
  ASSUME TypeOK, WorkingRobotsAreConnected, NEW c \in Mapped, robot[c] # Header
  PROVE  robot[c] \in untaskRobotList /\ robot[c] \in Robots
BY DEF WorkingRobotsAreConnected, TypeOK

(* Giving back the robot of a connection that is erased keeps every robot  *)
(* on one list.                                                            *)
LEMMA GiveBackKeepsLists ==
  ASSUME IInv, NEW c \in Mapped, NEW p \in {"freed", "null"}, robot[c] # Header,
         MoveRobotFromUntaskListToTaskList(c), EraseConn(c, p)
  PROVE  /\ taskRobotList' \in Seq(Robots)
         /\ untaskRobotList' \in SUBSET Robots
         /\ NoRobotTwice'
         /\ WorkingRobotsAreConnected'
<1>1. TypeOK /\ NoRobotTwice /\ WorkingRobotsAreConnected /\ MapListsOpenSockets
  BY DEF IInv
<1>2. robot[c] \in untaskRobotList /\ robot[c] \in Robots
  BY <1>1, WorkingRobotOfConn
<1>3. /\ Mapped' = Mapped \ {c}
      /\ \A d \in Conns \ {c} : robot'[d] = robot[d]
      /\ Mapped \subseteq Conns
  BY <1>1, EraseRemovesConn, MappedIsLive
<1>4. /\ taskRobotList' = Append(taskRobotList, robot[c])
      /\ untaskRobotList' = untaskRobotList \ {robot[c]}
  BY DEF MoveRobotFromUntaskListToTaskList
<1>5. /\ taskRobotList' \in Seq(Robots)
      /\ untaskRobotList' \in SUBSET Robots
  BY <1>1, <1>2, <1>4 DEF TypeOK
<1>6. NoRobotTwice'
  <2>1. /\ Len(taskRobotList') = Len(taskRobotList) + 1
        /\ DOMAIN taskRobotList = 1..Len(taskRobotList)
        /\ DOMAIN taskRobotList' = 1..(Len(taskRobotList) + 1)
        /\ Len(taskRobotList) \in Nat
        /\ \A i \in 1..Len(taskRobotList) : taskRobotList'[i] = taskRobotList[i]
        /\ taskRobotList'[Len(taskRobotList) + 1] = robot[c]
    BY <1>1, <1>2, <1>4 DEF TypeOK
  <2>2. \A i \in DOMAIN taskRobotList : taskRobotList[i] # robot[c]
    BY <1>1, <1>2 DEF NoRobotTwice
  <2>3. QED
    BY <1>1, <1>4, <2>1, <2>2 DEF NoRobotTwice
<1>7. WorkingRobotsAreConnected'
  <2>1. \A d \in Mapped' : d \in Mapped /\ d # c /\ robot'[d] = robot[d] /\ robot[d] # robot[c]
    BY <1>1, <1>3 DEF WorkingRobotsAreConnected
  <2>2. untaskRobotList' = {robot'[d] : d \in Mapped'} \ {Header}
    BY <1>1, <1>2, <1>3, <1>4, <2>1 DEF WorkingRobotsAreConnected
  <2>3. QED
    BY <1>1, <2>1, <2>2 DEF WorkingRobotsAreConnected
<1>8. QED
  BY <1>5, <1>6, <1>7

(* Taking the front robot into a new connection keeps every robot on one   *)
(* list.                                                                   *)
LEMMA TakeKeepsLists ==
  ASSUME IInv, taskRobotList # <<>>,
         NEW c \in Conns, NEW f \in Fds,
         CreateConnection(c, f, Head(taskRobotList), testAdd),
         MoveRobotFromTaskListToUntaskList
  PROVE  /\ taskRobotList' \in Seq(Robots)
         /\ untaskRobotList' \in SUBSET Robots
         /\ NoRobotTwice'
         /\ WorkingRobotsAreConnected'
         /\ Head(taskRobotList) \in Robots
<1>1. TypeOK /\ NoRobotTwice /\ WorkingRobotsAreConnected /\ MapListsOpenSockets
  BY DEF IInv
<1>2. /\ Head(taskRobotList) \in Robots
      /\ taskRobotList' \in Seq(Robots)
      /\ untaskRobotList' \in SUBSET Robots
      /\ 1 \in DOMAIN taskRobotList /\ Head(taskRobotList) = taskRobotList[1]
      /\ DOMAIN taskRobotList = 1..Len(taskRobotList)
      /\ DOMAIN taskRobotList' = 1..(Len(taskRobotList) - 1)
      /\ Len(taskRobotList) \in Nat
      /\ \A i \in DOMAIN taskRobotList' : taskRobotList'[i] = taskRobotList[i + 1]
  BY <1>1 DEF MoveRobotFromTaskListToUntaskList, TypeOK
<1>3. Head(taskRobotList) # Header
  BY <1>2 DEF Robots, Header
<1>4. /\ c \notin Mapped
      /\ robot' = [robot EXCEPT ![c] = Head(taskRobotList)]
      /\ Mapped' = Mapped \cup {c}
      /\ Mapped \subseteq Conns
  BY <1>1, <1>2, CreateAddsConn, MappedIsLive DEF TypeOK
<1>5. Head(taskRobotList) \notin untaskRobotList
  BY <1>1, <1>2 DEF NoRobotTwice
<1>6. NoRobotTwice'
  BY <1>1, <1>2 DEF NoRobotTwice, MoveRobotFromTaskListToUntaskList
<1>7. WorkingRobotsAreConnected'
  <2>1. robot'[c] = Head(taskRobotList) /\ \A d \in Mapped : robot'[d] = robot[d] /\ robot[d] # robot'[c]
    BY <1>1, <1>3, <1>4, <1>5 DEF WorkingRobotsAreConnected, TypeOK
  <2>2. untaskRobotList' = {robot'[d] : d \in Mapped'} \ {Header}
    BY <1>1, <1>3, <1>4, <2>1 DEF WorkingRobotsAreConnected, MoveRobotFromTaskListToUntaskList
  <2>3. QED
    BY <1>1, <1>4, <2>1, <2>2 DEF WorkingRobotsAreConnected
<1>8. QED
  BY <1>2, <1>6, <1>7

(* Closing the connection of a task robot keeps what the invariant says    *)
(* beyond the lists.                                                       *)
LEMMA EraseKeepsRest ==
  ASSUME IInv, NEW c \in Mapped, NEW p \in {"freed", "null"}, robot[c] # Header,
         EraseConn(c, p),
         UNCHANGED <<nodes, queryConn, retryTimers, toAdd, testAdd, phase>>,
         LoopRuns, toAdd = 0,
         reading' \in {c, None}, expiring' = expiring \ {c},
         expiring = {} \/ reading' = None
  PROVE  /\ TypeOK' <=> taskRobotList' \in Seq(Robots) /\ untaskRobotList' \in SUBSET Robots
         /\ MapListsOpenSockets'
         /\ HeaderConnectedOrRetrying'
         /\ PollingTimerOnHeaderConnection'
         /\ ConnectedRobotIsWatched'
         /\ EntryOfTaskRobot'
         /\ NodeOutlivedByEntry'
         /\ ReadRefreshedEntry'
         /\ OneCallbackAtATime'
         /\ NothingBeforeStart'
<1>1. TypeOK /\ MapListsOpenSockets
  BY DEF IInv
<1>2. /\ Mapped' = Mapped \ {c}
      /\ MapListsOpenSockets'
      /\ mapConn' \in [Fds -> Conns \cup {None}]
      /\ fd' \in [Conns -> Fds \cup {None}]
      /\ robot' \in [Conns -> Robots \cup {Header, NoRobot}]
      /\ bev' \in [Conns -> BevStates]
      /\ status' \in [Conns -> Statuses]
      /\ testing' \in SUBSET Conns
      /\ age' \in [Conns -> {NoEntry} \cup 0..(WheelSize - 1)]
      /\ \A d \in Conns \ {c} : robot'[d] = robot[d] /\ age'[d] = age[d] /\ bev'[d] = bev[d]
      /\ Held(c) => robot' = robot /\ age' = age
      /\ ~Held(c) => age'[c] = NoEntry
  BY <1>1, EraseRemovesConn
<1>3. c \in Conns /\ Mapped \subseteq Conns
  BY <1>1, MappedIsLive
<1>4. TypeOK' <=> taskRobotList' \in Seq(Robots) /\ untaskRobotList' \in SUBSET Robots
  BY <1>1, <1>2, <1>3 DEF TypeOK
<1>5. HeaderConnectedOrRetrying'
  BY <1>2, <1>3 DEF IInv, HeaderConnectedOrRetrying
<1>6. PollingTimerOnHeaderConnection'
  BY <1>2, <1>3 DEF IInv, PollingTimerOnHeaderConnection
<1>7. ConnectedRobotIsWatched'
  BY <1>2, <1>3 DEF IInv, ConnectedRobotIsWatched
<1>8. EntryOfTaskRobot'
  BY <1>2, <1>3 DEF IInv, EntryOfTaskRobot
<1>9. NodeOutlivedByEntry'
  <2>1. ASSUME NEW node \in nodes PROVE age'[node[1]] = age[node[1]]
    <3>1. /\ node[1] \in Conns /\ node[2] \in 0..NodeTicks
          /\ node = <<node[1], node[2]>>
      BY <1>1 DEF TypeOK
    <3>2. CASE node[1] = c
      <4>1. Held(c)
        BY <3>1, <3>2 DEF Held
      <4>2. QED
        BY <1>2, <4>1
    <3>3. QED
      BY <1>2, <3>1, <3>2
  <2>2. QED
    BY <2>1 DEF IInv, NodeOutlivedByEntry
<1>10. ReadRefreshedEntry'
  BY <1>2, PoolAssumption, <1>3 DEF ReadRefreshedEntry
<1>11. OneCallbackAtATime'
  BY <1>2, <1>3 DEF IInv, OneCallbackAtATime, Held
<1>12. NothingBeforeStart'
  BY DEF LoopRuns, NothingBeforeStart
<1>13. QED
  BY <1>2, <1>4, <1>5, <1>6, <1>7, <1>8, <1>9, <1>10, <1>11, <1>12

(* A new connection keeps what the invariant says beyond the lists and the *)
(* header robot.                                                           *)
LEMMA CreateKeepsRest ==
  ASSUME IInv,
         NEW c \in Conns, NEW f \in Fds, NEW r \in Robots \cup {Header}, NEW test \in BOOLEAN,
         CreateConnection(c, f, r, test),
         expiring = {}, expiring' = {}, nodes' = nodes, reading' = reading,
         toAdd > 0 \/ reading = None
  PROVE  /\ MapListsOpenSockets'
         /\ ConnectedRobotIsWatched'
         /\ EntryOfTaskRobot'
         /\ NodeOutlivedByEntry'
         /\ ReadRefreshedEntry'
         /\ mapConn' \in [Fds -> Conns \cup {None}]
         /\ fd' \in [Conns -> Fds \cup {None}]
         /\ robot' \in [Conns -> Robots \cup {Header, NoRobot}]
         /\ bev' \in [Conns -> BevStates]
         /\ status' \in [Conns -> Statuses]
         /\ testing' \in SUBSET Conns
         /\ age' \in [Conns -> {NoEntry} \cup 0..(WheelSize - 1)]
<1>1. TypeOK /\ MapListsOpenSockets
  BY DEF IInv
<1>2. /\ c \notin Mapped /\ ~Held(c) /\ queryConn # c
      /\ mapConn' = [mapConn EXCEPT ![f] = c]
      /\ robot' = [robot EXCEPT ![c] = r]
      /\ age' = [age EXCEPT ![c] = NoEntry]
      /\ bev' = [bev EXCEPT ![c] = "connecting"]
      /\ Mapped' = Mapped \cup {c}
      /\ MapListsOpenSockets'
      /\ fd' \in [Conns -> Fds \cup {None}]
      /\ status' \in [Conns -> Statuses]
      /\ testing' \in SUBSET Conns
  BY <1>1, CreateAddsConn
<1>3. Mapped \subseteq Conns
  BY <1>1, MappedIsLive
<1>4. ConnectedRobotIsWatched'
  BY <1>1, <1>2, <1>3 DEF IInv, ConnectedRobotIsWatched, TypeOK
<1>5. EntryOfTaskRobot'
  BY <1>1, <1>2 DEF IInv, EntryOfTaskRobot, TypeOK
<1>6. NodeOutlivedByEntry'
  <2>1. ASSUME NEW node \in nodes PROVE node[1] \in Conns \ {c}
    <3>1. node[1] \in Conns /\ node[2] \in 0..NodeTicks /\ node = <<node[1], node[2]>>
      BY <1>1 DEF TypeOK
    <3>2. QED
      BY <1>2, <3>1 DEF Held
  <2>2. QED
    BY <1>1, <1>2, <2>1 DEF IInv, NodeOutlivedByEntry, TypeOK
<1>7. ReadRefreshedEntry'
  BY <1>1, <1>2, <1>3, PoolAssumption
     DEF IInv, ReadRefreshedEntry, OneCallbackAtATime, TypeOK
<1>8. QED
  BY <1>1, <1>2, <1>4, <1>5, <1>6, <1>7 DEF TypeOK, BevStates

-----------------------------------------------------------------------------
(* One lemma per action or group of actions with the same effect.          *)

(* DelRobot of an open task connection, whatever callback runs it.         *)
LEMMA DropKeepsInv ==
  ASSUME IInv, NEW c \in Mapped, NEW p \in {"freed", "null"}, robot[c] # Header,
         MoveRobotFromUntaskListToTaskList(c), EraseConn(c, p),
         UNCHANGED <<nodes, queryConn, retryTimers, toAdd, testAdd, phase>>,
         LoopRuns, toAdd = 0,
         reading' \in {c, None}, expiring' = expiring \ {c},
         expiring = {} \/ reading' = None
  PROVE  IInv'
BY GiveBackKeepsLists, EraseKeepsRest DEF IInv

LEMMA DestroyEntryKeepsInv ==
  ASSUME IInv, NEW c \in Conns, DestroyEntry(c)
  PROVE  IInv'
<1>1. c \in Mapped /\ robot[c] # Header /\ reading = None /\ toAdd = 0
  BY DEF IInv, OneCallbackAtATime, DestroyEntry
<1>2. BIsBufferExist(c)
  BY <1>1, MappedIsLive DEF IInv
<1>3. MoveRobotFromUntaskListToTaskList(c) /\ EraseConn(c, "null")
  BY <1>2 DEF DestroyEntry, DelRobot, CloseConnection
<1>4. QED
  BY <1>1, <1>3, DropKeepsInv DEF DestroyEntry, timerVars

LEMMA KeepPlayTestOverKeepsInv ==
  ASSUME IInv, NEW c \in Conns, NEW more \in BOOLEAN, KeepPlayTestOver(c, more)
  PROVE  IInv'
<1>1. c \in Mapped /\ LoopRuns /\ reading = c /\ toAdd = 0 /\ robot[c] # Header
  BY DEF KeepPlayTestOver, Handling
<1>2. expiring = {}
  BY <1>1, PoolAssumption DEF IInv, OneCallbackAtATime
<1>3. BIsBufferExist(c)
  BY <1>1, MappedIsLive DEF IInv
<1>4. MoveRobotFromUntaskListToTaskList(c) /\ EraseConn(c, "null")
  BY <1>3 DEF KeepPlayTestOver, DelRobot, CloseConnection
<1>5. reading' \in {c, None}
  BY DEF KeepPlayTestOver, NextMessage
<1>6. QED
  BY <1>1, <1>2, <1>4, <1>5, DropKeepsInv DEF KeepPlayTestOver, timerVars

LEMMA HandlerFailsKeepsInv ==
  ASSUME IInv, NEW c \in Conns, HandlerFails(c)
  PROVE  IInv'
<1>1. c \in Mapped /\ LoopRuns /\ reading = c /\ toAdd = 0
  BY DEF HandlerFails, Handling
<1>2. expiring = {}
  BY <1>1, PoolAssumption DEF IInv, OneCallbackAtATime
<1>3. CASE robot[c] # Header
  <2>1. BIsBufferExist(c)
    BY <1>1, MappedIsLive DEF IInv
  <2>2. MoveRobotFromUntaskListToTaskList(c) /\ EraseConn(c, "null")
    BY <1>3, <2>1 DEF HandlerFails, DelRobot, CloseConnection
  <2>3. QED
    BY <1>1, <1>2, <1>3, <2>2, DropKeepsInv DEF HandlerFails, timerVars
<1>4. CASE robot[c] = Header
  <2>1. /\ UNCHANGED <<listVars, mapConn, bev, fd, robot, testing, age, timerVars,
                       toAdd, testAdd, expiring, phase>>
        /\ reading' = None
        /\ status' = [status EXCEPT ![c] = "IDLE"]
    BY <1>4 DEF HandlerFails
  <2>2. TypeOK'
    BY <2>1 DEF IInv, TypeOK, Statuses, listVars, timerVars
  <2>3. Mapped' = Mapped /\ (\A d : Held(d)' <=> Held(d)) /\ None \notin Mapped
    BY <2>1 DEF Mapped, Held, timerVars
  <2>4. QED
    BY <1>1, <1>2, <2>1, <2>2, <2>3
       DEF IInv, listVars, timerVars, NoRobotTwice, WorkingRobotsAreConnected,
           MapListsOpenSockets, Live, HeaderConnectedOrRetrying, PollingTimerOnHeaderConnection,
           ConnectedRobotIsWatched, EntryOfTaskRobot, NodeOutlivedByEntry, ReadRefreshedEntry,
           OneCallbackAtATime, NothingBeforeStart
<1>5. QED
  BY <1>3, <1>4

LEMMA RetireRobotKeepsInv ==
  ASSUME IInv, NEW c \in Conns, RetireRobot(c)
  PROVE  IInv'
<1>1. c \in Mapped /\ LoopRuns /\ reading = c /\ toAdd = 0 /\ robot[c] # Header
  BY DEF RetireRobot, Handling
<1>2. expiring = {}
  BY <1>1, PoolAssumption DEF IInv, OneCallbackAtATime
<1>3. BIsBufferExist(c)
  BY <1>1, MappedIsLive DEF IInv
<1>4. /\ EraseConn(c, "null")
      /\ untaskRobotList' = untaskRobotList \ {robot[c]}
      /\ taskRobotList' = taskRobotList
  BY <1>3 DEF RetireRobot, DelRobotAndCloseConnection, CloseConnection
<1>5. /\ taskRobotList' \in Seq(Robots)
      /\ untaskRobotList' \in SUBSET Robots
      /\ NoRobotTwice'
  BY <1>4 DEF IInv, TypeOK, NoRobotTwice
<1>6. /\ Mapped' = Mapped \ {c}
      /\ \A d \in Conns \ {c} : robot'[d] = robot[d]
      /\ Mapped \subseteq Conns
  BY <1>1, <1>4, EraseRemovesConn, MappedIsLive DEF IInv
<1>7. WorkingRobotsAreConnected'
  <2>1. \A d \in Mapped' : d \in Mapped /\ d # c /\ robot'[d] = robot[d] /\ robot[d] # robot[c]
    BY <1>1, <1>6 DEF IInv, WorkingRobotsAreConnected
  <2>2. untaskRobotList' = {robot'[d] : d \in Mapped'} \ {Header}
    BY <1>4, <1>6, <2>1 DEF IInv, WorkingRobotsAreConnected
  <2>3. QED
    BY <2>1, <2>2 DEF IInv, WorkingRobotsAreConnected
<1>8. QED
  BY <1>1, <1>2, <1>4, <1>5, <1>7, EraseKeepsRest DEF RetireRobot, IInv, timerVars

(* A step that keeps connections, lists and delayed messages keeps all but *)
(* what the callbacks in progress and the header robot are about.          *)
LEMMA QuietKeepsInv ==
  ASSUME IInv, UNCHANGED <<listVars, mapConn, fd, robot, bev, age, nodes>>,
         status' \in [Conns -> Statuses], testing' \in SUBSET Conns
  PROVE  /\ NoRobotTwice' /\ WorkingRobotsAreConnected' /\ MapListsOpenSockets'
         /\ EntryOfTaskRobot' /\ NodeOutlivedByEntry'
         /\ Mapped' = Mapped
         /\ (\A d : Held(d)' <=> Held(d))
         /\ TypeOK' <=> /\ queryConn' \in Conns \cup {None}
                        /\ retryTimers' \in Nat
                        /\ reading' \in Conns \cup {None}
                        /\ toAdd' \in Nat
                        /\ testAdd' \in BOOLEAN
                        /\ expiring' \in SUBSET Conns
                        /\ phase' \in Phases
<1>1. Mapped' = Mapped /\ (\A d : Held(d)' <=> Held(d))
  BY DEF Mapped, Held
<1>2. TypeOK' <=> /\ queryConn' \in Conns \cup {None}
                  /\ retryTimers' \in Nat
                  /\ reading' \in Conns \cup {None}
                  /\ toAdd' \in Nat
                  /\ testAdd' \in BOOLEAN
                  /\ expiring' \in SUBSET Conns
                  /\ phase' \in Phases
  BY DEF IInv, TypeOK, listVars
<1>3. QED
  BY <1>1, <1>2
     DEF IInv, listVars, NoRobotTwice, WorkingRobotsAreConnected, MapListsOpenSockets, Live,
         EntryOfTaskRobot, NodeOutlivedByEntry

LEMMA RecvVerifyAckKeepsInv ==
  ASSUME IInv, NEW c \in Conns, NEW more \in BOOLEAN, RecvVerifyAck(c, more)
  PROVE  IInv'
<1>1. /\ c \in Mapped /\ LoopRuns /\ reading = c /\ toAdd = 0
      /\ reading' \in {c, None}
      /\ UNCHANGED <<listVars, mapConn, fd, robot, bev, testing, age,
                     nodes, queryConn, retryTimers, toAdd, testAdd, expiring, phase>>
      /\ status' \in [Conns -> Statuses]
  BY DEF RecvVerifyAck, Handling, NextMessage, timerVars, IInv, TypeOK, Statuses
<1>2. None \notin Mapped
  BY DEF Mapped
<1>3. QED
  BY <1>1, <1>2, QuietKeepsInv
     DEF IInv, TypeOK, HeaderConnectedOrRetrying, PollingTimerOnHeaderConnection,
         ConnectedRobotIsWatched, ReadRefreshedEntry, OneCallbackAtATime, NothingBeforeStart

LEMMA RecvInitGameAckKeepsInv ==
  ASSUME IInv, NEW c \in Conns, NEW more \in BOOLEAN, RecvInitGameAck(c, more)
  PROVE  IInv'
<1>1. /\ c \in Mapped /\ LoopRuns /\ reading = c /\ toAdd = 0
      /\ reading' \in {c, None}
      /\ UNCHANGED <<listVars, mapConn, fd, robot, bev, testing, age,
                     nodes, retryTimers, toAdd, testAdd, expiring, phase>>
      /\ queryConn' = IF robot[c] = Header THEN c ELSE queryConn
      /\ status' \in [Conns -> Statuses]
  BY DEF RecvInitGameAck, Handling, NextMessage, IInv, TypeOK, Statuses
<1>2. None \notin Mapped
  BY DEF Mapped
<1>3. QED
  BY <1>1, <1>2, QuietKeepsInv
     DEF IInv, TypeOK, HeaderConnectedOrRetrying, PollingTimerOnHeaderConnection,
         ConnectedRobotIsWatched, ReadRefreshedEntry, OneCallbackAtATime, NothingBeforeStart

LEMMA RecvQueryRoomStatusAckKeepsInv ==
  ASSUME IInv, NEW c \in Conns, NEW more \in BOOLEAN, RecvQueryRoomStatusAck(c, more)
  PROVE  IInv'
<1>1. /\ c \in Mapped /\ LoopRuns /\ reading = c /\ toAdd = 0
      /\ reading' \in {c, None}
      /\ toAdd' \in 1..MaxNeed /\ testAdd' = FALSE
      /\ UNCHANGED <<listVars, mapConn, fd, robot, bev, status, testing, age,
                     nodes, queryConn, retryTimers, expiring, phase>>
  BY DEF RecvQueryRoomStatusAck, Handling, NextMessage, connVars, timerVars
<1>2. None \notin Mapped /\ toAdd' \in Nat /\ testAdd' \in BOOLEAN
  <2>1. None \notin Mapped
    BY DEF Mapped
  <2>2. MaxNeed \in Nat
    BY PoolAssumption
  <2>3. toAdd' \in Nat
    BY <1>1, <2>2
  <2>4. QED
    BY <1>1, <2>1, <2>3
<1>3. expiring = {}
  BY <1>1, <1>2 DEF IInv, OneCallbackAtATime
<1>4. QED
  BY <1>1, <1>2, <1>3, QuietKeepsInv
     DEF IInv, TypeOK, LoopRuns, HeaderConnectedOrRetrying, PollingTimerOnHeaderConnection,
         ConnectedRobotIsWatched, ReadRefreshedEntry, OneCallbackAtATime, NothingBeforeStart

LEMMA ReadAfterEraseKeepsInv ==
  ASSUME IInv, ReadAfterErase
  PROVE  IInv'
<1>1. /\ reading \in Conns /\ toAdd = 0 /\ LoopRuns
      /\ reading' = None /\ phase' \in Phases \ {"new"}
      /\ phase \in {"running", "exiting"}
      /\ UNCHANGED <<listVars, mapConn, fd, robot, bev, status, testing, age,
                     nodes, queryConn, retryTimers, toAdd, testAdd, expiring>>
  BY DEF ReadAfterErase, connVars, timerVars, IInv, TypeOK, Phases, LoopRuns
<1>2. None \notin Mapped
  BY DEF Mapped
<1>3. QED
  BY <1>1, <1>2, QuietKeepsInv
     DEF IInv, TypeOK, HeaderConnectedOrRetrying, PollingTimerOnHeaderConnection,
         ConnectedRobotIsWatched, ReadRefreshedEntry, OneCallbackAtATime, NothingBeforeStart

(* SIGINT, the end of the loop and the states in which nothing happens.    *)
LEMMA StopKeepsInv ==
  ASSUME IInv, SignalEvent \/ Stop \/ UNCHANGED vars
  PROVE  IInv'
<1>1. /\ UNCHANGED <<listVars, mapConn, fd, robot, bev, status, testing, age,
                     nodes, queryConn, retryTimers, reading, toAdd, testAdd, expiring>>
      /\ phase' \in Phases
      /\ phase' = "new" <=> phase = "new"
  BY DEF SignalEvent, Stop, connVars, timerVars, vars, listVars, IInv, TypeOK, Phases
<1>2. QED
  BY <1>1, QuietKeepsInv
     DEF IInv, TypeOK, HeaderConnectedOrRetrying, PollingTimerOnHeaderConnection,
         ConnectedRobotIsWatched, ReadRefreshedEntry, OneCallbackAtATime, NothingBeforeStart

(* The header robot's connection is created, or a retry is armed.          *)
LEMMA InitHeaderRobotConnectionKeepsInv ==
  ASSUME IInv, NEW rest \in Nat, InitHeaderRobotConnection(rest),
         reading = None, toAdd = 0, expiring = {},
         reading' = None, expiring' = {}, toAdd' \in Nat, testAdd' \in BOOLEAN,
         phase' \in Phases \ {"new"},
         rest = 0, \A c \in Mapped : robot[c] # Header
  PROVE  IInv'
<1>1. queryConn = None
  BY DEF IInv, PollingTimerOnHeaderConnection
<1>2. CASE retryTimers' = rest + 1 /\ UNCHANGED <<connVars, queryConn>>
  <2>1. /\ UNCHANGED <<listVars, mapConn, fd, robot, bev, status, testing, age, nodes>>
        /\ retryTimers' = 1 /\ queryConn' = None
    BY <1>1, <1>2 DEF InitHeaderRobotConnection, connVars
  <2>2. status' \in [Conns -> Statuses] /\ testing' \in SUBSET Conns
    BY <2>1 DEF IInv, TypeOK
  <2>3. QED
    BY <2>1, <2>2, QuietKeepsInv
       DEF IInv, TypeOK, HeaderConnectedOrRetrying, PollingTimerOnHeaderConnection,
           ConnectedRobotIsWatched, ReadRefreshedEntry, OneCallbackAtATime, NothingBeforeStart
<1>3. ASSUME NEW c \in Conns, NEW f \in Fds, CreateConnection(c, f, Header, FALSE),
             queryConn' = None, retryTimers' = rest
      PROVE  IInv'
  <2>1. TypeOK /\ MapListsOpenSockets
    BY DEF IInv
  <2>2. UNCHANGED <<listVars, nodes>>
    BY DEF InitHeaderRobotConnection
  <2>3. /\ c \notin Mapped
        /\ robot' = [robot EXCEPT ![c] = Header]
        /\ Mapped' = Mapped \cup {c}
        /\ Mapped \subseteq Conns
    BY <1>3, <2>1, CreateAddsConn, MappedIsLive
  <2>4. /\ robot'[c] = Header
        /\ \A d \in Mapped : robot'[d] = robot[d] /\ robot[d] # Header
    BY <2>1, <2>3 DEF TypeOK
  <2>5. /\ MapListsOpenSockets'
        /\ ConnectedRobotIsWatched'
        /\ EntryOfTaskRobot'
        /\ NodeOutlivedByEntry'
        /\ ReadRefreshedEntry'
        /\ TypeOK'
    BY <1>3, <2>1, <2>2, CreateKeepsRest DEF TypeOK, listVars
  <2>6. NoRobotTwice'
    BY <2>2 DEF IInv, NoRobotTwice, listVars
  <2>7. WorkingRobotsAreConnected'
    <3>1. untaskRobotList' = {robot'[d] : d \in Mapped'} \ {Header}
      BY <2>2, <2>3, <2>4 DEF IInv, WorkingRobotsAreConnected, listVars
    <3>2. QED
      BY <2>3, <2>4, <3>1 DEF IInv, WorkingRobotsAreConnected
  <2>8. HeaderConnectedOrRetrying' /\ PollingTimerOnHeaderConnection'
    BY <1>3, <2>3, <2>4 DEF HeaderConnectedOrRetrying, PollingTimerOnHeaderConnection
  <2>9. OneCallbackAtATime' /\ NothingBeforeStart'
    BY DEF OneCallbackAtATime, NothingBeforeStart
  <2>10. QED
    BY <2>5, <2>6, <2>7, <2>8, <2>9 DEF IInv
<1>4. QED
  BY <1>2, <1>3 DEF InitHeaderRobotConnection

LEMMA StartKeepsInv ==
  ASSUME IInv, Start
  PROVE  IInv'
<1>1. Mapped = {} /\ toAdd = 0 /\ reading = None /\ expiring = {}
  BY DEF IInv, NothingBeforeStart, Start
<1>2. Len(taskRobotList) \in Nat
  BY DEF IInv, TypeOK
<1>3. toAdd' \in Nat /\ testAdd' \in BOOLEAN /\ phase' \in Phases \ {"new"}
  BY <1>2 DEF Start, Phases
<1>4. QED
  BY <1>1, <1>3, InitHeaderRobotConnectionKeepsInv DEF Start

LEMMA RetryKeepsInv ==
  ASSUME IInv, RetryToCreateConnectionForHeaderRobot
  PROVE  IInv'
<1>1. /\ reading = None /\ toAdd = 0 /\ expiring = {}
      /\ reading' = None /\ toAdd' = 0 /\ expiring' = {}
      /\ testAdd' \in BOOLEAN /\ phase' \in Phases \ {"new"} /\ phase # "new"
  BY DEF RetryToCreateConnectionForHeaderRobot, LoopIdle, LoopRuns, loopVars, IInv, TypeOK
<1>2. retryTimers = 1 /\ \A c \in Mapped : robot[c] # Header
  BY <1>1 DEF IInv, HeaderConnectedOrRetrying, RetryToCreateConnectionForHeaderRobot
<1>3. retryTimers - 1 = 0
  BY <1>2
<1>4. InitHeaderRobotConnection(retryTimers - 1)
  BY DEF RetryToCreateConnectionForHeaderRobot
<1>5. QED
  BY <1>1, <1>2, <1>3, <1>4, InitHeaderRobotConnectionKeepsInv

LEMMA AddRobotKeepsInv ==
  ASSUME IInv, AddRobot
  PROVE  IInv'
<1>1. toAdd \in Nat /\ toAdd > 0 /\ LoopRuns
  BY DEF AddRobot, IInv, TypeOK
<1>2. expiring = {} /\ phase # "new"
  BY <1>1 DEF IInv, OneCallbackAtATime, LoopRuns
<1>3. UNCHANGED <<nodes, queryConn, retryTimers, reading, testAdd, expiring, phase>>
  BY DEF AddRobot, timerVars
<1>4. CASE toAdd' = 0 /\ UNCHANGED <<listVars, connVars>>
  <2>1. /\ UNCHANGED <<listVars, mapConn, fd, robot, bev, status, testing, age, nodes>>
    BY <1>3, <1>4 DEF connVars
  <2>2. status' \in [Conns -> Statuses] /\ testing' \in SUBSET Conns
    BY <2>1 DEF IInv, TypeOK
  <2>3. QED
    BY <1>2, <1>3, <1>4, <2>1, <2>2, QuietKeepsInv
       DEF IInv, TypeOK, HeaderConnectedOrRetrying, PollingTimerOnHeaderConnection,
           ConnectedRobotIsWatched, ReadRefreshedEntry, OneCallbackAtATime, NothingBeforeStart
<1>5. ASSUME taskRobotList # <<>>,
             NEW c \in Conns, NEW f \in Fds,
             CreateConnection(c, f, Head(taskRobotList), testAdd),
             MoveRobotFromTaskListToUntaskList,
             toAdd' = toAdd - 1
      PROVE  IInv'
  <2>1. TypeOK /\ MapListsOpenSockets /\ testAdd \in BOOLEAN
    BY DEF IInv, TypeOK
  <2>2. /\ taskRobotList' \in Seq(Robots)
        /\ untaskRobotList' \in SUBSET Robots
        /\ NoRobotTwice'
        /\ WorkingRobotsAreConnected'
        /\ Head(taskRobotList) \in Robots
    BY <1>5, TakeKeepsLists
  <2>3. /\ c \notin Mapped
        /\ robot' = [robot EXCEPT ![c] = Head(taskRobotList)]
        /\ Mapped' = Mapped \cup {c}
        /\ Mapped \subseteq Conns
    BY <1>5, <2>1, <2>2, CreateAddsConn, MappedIsLive
  <2>4. /\ robot'[c] # Header
        /\ \A d \in Mapped : robot'[d] = robot[d]
    BY <2>1, <2>2, <2>3 DEF TypeOK, Robots, Header
  <2>5. /\ MapListsOpenSockets'
        /\ ConnectedRobotIsWatched'
        /\ EntryOfTaskRobot'
        /\ NodeOutlivedByEntry'
        /\ ReadRefreshedEntry'
        /\ TypeOK'
    BY <1>1, <1>2, <1>3, <1>5, <2>1, <2>2, CreateKeepsRest DEF TypeOK
  <2>6. HeaderConnectedOrRetrying' /\ PollingTimerOnHeaderConnection'
    BY <1>3, <2>3, <2>4 DEF IInv, HeaderConnectedOrRetrying, PollingTimerOnHeaderConnection
  <2>7. OneCallbackAtATime' /\ NothingBeforeStart'
    BY <1>1, <1>2, <1>3, <2>3 DEF IInv, OneCallbackAtATime, NothingBeforeStart
  <2>8. QED
    BY <2>2, <2>5, <2>6, <2>7 DEF IInv
<1>6. QED
  BY <1>4, <1>5 DEF AddRobot

LEMMA ConnectEventKeepsInv ==
  ASSUME IInv, NEW c \in Conns, ConnectEvent(c)
  PROVE  IInv'
<1>1. /\ c \in Mapped /\ bev[c] = "connecting" /\ LoopRuns
      /\ reading = None /\ toAdd = 0 /\ expiring = {}
      /\ bev' = [bev EXCEPT ![c] = "up"]
      /\ age' = [age EXCEPT ![c] = IF robot[c] # Header THEN 0 ELSE age[c]]
      /\ UNCHANGED <<taskRobotList, untaskRobotList, mapConn, fd, robot, status, testing,
                     nodes, queryConn, retryTimers, reading, toAdd, testAdd, expiring, phase>>
  BY DEF ConnectEvent, LoopIdle, listVars, timerVars, loopVars
<1>2. Mapped' = Mapped /\ (\A d : Held(d)' <=> Held(d)) /\ None \notin Mapped /\ Mapped \subseteq Conns
  BY <1>1, MappedIsLive DEF Mapped, Held, IInv
<1>3. TypeOK'
  <2>1. 0 \in {NoEntry} \cup 0..(WheelSize - 1)
    BY PoolAssumption
  <2>2. bev' \in [Conns -> BevStates]
    BY <1>1 DEF IInv, TypeOK, BevStates
  <2>3. age' \in [Conns -> {NoEntry} \cup 0..(WheelSize - 1)]
    BY <1>1, <2>1 DEF IInv, TypeOK
  <2>4. QED
    BY <1>1, <2>2, <2>3 DEF IInv, TypeOK
<1>4. MapListsOpenSockets'
  <2>1. \A d \in Conns : bev'[d] \in {"connecting", "up"} <=> bev[d] \in {"connecting", "up"}
    BY <1>1 DEF IInv, TypeOK
  <2>2. \A f \in Fds : mapConn[f] # None => mapConn[f] \in Conns
    BY DEF IInv, TypeOK
  <2>3. QED
    BY <1>1, <1>2, <2>1, <2>2 DEF IInv, MapListsOpenSockets, Live
<1>5. EntryOfTaskRobot' /\ ConnectedRobotIsWatched'
  <2>1. robot[c] # Header => robot[c] \in Robots
    BY <1>1, WorkingRobotOfConn DEF IInv
  <2>2. 0 # NoEntry
    BY DEF NoEntry
  <2>3. QED
    BY <1>1, <1>2, <2>1, <2>2 DEF IInv, TypeOK, EntryOfTaskRobot, ConnectedRobotIsWatched
<1>6. NodeOutlivedByEntry'
  <2>1. ASSUME NEW node \in nodes PROVE age'[node[1]] # NoEntry /\ age'[node[1]] <= node[2]
    <3>1. node[1] \in Conns /\ node[2] \in Nat
      BY PoolAssumption DEF IInv, TypeOK
    <3>2. age[node[1]] # NoEntry /\ age[node[1]] <= node[2]
      BY DEF IInv, NodeOutlivedByEntry
    <3>3. QED
      BY <1>1, <3>1, <3>2 DEF IInv, TypeOK, NoEntry
  <2>2. QED
    BY <1>1, <2>1 DEF NodeOutlivedByEntry
<1>7. ReadRefreshedEntry' /\ OneCallbackAtATime' /\ NothingBeforeStart'
  BY <1>1, <1>2 DEF ReadRefreshedEntry, OneCallbackAtATime, NothingBeforeStart, LoopRuns
<1>8. /\ NoRobotTwice' /\ WorkingRobotsAreConnected'
      /\ HeaderConnectedOrRetrying' /\ PollingTimerOnHeaderConnection'
  BY <1>1, <1>2 DEF IInv, NoRobotTwice, WorkingRobotsAreConnected, HeaderConnectedOrRetrying,
                    PollingTimerOnHeaderConnection
<1>9. QED
  BY <1>3, <1>4, <1>5, <1>6, <1>7, <1>8 DEF IInv

LEMMA OnReadEventKeepsInv ==
  ASSUME IInv, NEW c \in Conns, OnReadEvent(c)
  PROVE  IInv'
<1>1. /\ c \in Mapped /\ bev[c] = "up" /\ LoopRuns
      /\ reading = None /\ toAdd = 0 /\ expiring = {}
      /\ reading' = c
      /\ age' = [age EXCEPT ![c] = IF robot[c] # Header /\ age[c] # NoEntry THEN 0 ELSE age[c]]
      /\ UNCHANGED <<taskRobotList, untaskRobotList, mapConn, fd, robot, bev, status, testing,
                     nodes, queryConn, retryTimers, toAdd, testAdd, expiring, phase>>
  BY DEF OnReadEvent, LoopIdle, listVars, timerVars
<1>2. Mapped' = Mapped /\ (\A d : Held(d)' <=> Held(d)) /\ None \notin Mapped /\ Mapped \subseteq Conns
  BY <1>1, MappedIsLive DEF Mapped, Held, IInv
<1>3. TypeOK'
  <2>1. 0 \in {NoEntry} \cup 0..(WheelSize - 1)
    BY PoolAssumption
  <2>2. age' \in [Conns -> {NoEntry} \cup 0..(WheelSize - 1)]
    BY <1>1, <2>1 DEF IInv, TypeOK
  <2>3. QED
    BY <1>1, <2>2 DEF IInv, TypeOK
<1>4. MapListsOpenSockets'
  BY <1>1, <1>2 DEF IInv, MapListsOpenSockets, Live
<1>5. EntryOfTaskRobot' /\ ConnectedRobotIsWatched'
  BY <1>1, <1>2 DEF IInv, TypeOK, EntryOfTaskRobot, ConnectedRobotIsWatched, NoEntry
<1>6. NodeOutlivedByEntry'
  <2>1. ASSUME NEW node \in nodes PROVE age'[node[1]] # NoEntry /\ age'[node[1]] <= node[2]
    <3>1. node[1] \in Conns /\ node[2] \in Nat
      BY PoolAssumption DEF IInv, TypeOK
    <3>2. age[node[1]] # NoEntry /\ age[node[1]] <= node[2]
      BY DEF IInv, NodeOutlivedByEntry
    <3>3. QED
      BY <1>1, <3>1, <3>2 DEF IInv, TypeOK, NoEntry
  <2>2. QED
    BY <1>1, <2>1 DEF NodeOutlivedByEntry
<1>7. ReadRefreshedEntry'
  <2>1. robot[c] # Header => age[c] # NoEntry
    BY <1>1 DEF IInv, ConnectedRobotIsWatched
  <2>2. QED
    BY <1>1, <1>2, <2>1 DEF IInv, TypeOK, ReadRefreshedEntry
<1>8. OneCallbackAtATime' /\ NothingBeforeStart'
  BY <1>1, <1>2 DEF OneCallbackAtATime, NothingBeforeStart, LoopRuns
<1>9. /\ NoRobotTwice' /\ WorkingRobotsAreConnected'
      /\ HeaderConnectedOrRetrying' /\ PollingTimerOnHeaderConnection'
  BY <1>1, <1>2 DEF IInv, NoRobotTwice, WorkingRobotsAreConnected, HeaderConnectedOrRetrying,
                    PollingTimerOnHeaderConnection
<1>10. QED
  BY <1>3, <1>4, <1>5, <1>6, <1>7, <1>8, <1>9 DEF IInv

LEMMA HandleMessageKeepsInv ==
  ASSUME IInv, NEW c \in Conns, NEW more \in BOOLEAN, HandleMessage(c, more)
  PROVE  IInv'
<1>1. /\ c \in Mapped /\ LoopRuns /\ reading = c /\ toAdd = 0
      /\ reading' \in {c, None}
      /\ UNCHANGED <<listVars, mapConn, fd, robot, bev, status, testing, age,
                     queryConn, retryTimers, toAdd, testAdd, expiring, phase>>
  BY DEF HandleMessage, Handling, NextMessage, connVars
<1>2. None \notin Mapped /\ Mapped' = Mapped
  BY <1>1 DEF Mapped
<1>3. expiring = {}
  BY <1>1, <1>2 DEF IInv, OneCallbackAtATime
<1>4. nodes' = nodes \/ (robot[c] # Header /\ nodes' = nodes \cup {<<c, 0>>})
  BY DEF HandleMessage
<1>5. nodes' \in SUBSET (Conns \X (0..NodeTicks))
  <2>1. 0 \in 0..NodeTicks
    BY PoolAssumption
  <2>2. QED
    BY <1>4, <2>1 DEF IInv, TypeOK
<1>6. TypeOK'
  BY <1>1, <1>5 DEF IInv, TypeOK, listVars
<1>7. NodeOutlivedByEntry'
  <2>1. ASSUME NEW node \in nodes' PROVE age[node[1]] # NoEntry /\ age[node[1]] <= node[2]
    <3>1. CASE node \in nodes
      BY <3>1 DEF IInv, NodeOutlivedByEntry
    <3>2. CASE robot[c] # Header /\ node = <<c, 0>>
      <4>1. age[c] = 0
        BY <1>1, <3>2 DEF IInv, ReadRefreshedEntry
      <4>2. QED
        BY <3>2, <4>1 DEF NoEntry
    <3>3. QED
      BY <1>4, <3>1, <3>2
  <2>2. QED
    BY <1>1, <2>1 DEF NodeOutlivedByEntry
<1>8. QED
  BY <1>1, <1>2, <1>3, <1>6, <1>7
     DEF IInv, listVars, NoRobotTwice, WorkingRobotsAreConnected, MapListsOpenSockets, Live,
         HeaderConnectedOrRetrying, PollingTimerOnHeaderConnection, ConnectedRobotIsWatched,
         EntryOfTaskRobot, ReadRefreshedEntry, OneCallbackAtATime, NothingBeforeStart

(* The header robot's connection never carries a delayed message.          *)
LEMMA HeldByTaskRobot ==
  ASSUME IInv, NEW c \in Conns, Held(c)
  PROVE  robot[c] \in Robots /\ robot[c] # Header
BY DEF IInv, Held, NodeOutlivedByEntry, EntryOfTaskRobot, Robots, Header

LEMMA CloseEventKeepsInv ==
  ASSUME IInv, NEW c \in Conns, CloseEvent(c)
  PROVE  IInv'
<1>1. /\ c \in Mapped /\ LoopRuns /\ reading = None /\ toAdd = 0 /\ expiring = {}
      /\ EraseConn(c, "freed")
      /\ UNCHANGED <<nodes, reading, toAdd, testAdd, expiring, phase>>
  BY DEF CloseEvent, LoopIdle, loopVars
<1>2. CASE robot[c] # Header
  <2>1. MoveRobotFromUntaskListToTaskList(c) /\ UNCHANGED <<queryConn, retryTimers>>
    BY <1>2 DEF CloseEvent
  <2>2. QED
    BY <1>1, <1>2, <2>1, DropKeepsInv
<1>3. CASE robot[c] = Header
  <2>1. queryConn' = None /\ retryTimers' = retryTimers + 1 /\ UNCHANGED listVars
    BY <1>3 DEF CloseEvent
  <2>2. ~Held(c)
    BY <1>3, HeldByTaskRobot
  <2>3. /\ Mapped' = Mapped \ {c}
        /\ MapListsOpenSockets'
        /\ mapConn' \in [Fds -> Conns \cup {None}]
        /\ fd' \in [Conns -> Fds \cup {None}]
        /\ robot' \in [Conns -> Robots \cup {Header, NoRobot}]
        /\ bev' \in [Conns -> BevStates]
        /\ status' \in [Conns -> Statuses]
        /\ testing' \in SUBSET Conns
        /\ age' \in [Conns -> {NoEntry} \cup 0..(WheelSize - 1)]
        /\ \A d \in Conns \ {c} : robot'[d] = robot[d] /\ age'[d] = age[d] /\ bev'[d] = bev[d]
        /\ age'[c] = NoEntry
    BY <1>1, <2>2, EraseRemovesConn DEF IInv
  <2>4. Mapped \subseteq Conns /\ None \notin Mapped
    BY MappedIsLive DEF IInv, Mapped
  <2>5. TypeOK'
    BY <1>1, <2>1, <2>3 DEF IInv, TypeOK, listVars
  <2>6. NoRobotTwice'
    BY <2>1 DEF IInv, NoRobotTwice, listVars
  <2>7. \A d \in Mapped' : d \in Mapped /\ d # c /\ robot'[d] = robot[d] /\ robot[d] # Header
    BY <1>1, <1>3, <2>3, <2>4 DEF IInv, WorkingRobotsAreConnected
  <2>8. WorkingRobotsAreConnected'
    <3>1. untaskRobotList' = {robot'[d] : d \in Mapped'} \ {Header}
      BY <1>3, <2>1, <2>3, <2>7 DEF IInv, WorkingRobotsAreConnected, listVars
    <3>2. QED
      BY <2>7, <3>1 DEF IInv, WorkingRobotsAreConnected
  <2>9. HeaderConnectedOrRetrying' /\ PollingTimerOnHeaderConnection'
    BY <1>1, <1>3, <2>1, <2>7
       DEF IInv, HeaderConnectedOrRetrying, PollingTimerOnHeaderConnection, LoopRuns
  <2>10. ConnectedRobotIsWatched' /\ EntryOfTaskRobot'
    BY <1>1, <2>3, <2>4 DEF IInv, ConnectedRobotIsWatched, EntryOfTaskRobot
  <2>11. NodeOutlivedByEntry'
    <3>1. ASSUME NEW node \in nodes PROVE node[1] \in Conns \ {c}
      <4>1. node[1] \in Conns /\ node[2] \in 0..NodeTicks /\ node = <<node[1], node[2]>>
        BY DEF IInv, TypeOK
      <4>2. QED
        BY <2>2, <4>1 DEF Held
    <3>2. QED
      BY <1>1, <2>3, <3>1 DEF IInv, NodeOutlivedByEntry
  <2>12. ReadRefreshedEntry' /\ OneCallbackAtATime' /\ NothingBeforeStart'
    BY <1>1, <2>3, <2>4 DEF ReadRefreshedEntry, OneCallbackAtATime, NothingBeforeStart, LoopRuns
  <2>13. QED
    BY <2>3, <2>5, <2>6, <2>8, <2>9, <2>10, <2>11, <2>12 DEF IInv
<1>4. QED
  BY <1>2, <1>3

LEMMA DelaySendMsgTimerKeepsInv ==
  ASSUME IInv, NEW c \in Conns, NEW n \in 0..NodeTicks, DelaySendMsgTimer(c, n)
  PROVE  IInv'
<1>1. /\ LoopRuns /\ reading = None /\ toAdd = 0 /\ expiring = {}
      /\ phase \in {"running", "exiting"}
      /\ phase' \in {phase, "crashed"}
      /\ nodes' = nodes \ {<<c, n>>}
      /\ UNCHANGED <<taskRobotList, untaskRobotList, queryConn, retryTimers,
                     reading, toAdd, testAdd, expiring, mapConn>>
  BY DEF DelaySendMsgTimer, LoopIdle, LoopRuns, listVars, connVars
<1>2. Mapped' = Mapped /\ None \notin Mapped /\ Mapped \subseteq Conns
  BY <1>1, MappedIsLive DEF Mapped, IInv
<1>3. nodes' \subseteq nodes /\ phase' \in Phases \ {"new"}
  BY <1>1 DEF Phases
<1>4. CASE UNCHANGED connVars
  <2>1. UNCHANGED <<fd, robot, bev, status, testing, age>>
    BY <1>4 DEF connVars
  <2>2. TypeOK'
    BY <1>1, <1>3, <2>1 DEF IInv, TypeOK
  <2>3. QED
    BY <1>1, <1>2, <1>3, <2>1, <2>2
       DEF IInv, NoRobotTwice, WorkingRobotsAreConnected, MapListsOpenSockets, Live,
           HeaderConnectedOrRetrying, PollingTimerOnHeaderConnection, ConnectedRobotIsWatched,
           EntryOfTaskRobot, NodeOutlivedByEntry, ReadRefreshedEntry, OneCallbackAtATime,
           NothingBeforeStart
<1>5. CASE /\ c \notin Mapped
           /\ ~\E m \in (0..NodeTicks) \ {n} : <<c, m>> \in nodes
           /\ DestroyConn(c)
  <2>1. /\ \A d \in Conns \ {c} : robot'[d] = robot[d] /\ age'[d] = age[d] /\ bev'[d] = bev[d] /\ fd'[d] = fd[d]
        /\ age'[c] = NoEntry /\ bev'[c] = "none"
    BY <1>5 DEF DestroyConn, IInv, TypeOK
  <2>2. TypeOK'
    BY <1>1, <1>3, <1>5 DEF IInv, TypeOK, DestroyConn, BevStates, Statuses
  <2>3. MapListsOpenSockets'
    <3>1. \A f \in Fds : mapConn[f] # None => mapConn[f] \in Conns \ {c}
      BY <1>2, <1>5 DEF Mapped
    <3>2. ASSUME NEW f \in Fds, mapConn'[f] # None
          PROVE  bev'[mapConn'[f]] \in {"connecting", "up"} /\ fd'[mapConn'[f]] = f
      BY <1>1, <2>1, <3>1, <3>2 DEF IInv, MapListsOpenSockets, Live
    <3>3. ASSUME NEW d \in Conns, bev'[d] \in {"connecting", "up"} PROVE d \in Mapped'
      BY <1>2, <2>1, <3>3 DEF IInv, MapListsOpenSockets, Live
    <3>4. QED
      BY <3>2, <3>3 DEF MapListsOpenSockets, Live
  <2>4. NoRobotTwice'
    BY <1>1 DEF IInv, NoRobotTwice
  <2>5. /\ WorkingRobotsAreConnected' /\ HeaderConnectedOrRetrying'
        /\ PollingTimerOnHeaderConnection' /\ ConnectedRobotIsWatched'
    <3>1. \A d \in Mapped : robot'[d] = robot[d] /\ age'[d] = age[d] /\ bev'[d] = bev[d]
      BY <1>2, <1>5, <2>1
    <3>2. {robot'[d] : d \in Mapped'} = {robot[d] : d \in Mapped}
      BY <1>2, <3>1
    <3>3. QED
      BY <1>1, <1>2, <3>1, <3>2
         DEF IInv, WorkingRobotsAreConnected, HeaderConnectedOrRetrying,
             PollingTimerOnHeaderConnection, ConnectedRobotIsWatched
  <2>6. EntryOfTaskRobot'
    BY <2>1 DEF IInv, EntryOfTaskRobot
  <2>7. NodeOutlivedByEntry'
    <3>1. ASSUME NEW node \in nodes' PROVE node \in nodes /\ node[1] \in Conns \ {c}
      <4>1. node \in nodes /\ node # <<c, n>>
        BY <1>1
      <4>2. node[1] \in Conns /\ node[2] \in 0..NodeTicks /\ node = <<node[1], node[2]>>
        BY <4>1 DEF IInv, TypeOK
      <4>3. QED
        BY <1>5, <4>1, <4>2
    <3>2. QED
      BY <2>1, <3>1 DEF IInv, NodeOutlivedByEntry
  <2>8. ReadRefreshedEntry' /\ OneCallbackAtATime' /\ NothingBeforeStart'
    BY <1>1, <1>2, <1>3 DEF ReadRefreshedEntry, OneCallbackAtATime, NothingBeforeStart
  <2>9. QED
    BY <2>2, <2>3, <2>4, <2>5, <2>6, <2>7, <2>8 DEF IInv
<1>6. QED
  BY <1>4, <1>5 DEF DelaySendMsgTimer

(* The wheel moves: no Entry of a Conn with a delayed message dies, and an *)
(* Entry that dies belongs to an open connection.                          *)
LEMMA TimingWheelOnTimeKeepsInv ==
  ASSUME IInv, TimingWheelOnTime
  PROVE  IInv'
<1>1. /\ LoopRuns /\ reading = None /\ toAdd = 0 /\ expiring = {}
      /\ \A node \in nodes : node[2] < NodeTicks
      /\ nodes' = {<<node[1], node[2] + 1>> : node \in nodes}
      /\ expiring' = {c \in Conns : age[c] = WheelSize - 1 /\ Exists(c)}
      /\ age' = [c \in Conns |-> IF age[c] \in 0..(WheelSize - 2) /\ Exists(c)
                                 THEN age[c] + 1 ELSE NoEntry]
      /\ UNCHANGED <<taskRobotList, untaskRobotList, mapConn, fd, robot, bev, status, testing,
                     queryConn, retryTimers, reading, toAdd, testAdd, phase>>
  BY DEF TimingWheelOnTime, LoopIdle, listVars
<1>2. Mapped' = Mapped /\ None \notin Mapped /\ Mapped \subseteq Conns
  BY <1>1, MappedIsLive DEF Mapped, IInv
<1>3. WheelSize \in Nat /\ NodeTicks \in Nat /\ NodeTicks < WheelSize
  BY PoolAssumption
<1>4. ASSUME NEW node \in nodes
      PROVE  /\ node = <<node[1], node[2]>>
             /\ node[1] \in Conns /\ node[2] \in 0..NodeTicks /\ node[2] < NodeTicks
             /\ age[node[1]] \in 0..(WheelSize - 2) /\ age[node[1]] <= node[2]
             /\ Exists(node[1])
  <2>1. node[1] \in Conns /\ node[2] \in 0..NodeTicks /\ node = <<node[1], node[2]>>
    BY DEF IInv, TypeOK
  <2>2. node[2] < NodeTicks
    BY <1>1
  <2>3. age[node[1]] # NoEntry /\ age[node[1]] <= node[2]
    BY DEF IInv, NodeOutlivedByEntry
  <2>4. age[node[1]] \in {NoEntry} \cup 0..(WheelSize - 1)
    BY <2>1 DEF IInv, TypeOK
  <2>5. Exists(node[1])
    BY <2>1 DEF Exists, Held
  <2>6. age[node[1]] \in 0..(WheelSize - 2)
    BY <1>3, <2>1, <2>2, <2>3, <2>4
  <2>7. QED
    BY <2>1, <2>2, <2>3, <2>5, <2>6
<1>5. nodes' \in SUBSET (Conns \X (0..NodeTicks))
  <2>1. ASSUME NEW node \in nodes PROVE <<node[1], node[2] + 1>> \in Conns \X (0..NodeTicks)
    BY <1>3, <1>4
  <2>2. QED
    BY <1>1, <2>1
<1>6. NodeOutlivedByEntry'
  <2>1. ASSUME NEW node \in nodes
        PROVE  age'[node[1]] # NoEntry /\ age'[node[1]] <= node[2] + 1
    <3>1. age'[node[1]] = age[node[1]] + 1
      BY <1>1, <1>4
    <3>2. QED
      BY <1>3, <1>4, <3>1 DEF NoEntry
  <2>2. QED
    BY <1>1, <2>1 DEF NodeOutlivedByEntry
<1>7. age' \in [Conns -> {NoEntry} \cup 0..(WheelSize - 1)]
  <2>1. ASSUME NEW a \in 0..(WheelSize - 2) PROVE a + 1 \in 0..(WheelSize - 1)
    BY <1>3
  <2>2. QED
    BY <1>1, <2>1
<1>8. TypeOK'
  BY <1>1, <1>5, <1>7 DEF IInv, TypeOK
<1>9. ASSUME NEW c \in expiring'
      PROVE  c \in Conns /\ c \in Mapped /\ robot[c] # Header /\ ~Held(c)
  <2>1. c \in Conns /\ age[c] = WheelSize - 1 /\ Exists(c)
    BY <1>1
  <2>2. age[c] # NoEntry
    BY <1>3, <2>1 DEF NoEntry
  <2>3. robot[c] # Header
    BY <2>1, <2>2 DEF IInv, EntryOfTaskRobot, Robots, Header
  <2>4. ~Held(c)
    <3>1. SUFFICES ASSUME NEW m \in 0..NodeTicks, <<c, m>> \in nodes PROVE FALSE
      BY DEF Held
    <3>2. age[c] \in 0..(WheelSize - 2)
      BY <1>4, <3>1
    <3>3. QED
      BY <1>3, <2>1, <3>2
  <2>5. c \in Mapped
    BY <2>1, <2>4, PoolAssumption DEF Exists, IInv, PollingTimerOnHeaderConnection
  <2>6. QED
    BY <2>1, <2>3, <2>4, <2>5
<1>10. \A c \in Conns : Held(c)' => Held(c)
  <2>1. SUFFICES ASSUME NEW c \in Conns, NEW m \in 0..NodeTicks, <<c, m>> \in nodes'
                 PROVE  Held(c)
    BY DEF Held
  <2>2. PICK node \in nodes : <<c, m>> = <<node[1], node[2] + 1>>
    BY <1>1, <2>1
  <2>3. QED
    BY <1>4, <2>2 DEF Held
<1>11. OneCallbackAtATime'
  BY <1>1, <1>2, <1>9, <1>10 DEF OneCallbackAtATime
<1>12. EntryOfTaskRobot'
  <2>1. ASSUME NEW c \in Conns, age'[c] # NoEntry PROVE age[c] # NoEntry
    BY <1>1, <2>1 DEF NoEntry
  <2>2. QED
    BY <1>1, <2>1 DEF IInv, EntryOfTaskRobot
<1>13. ConnectedRobotIsWatched'
  <2>1. SUFFICES ASSUME NEW c \in Mapped, bev[c] = "up", robot[c] # Header,
                        age'[c] = NoEntry
                 PROVE  c \in expiring'
    BY <1>1, <1>2 DEF ConnectedRobotIsWatched
  <2>2. c \in Conns /\ Exists(c) /\ age[c] # NoEntry
    BY <1>1, <1>2, <2>1 DEF IInv, ConnectedRobotIsWatched, Exists
  <2>3. age[c] \in 0..(WheelSize - 1)
    BY <2>2 DEF IInv, TypeOK
  <2>4. age[c] \notin 0..(WheelSize - 2)
    BY <1>1, <2>1, <2>2 DEF NoEntry
  <2>5. age[c] = WheelSize - 1
    BY <1>3, <2>3, <2>4
  <2>6. QED
    BY <1>1, <2>2, <2>5
<1>14. MapListsOpenSockets'
  BY <1>1, <1>2 DEF IInv, MapListsOpenSockets, Live
<1>15. NoRobotTwice' /\ WorkingRobotsAreConnected'
  BY <1>1, <1>2 DEF IInv, NoRobotTwice, WorkingRobotsAreConnected
<1>16. /\ HeaderConnectedOrRetrying' /\ PollingTimerOnHeaderConnection'
       /\ ReadRefreshedEntry' /\ NothingBeforeStart'
  BY <1>1, <1>2 DEF IInv, HeaderConnectedOrRetrying, PollingTimerOnHeaderConnection,
                    ReadRefreshedEntry, NothingBeforeStart, LoopRuns
<1>17. QED
  BY <1>6, <1>8, <1>11, <1>12, <1>13, <1>14, <1>15, <1>16 DEF IInv

LEMMA InitInv == Init => IInv
<1>1. SUFFICES ASSUME Init PROVE IInv
  OBVIOUS
<1>2. taskRobotList \in Seq(Robots)
  BY <1>1, PoolAssumption DEF Init, Robots
<1>3. TypeOK
  BY <1>1, <1>2, PoolAssumption DEF Init, TypeOK, BevStates, Statuses, Phases
<1>4. Mapped = {}
  BY <1>1 DEF Init, Mapped
<1>5. QED
  BY <1>1, <1>3, <1>4, PoolAssumption
     DEF Init, IInv, NoRobotTwice, WorkingRobotsAreConnected, MapListsOpenSockets, Live,
         HeaderConnectedOrRetrying, PollingTimerOnHeaderConnection, ConnectedRobotIsWatched,
         EntryOfTaskRobot, NodeOutlivedByEntry, ReadRefreshedEntry, OneCallbackAtATime,
         NothingBeforeStart

LEMMA NextKeepsInv == IInv /\ [Next]_vars => IInv'
<1>1. SUFFICES ASSUME IInv, [Next]_vars PROVE IInv'
  OBVIOUS
<1>2. CASE Start
  BY <1>1, <1>2, StartKeepsInv
<1>3. CASE AddRobot
  BY <1>1, <1>3, AddRobotKeepsInv
<1>4. ASSUME NEW c \in Conns, Network(c) PROVE IInv'
  BY <1>1, <1>4, ConnectEventKeepsInv, CloseEventKeepsInv, OnReadEventKeepsInv DEF Network
<1>5. ASSUME NEW c \in Conns, Message(c) PROVE IInv'
  BY <1>1, <1>5, HandleMessageKeepsInv, RecvVerifyAckKeepsInv, KeepPlayTestOverKeepsInv,
     RecvInitGameAckKeepsInv, RecvQueryRoomStatusAckKeepsInv, HandlerFailsKeepsInv,
     RetireRobotKeepsInv DEF Message
<1>6. ASSUME NEW c \in Conns, DestroyEntry(c) PROVE IInv'
  BY <1>1, <1>6, DestroyEntryKeepsInv
<1>7. CASE ReadAfterErase
  BY <1>1, <1>7, ReadAfterEraseKeepsInv
<1>8. CASE Timer
  BY <1>1, <1>8, RetryKeepsInv, DelaySendMsgTimerKeepsInv, TimingWheelOnTimeKeepsInv DEF Timer
<1>9. CASE SignalEvent \/ Stop \/ Terminated \/ UNCHANGED vars
  BY <1>1, <1>9, StopKeepsInv DEF Terminated
<1>10. QED
  BY <1>1, <1>2, <1>3, <1>4, <1>5, <1>6, <1>7, <1>8, <1>9 DEF Next

-----------------------------------------------------------------------------
(* A robot that is given back or retired was at work: DelRobot and         *)
(* DelRobotAndCloseConnection only ever meet an open task connection.      *)
LEMMA DropIsLedgerStep ==
  ASSUME IInv, NEW c \in Mapped, robot[c] # Header, DelRobot(c)
  PROVE  Ledger!ComeBack(robot[c]) /\ robot[c] \in untaskRobotList
<1>1. BIsBufferExist(c)
  BY MappedIsLive DEF IInv
<1>2. QED
  BY <1>1, WorkingRobotOfConn
     DEF IInv, DelRobot, MoveRobotFromUntaskListToTaskList, Ledger!ComeBack

(* Every step of the pool is a step of the ledger or leaves it alone.      *)
LEMMA NextIsLedgerStep ==
  IInv /\ [Next]_vars => [Ledger!Next]_<<taskRobotList, untaskRobotList>>
<1> DEFINE L == Ledger!Next \/ UNCHANGED <<taskRobotList, untaskRobotList>>
<1>1. SUFFICES ASSUME IInv, [Next]_vars PROVE L
  OBVIOUS
<1>2. ASSUME NEW c \in Mapped, robot[c] # Header, DelRobot(c) PROVE L
  BY <1>1, <1>2, DropIsLedgerStep DEF Ledger!Next
<1>3. CASE Start
  BY <1>3 DEF Start, InitHeaderRobotConnection, listVars
<1>4. CASE AddRobot
  BY <1>4 DEF AddRobot, MoveRobotFromTaskListToUntaskList, listVars, Ledger!Next, Ledger!StartWork
<1>5. ASSUME NEW c \in Conns, ConnectEvent(c) \/ OnReadEvent(c) PROVE L
  BY <1>5 DEF ConnectEvent, OnReadEvent, listVars
<1>6. ASSUME NEW c \in Conns, CloseEvent(c) PROVE L
  <2>1. CASE robot[c] = Header
    BY <1>6, <2>1 DEF CloseEvent, listVars
  <2>2. CASE robot[c] # Header
    <3>1. c \in Mapped /\ MoveRobotFromUntaskListToTaskList(c)
      BY <1>6, <2>2 DEF CloseEvent
    <3>2. robot[c] \in untaskRobotList
      BY <1>1, <2>2, <3>1, WorkingRobotOfConn DEF IInv
    <3>3. Ledger!ComeBack(robot[c])
      BY <3>1, <3>2 DEF MoveRobotFromUntaskListToTaskList, Ledger!ComeBack
    <3>4. QED
      BY <3>2, <3>3 DEF Ledger!Next
  <2>3. QED
    BY <2>1, <2>2
<1>7. ASSUME NEW c \in Conns, NEW more \in BOOLEAN,
             \/ HandleMessage(c, more) \/ RecvVerifyAck(c, more)
             \/ RecvInitGameAck(c, more) \/ RecvQueryRoomStatusAck(c, more)
      PROVE  L
  BY <1>7 DEF HandleMessage, RecvVerifyAck, RecvInitGameAck, RecvQueryRoomStatusAck, listVars
<1>8. ASSUME NEW c \in Conns, NEW more \in BOOLEAN, KeepPlayTestOver(c, more) PROVE L
  BY <1>2, <1>8 DEF KeepPlayTestOver, Handling
<1>9. ASSUME NEW c \in Conns, HandlerFails(c) PROVE L
  BY <1>2, <1>9 DEF HandlerFails, Handling, listVars
<1>10. ASSUME NEW c \in Conns, RetireRobot(c) PROVE L
  <2>1. c \in Mapped /\ robot[c] # Header /\ DelRobotAndCloseConnection(c)
    BY <1>10 DEF RetireRobot, Handling
  <2>2. BIsBufferExist(c) /\ robot[c] \in untaskRobotList
    BY <1>1, <2>1, MappedIsLive, WorkingRobotOfConn DEF IInv
  <2>3. Ledger!Retire(robot[c])
    BY <2>1, <2>2 DEF DelRobotAndCloseConnection, Ledger!Retire
  <2>4. QED
    BY <2>2, <2>3 DEF Ledger!Next
<1>11. ASSUME NEW c \in Conns, DestroyEntry(c) PROVE L
  BY <1>1, <1>2, <1>11 DEF DestroyEntry, IInv, OneCallbackAtATime
<1>12. CASE ReadAfterErase \/ SignalEvent \/ Stop \/ Terminated \/ UNCHANGED vars
  BY <1>12 DEF ReadAfterErase, SignalEvent, Stop, Terminated, vars, listVars
<1>13. CASE Timer
  BY <1>13 DEF Timer, RetryToCreateConnectionForHeaderRobot, InitHeaderRobotConnection,
               DelaySendMsgTimer, TimingWheelOnTime, listVars
<1>14. QED
  BY <1>1, <1>3, <1>4, <1>5, <1>6, <1>7, <1>8, <1>9, <1>10, <1>11, <1>12, <1>13
     DEF Next, Network, Message

(* A robot that is on no list stays on no list: no step of the ledger puts *)
(* a robot on a list that was on none.                                     *)
LEMMA NextKeepsRetired ==
  ASSUME IInv, [Next]_vars, NEW r \in Robots,
         r \notin untaskRobotList \cup {taskRobotList[i] : i \in DOMAIN taskRobotList}
  PROVE  r \notin untaskRobotList' \cup {taskRobotList'[i] : i \in DOMAIN taskRobotList'}
<1>1. taskRobotList \in Seq(Robots)
  BY DEF IInv, TypeOK
<1>2. CASE UNCHANGED <<taskRobotList, untaskRobotList>>
  BY <1>2
<1>3. CASE Ledger!StartWork
  <2>1. /\ taskRobotList # <<>>
        /\ untaskRobotList' = untaskRobotList \cup {Head(taskRobotList)}
        /\ taskRobotList' = Tail(taskRobotList)
    BY <1>3 DEF Ledger!StartWork
  <2>2. /\ 1 \in DOMAIN taskRobotList /\ Head(taskRobotList) = taskRobotList[1]
        /\ \A i \in DOMAIN taskRobotList' :
             i + 1 \in DOMAIN taskRobotList /\ taskRobotList'[i] = taskRobotList[i + 1]
    BY <1>1, <2>1
  <2>3. QED
    BY <2>1, <2>2
<1>4. ASSUME NEW s \in untaskRobotList, Ledger!ComeBack(s) \/ Ledger!Retire(s)
      PROVE  r \notin untaskRobotList' \cup {taskRobotList'[i] : i \in DOMAIN taskRobotList'}
  <2>1. /\ untaskRobotList' = untaskRobotList \ {s}
        /\ taskRobotList' \in {taskRobotList, Append(taskRobotList, s)}
    BY <1>4 DEF Ledger!ComeBack, Ledger!Retire
  <2>2. s \in Robots
    BY DEF IInv, TypeOK
  <2>3. \A i \in DOMAIN taskRobotList' :
          taskRobotList'[i] = s \/ (i \in DOMAIN taskRobotList /\ taskRobotList'[i] = taskRobotList[i])
    <3>1. CASE taskRobotList' = taskRobotList
      BY <3>1
    <3>2. CASE taskRobotList' = Append(taskRobotList, s)
      <4>1. /\ DOMAIN taskRobotList' = 1..(Len(taskRobotList) + 1)
            /\ DOMAIN taskRobotList = 1..Len(taskRobotList) /\ Len(taskRobotList) \in Nat
            /\ \A i \in 1..Len(taskRobotList) : taskRobotList'[i] = taskRobotList[i]
            /\ taskRobotList'[Len(taskRobotList) + 1] = s
        BY <1>1, <2>2, <3>2
      <4>2. QED
        BY <4>1
    <3>3. QED
      BY <2>1, <3>1, <3>2
  <2>4. r # s /\ \A i \in DOMAIN taskRobotList : taskRobotList[i] # r
    OBVIOUS
  <2>5. r \notin untaskRobotList' /\ \A i \in DOMAIN taskRobotList' : taskRobotList'[i] # r
    BY <2>1, <2>3, <2>4
  <2>6. QED
    BY <2>5
<1>5. QED
  BY <1>2, <1>3, <1>4, NextIsLedgerStep DEF Ledger!Next

-----------------------------------------------------------------------------
(* The inductive invariant holds in every reachable state.                 *)
THEOREM Invariance == Spec => []IInv
BY InitInv, NextKeepsInv, PTL DEF Spec

(* The variables keep their types.                                         *)
THEOREM TypeCorrect == Spec => []TypeOK
<1>1. IInv => TypeOK
  BY DEF IInv
<1>2. QED
  BY <1>1, Invariance, PTL

(* A task robot is on one list at most, whatever callbacks give it back.   *)
THEOREM RobotsListedOnce == Spec => []NoRobotTwice
<1>1. IInv => NoRobotTwice
  BY DEF IInv
<1>2. QED
  BY <1>1, Invariance, PTL

(* The robots at work are those of the open task connections, one each.    *)
THEOREM WorkMatchesConnections == Spec => []WorkingRobotsAreConnected
<1>1. IInv => WorkingRobotsAreConnected
  BY DEF IInv
<1>2. QED
  BY <1>1, Invariance, PTL

(* mapConn_ lists exactly the open sockets under their own descriptors.    *)
THEOREM MapIsExact == Spec => []MapListsOpenSockets
<1>1. IInv => MapListsOpenSockets
  BY DEF IInv
<1>2. QED
  BY <1>1, Invariance, PTL

(* The header robot has one connection or one pending retry.               *)
THEOREM HeaderIsKept == Spec => []HeaderConnectedOrRetrying
<1>1. IInv => HeaderConnectedOrRetrying
  BY DEF IInv
<1>2. QED
  BY <1>1, Invariance, PTL

(* The header robot's polling timer never outlives its connection.         *)
THEOREM TimerDiesWithConnection == Spec => []PollingTimerOnHeaderConnection
<1>1. IInv => PollingTimerOnHeaderConnection
  BY DEF IInv
<1>2. QED
  BY <1>1, Invariance, PTL

(* Every connected task robot is watched by the timing wheel.              *)
THEOREM EveryRobotIsWatched == Spec => []ConnectedRobotIsWatched
<1>1. IInv => ConnectedRobotIsWatched
  BY DEF IInv
<1>2. QED
  BY <1>1, Invariance, PTL

(* An Entry that dies finds its connection open.                           *)
THEOREM EntryFindsItsConnection == Spec => []ExpiredEntryIsMapped
<1>1. IInv => ExpiredEntryIsMapped
  BY DEF IInv, OneCallbackAtATime, ExpiredEntryIsMapped
<1>2. QED
  BY <1>1, Invariance, PTL

(* A retired robot never plays again.                                      *)
THEOREM Retirement == Spec => RetiredForGood
<1> DEFINE Kept == \A r \in Robots :
             LET listed == untaskRobotList \cup {taskRobotList[i] : i \in DOMAIN taskRobotList}
             IN  r \notin listed => r \notin listed'
<1>1. IInv /\ [Next]_vars => [Kept]_vars
  BY NextKeepsRetired
<1>2. QED
  BY <1>1, Invariance, PTL DEF Spec, RetiredForGood

(* The pool implements the ledger.                                         *)
THEOREM LedgerRefinement == Spec => ImplementsLedger
<1>1. Init => Ledger!Init
  <2>1. ASSUME Init PROVE Ledger!Init
    <3>1. TypeOK
      BY <2>1, InitInv DEF IInv
    <3>2. QED
      BY <2>1, <3>1 DEF Init, Ledger!Init, TypeOK
  <2>2. QED
    BY <2>1
<1>2. IInv /\ [Next]_vars => [Ledger!Next]_<<taskRobotList, untaskRobotList>>
  BY NextIsLedgerStep
<1>3. QED
  BY <1>1, <1>2, Invariance, PTL DEF Spec, ImplementsLedger, Ledger!Spec
=============================================================================
