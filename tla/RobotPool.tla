------------------------------ MODULE RobotPool ------------------------------
(***************************************************************************)
(* The connection and robot bookkeeping of new_robot_client: EventProcess, *)
(* TcpEventServer, the Conn objects, the timing wheel that drops silent    *)
(* connections, the delayed messages of RobotTask and the polling timer of *)
(* RobotHeader.                                                            *)
(*                                                                         *)
(* The process is one libevent loop: a callback runs to its end before the *)
(* next one starts. Callbacks that loop (AddRobot over the robots to add,  *)
(* OnReadEvent over the buffered messages, a wheel cell over its entries)  *)
(* are one action per iteration, and the variables reading, toAdd and      *)
(* expiring hold the callback in progress; while one is in progress no     *)
(* other callback starts. What a robot does with a message is here only    *)
(* its effect on the pool.                                                 *)
(***************************************************************************)
EXTENDS Integers, Sequences, FiniteSets

CONSTANTS
  RobotNum,   \* number of task robots (robotNum_ without the header robot)
  Conns,      \* identities of Conn objects; bounds how many exist at a time
  Fds,        \* file descriptors the kernel may hand out
  None,       \* no connection, no descriptor
  WheelSize,  \* cells of the timing wheel (connectionBuckets_, 30 in the code)
  NodeTicks,  \* wheel ticks that may pass before a delayed message is sent
  MaxNeed     \* largest robot count a room asks for in one answer

(* A delayed message waits a few seconds (activeMsgDelay and               *)
(* passiveMsgDelay are 6 and 3 in robot.conf) and the wheel moves every 10 *)
(* seconds: NodeTicks is 1 in the deployed configuration.                  *)
ASSUME PoolAssumption ==
  /\ RobotNum \in Nat
  /\ None \notin Conns \cup Fds
  /\ WheelSize \in Nat
  /\ NodeTicks \in Nat
  /\ NodeTicks < WheelSize
  /\ MaxNeed \in Nat

Header    == 0              \* headerRobotId_, the first id of the range
Robots    == 1..RobotNum    \* the task robots, in creation order
NoRobot   == -1             \* a Conn whose robot_ is not set yet
NoEntry   == -1             \* a Conn without an Entry in the wheel

VARIABLES
  taskRobotList,    \* robots waiting for a game, first in first out
  untaskRobotList,  \* robots that hold a connection (order never observed)
  mapConn,          \* mapConn_: descriptor -> Conn
  fd,               \* fd_ of a Conn
  robot,            \* robot_ of a Conn
  bev,              \* what bev_ of a Conn points to
  status,           \* status_ of the robot of a Conn, as the pool tells it
  testing,          \* Conns whose robot has isTestNeedKeepPlay_ set
  age,              \* wheel ticks since the Entry of a Conn was last inserted
  nodes,            \* delayed messages: <<Conn they hold, ticks they waited>>
  queryConn,        \* Conn held by QueryRoomStateTimer_, None if no timer
  retryTimers,      \* pending one-shot timers of RebuildConnection
  reading,          \* Conn whose OnReadEvent loop is running
  toAdd,            \* robots the running AddRobot still has to add
  testAdd,          \* isTestKeepPlay of the running AddRobot
  expiring,         \* Conns whose Entry the running wheel step destroys
  phase             \* of the process

listVars  == <<taskRobotList, untaskRobotList>>
connVars  == <<mapConn, fd, robot, bev, status, testing, age>>
timerVars == <<nodes, queryConn, retryTimers>>
loopVars  == <<reading, toAdd, testAdd, expiring, phase>>
vars      == <<taskRobotList, untaskRobotList,
               mapConn, fd, robot, bev, status, testing, age,
               nodes, queryConn, retryTimers,
               reading, toAdd, testAdd, expiring, phase>>

(* The robot's protocol state as far as the pool depends on it. A robot    *)
(* starts over with every connection (RobotInit), so it is kept with the   *)
(* Conn.                                                                   *)
Statuses  == {"INIT",        \* INIT, VERIFY_REQ sent on connection
              "VERIFIED",    \* VERIFIED, INIT_GAME_REQ sent
              "READY",       \* INITGAME, KEEPPLAY and every later state
              "IDLE"}        \* INIT again after a failed handler (header)
BevStates == {"none",        \* no Conn object
              "connecting", "up",  \* a live bufferevent
              "freed",       \* bev_ still holds the address of a freed one
              "null"}        \* bev_ is nullptr
Phases    == {"new", "running", "exiting", "stopped", "crashed"}

-----------------------------------------------------------------------------
Live(c)   == bev[c] \in {"connecting", "up"}
Mapped    == {mapConn[f] : f \in Fds} \ {None}

(* A Conn object lives while mapConn_, a delayed MsgNode or the polling    *)
(* timer holds a shared_ptr to it; weakConn_.lock() tells exactly that.    *)
Held(c)   == \E n \in 0..NodeTicks : <<c, n>> \in nodes
Exists(c) == c \in Mapped \/ Held(c) \/ queryConn = c

(* Conn::BIsBufferExist only compares bev_ with nullptr.                   *)
BIsBufferExist(c) == bev[c] # "null"

LoopRuns == phase \in {"running", "exiting"}
LoopIdle == LoopRuns /\ reading = None /\ toAdd = 0 /\ expiring = {}

-----------------------------------------------------------------------------
(* CreateConnection: bufferevent_socket_new takes a descriptor no open     *)
(* socket has; mapConn_.insert keeps an element already there; the caller  *)
(* looks the descriptor up again and sets robot_ of what it finds.         *)
(* RobotInit resets that robot.                                            *)
CreateConnection(c, f, r, test) ==
  LET found == IF mapConn[f] = None THEN c ELSE mapConn[f] IN
  /\ ~Exists(c)
  /\ \A d \in Conns : Live(d) => fd[d] # f
  /\ mapConn' = [mapConn EXCEPT ![f] = found]
  /\ fd' = [fd EXCEPT ![c] = f]
  /\ bev' = [bev EXCEPT ![c] = "connecting"]
  /\ age' = [age EXCEPT ![c] = NoEntry]
  /\ robot' = [robot EXCEPT ![found] = r]
  /\ status' = [status EXCEPT ![found] = "INIT"]
  /\ testing' = IF test THEN testing \cup {found} ELSE testing \ {found}

(* The last shared_ptr to a Conn is gone: its Entry in the wheel can only  *)
(* find out that weakConn_ is expired.                                     *)
DestroyConn(c) ==
  /\ fd' = [fd EXCEPT ![c] = None]
  /\ bev' = [bev EXCEPT ![c] = "none"]
  /\ age' = [age EXCEPT ![c] = NoEntry]
  /\ robot' = [robot EXCEPT ![c] = NoRobot]
  /\ status' = [status EXCEPT ![c] = "IDLE"]
  /\ testing' = testing \ {c}

(* Mutant: the element of mapConn_ is left behind.                         *)
EraseConnForgetsMap(c, pointer) ==
  /\ UNCHANGED mapConn
  /\ IF Held(c)
     THEN /\ bev' = [bev EXCEPT ![c] = pointer]
          /\ UNCHANGED <<fd, age, robot, status, testing>>
     ELSE DestroyConn(c)

(* mapConn_.erase; pointer is what bev_ holds afterwards if a delayed      *)
(* message keeps the Conn.                                                 *)
EraseConn(c, pointer) ==
  /\ mapConn' = [mapConn EXCEPT ![fd[c]] = None]
  /\ IF Held(c)
     THEN /\ bev' = [bev EXCEPT ![c] = pointer]
          /\ UNCHANGED <<fd, age, robot, status, testing>>
     ELSE DestroyConn(c)

(* CloseConnection frees the bufferevent, clears bev_ and erases fd_.      *)
CloseConnection(c) == EraseConn(c, "null")

(* MoveRobotFromTaskListToUntaskList.                                      *)
MoveRobotFromTaskListToUntaskList ==
  /\ taskRobotList' = Tail(taskRobotList)
  /\ untaskRobotList' = untaskRobotList \cup {Head(taskRobotList)}

(* Mutant: the robot is put back at the front.                             *)
MoveRobotToFrontOfTaskList(c) ==
  /\ taskRobotList' = <<robot[c]>> \o taskRobotList
  /\ untaskRobotList' = untaskRobotList \ {robot[c]}

(* MoveRobotFromUntaskListToTaskList appends whether or not it was found.  *)
MoveRobotFromUntaskListToTaskList(c) ==
  /\ taskRobotList' = Append(taskRobotList, robot[c])
  /\ untaskRobotList' = untaskRobotList \ {robot[c]}

(* Mutant: the robot is given back and its connection stays open.          *)
DelRobotKeepsConnection(c) ==
  IF BIsBufferExist(c)
  THEN MoveRobotFromUntaskListToTaskList(c) /\ UNCHANGED connVars
  ELSE UNCHANGED <<listVars, connVars>>

(* DelRobot, the disconnect callback of a task robot.                      *)
DelRobot(c) ==
  IF BIsBufferExist(c)
  THEN MoveRobotFromUntaskListToTaskList(c) /\ CloseConnection(c)
  ELSE UNCHANGED <<listVars, connVars>>

(* Mutants: the retired robot stays in untaskRobotList; its connection     *)
(* stays open.                                                             *)
RetiredRobotStaysAtWork(c) ==
  IF BIsBufferExist(c)
  THEN CloseConnection(c) /\ UNCHANGED listVars
  ELSE UNCHANGED <<listVars, connVars>>

RetiredRobotKeepsConnection(c) ==
  IF BIsBufferExist(c)
  THEN /\ untaskRobotList' = untaskRobotList \ {robot[c]}
       /\ UNCHANGED <<taskRobotList, connVars>>
  ELSE UNCHANGED <<listVars, connVars>>

(* DelRobotAndCloseConnection: the robot leaves both lists for good.       *)
DelRobotAndCloseConnection(c) ==
  IF BIsBufferExist(c)
  THEN /\ CloseConnection(c)
       /\ untaskRobotList' = untaskRobotList \ {robot[c]}
       /\ UNCHANGED taskRobotList
  ELSE UNCHANGED <<listVars, connVars>>

(* Mutant: a failed attempt arms no retry.                                 *)
InitHeaderRobotConnectionOnce(rest) ==
  /\ \/ /\ \E c \in Conns, f \in Fds : CreateConnection(c, f, Header, FALSE)
        /\ queryConn' = None
     \/ UNCHANGED <<connVars, queryConn>>
  /\ retryTimers' = rest
  /\ UNCHANGED <<listVars, nodes>>

(* InitHeaderRobotConnection; rest is the number of other retry timers.    *)
InitHeaderRobotConnection(rest) ==
  /\ \/ /\ \E c \in Conns, f \in Fds : CreateConnection(c, f, Header, FALSE)
        /\ queryConn' = None
        /\ retryTimers' = rest
     \/ /\ retryTimers' = rest + 1      \* CreateConnection returned -1
        /\ UNCHANGED <<connVars, queryConn>>
  /\ UNCHANGED <<listVars, nodes>>
-----------------------------------------------------------------------------
Init ==
  /\ taskRobotList = [i \in Robots |-> i]
  /\ untaskRobotList = {}
  /\ mapConn = [f \in Fds |-> None]
  /\ fd = [c \in Conns |-> None]
  /\ robot = [c \in Conns |-> NoRobot]
  /\ bev = [c \in Conns |-> "none"]
  /\ status = [c \in Conns |-> "IDLE"]
  /\ testing = {}
  /\ age = [c \in Conns |-> NoEntry]
  /\ nodes = {}
  /\ queryConn = None
  /\ retryTimers = 0
  /\ reading = None
  /\ toAdd = 0
  /\ testAdd = FALSE
  /\ expiring = {}
  /\ phase = "new"

(* EventProcess::Start: the header robot's connection, then, when the      *)
(* configuration asks for it, a keep-play test of every task robot.        *)
Start ==
  /\ phase = "new"
  /\ phase' = "running"
  /\ InitHeaderRobotConnection(0)
  /\ \E keepPlay \in BOOLEAN :
       /\ testAdd' = keepPlay
       /\ toAdd' = IF keepPlay THEN Len(taskRobotList) ELSE 0
  /\ UNCHANGED <<reading, expiring>>

(* One turn of AddRobot's loop: it ends when enough robots are added, no   *)
(* robot is left, or a connection cannot be created.                       *)
AddRobot ==
  /\ LoopRuns /\ toAdd > 0
  /\ \/ /\ taskRobotList # <<>>
        /\ \E c \in Conns, f \in Fds :
             CreateConnection(c, f, Head(taskRobotList), testAdd)
        /\ MoveRobotFromTaskListToUntaskList
        /\ toAdd' = toAdd - 1
     \/ /\ toAdd' = 0       \* -1 == fd, or the list is empty
        /\ UNCHANGED <<listVars, connVars>>
  /\ UNCHANGED <<timerVars, reading, testAdd, expiring, phase>>

(* Mutant: a task connection gets no Entry.                                *)
ConnectEventWithoutEntry(c) ==
  /\ LoopIdle
  /\ bev[c] = "connecting" /\ c \in Mapped
  /\ bev' = [bev EXCEPT ![c] = "up"]
  /\ UNCHANGED <<listVars, mapConn, fd, robot, status, testing, age, timerVars, loopVars>>

(* EventCb with BEV_EVENT_CONNECTED and ConnectEvent: a task connection    *)
(* gets its Entry in the newest cell, and a VERIFY_REQ is written.         *)
ConnectEvent(c) ==
  /\ LoopIdle
  /\ bev[c] = "connecting" /\ c \in Mapped
  /\ bev' = [bev EXCEPT ![c] = "up"]
  /\ age' = [age EXCEPT ![c] = IF robot[c] # Header THEN 0 ELSE @]
  /\ UNCHANGED <<listVars, mapConn, fd, robot, status, testing, timerVars, loopVars>>

(* Mutant: the polling timer survives the header robot's connection.       *)
CloseEventKeepsPolling(c) ==
  /\ LoopIdle
  /\ Live(c) /\ c \in Mapped
  /\ EraseConn(c, "freed")
  /\ IF robot[c] = Header
     THEN retryTimers' = retryTimers + 1 /\ UNCHANGED listVars
     ELSE MoveRobotFromUntaskListToTaskList(c) /\ UNCHANGED retryTimers
  /\ UNCHANGED <<nodes, queryConn, loopVars>>

(* EventCb with BEV_EVENT_EOF or BEV_EVENT_ERROR and CloseEvent. The       *)
(* bufferevent is freed but bev_ of the Conn keeps its address. A header   *)
(* connection stops the polling timer and arms a retry; a task robot goes  *)
(* back to taskRobotList.                                                  *)
CloseEvent(c) ==
  /\ LoopIdle
  /\ Live(c) /\ c \in Mapped
  /\ EraseConn(c, "freed")
  /\ IF robot[c] = Header
     THEN /\ queryConn' = None
          /\ retryTimers' = retryTimers + 1
          /\ UNCHANGED listVars
     ELSE /\ MoveRobotFromUntaskListToTaskList(c)
          /\ UNCHANGED <<queryConn, retryTimers>>
  /\ UNCHANGED <<nodes, loopVars>>

RetryToCreateConnectionForHeaderRobot ==
  /\ LoopIdle
  /\ retryTimers > 0
  /\ InitHeaderRobotConnection(retryTimers - 1)
  /\ UNCHANGED loopVars

-----------------------------------------------------------------------------
(* Mutant: the Entry stays in the cell it is in.                           *)
OnReadEventKeepsCell(c) ==
  /\ LoopIdle
  /\ bev[c] = "up" /\ c \in Mapped
  /\ reading' = c
  /\ UNCHANGED <<listVars, connVars, timerVars, toAdd, testAdd, expiring, phase>>

(* OnReadEvent: the Entry of a task connection moves to the newest cell,   *)
(* then the loop over the messages in the input buffer starts.             *)
OnReadEvent(c) ==
  /\ LoopIdle
  /\ bev[c] = "up" /\ c \in Mapped
  /\ reading' = c
  /\ age' = [age EXCEPT ![c] = IF robot[c] # Header /\ @ # NoEntry THEN 0 ELSE @]
  /\ UNCHANGED <<listVars, mapConn, fd, robot, bev, status, testing, timerVars,
                 toAdd, testAdd, expiring, phase>>

(* The loop handles one message; more tells whether the buffer holds       *)
(* another one. A Conn that is still alive is the loop's.                  *)
Handling(c) == LoopRuns /\ reading = c /\ toAdd = 0 /\ c \in Mapped
NextMessage(c, more) == reading' = IF more THEN c ELSE None

(* RobotProcess returns FAIL (unknown id, no body) or the handler only     *)
(* records something: nothing of the pool changes. A bidding or playing    *)
(* handler leaves a delayed message that holds the Conn.                   *)
HandleMessage(c, more) ==
  /\ Handling(c)
  /\ \/ UNCHANGED nodes
     \/ /\ robot[c] # Header /\ status[c] = "READY"
        /\ nodes' = nodes \cup {<<c, 0>>}
  /\ NextMessage(c, more)
  /\ UNCHANGED <<listVars, connVars, queryConn, retryTimers, toAdd, testAdd, expiring, phase>>

(* RecvVerifyAck, result SUCCESS and no game to test for.                  *)
RecvVerifyAck(c, more) ==
  /\ Handling(c)
  /\ status[c] = "INIT"
  /\ status' = [status EXCEPT ![c] = "VERIFIED"]
  /\ NextMessage(c, more)
  /\ UNCHANGED <<listVars, mapConn, fd, robot, bev, testing, age,
                 timerVars, toAdd, testAdd, expiring, phase>>

(* RecvVerifyAck of a robot under test without a game to resume:           *)
(* AnalysisAndDecision disconnects it and returns true, so RobotProcess    *)
(* does not return CLOSE_CONNECTION and the loop goes on.                  *)
KeepPlayTestOver(c, more) ==
  /\ Handling(c)
  /\ robot[c] # Header /\ c \in testing /\ status[c] = "INIT"
  /\ DelRobot(c)
  /\ NextMessage(c, more)
  /\ UNCHANGED <<timerVars, toAdd, testAdd, expiring, phase>>

(* RecvInitGameAck: the header robot arms its polling timer, which holds   *)
(* the Conn.                                                               *)
RecvInitGameAck(c, more) ==
  /\ Handling(c)
  /\ status[c] = "VERIFIED"
  /\ status' = [status EXCEPT ![c] = "READY"]
  /\ queryConn' = IF robot[c] = Header THEN c ELSE queryConn
  /\ NextMessage(c, more)
  /\ UNCHANGED <<listVars, mapConn, fd, robot, bev, testing, age, nodes, retryTimers,
                 toAdd, testAdd, expiring, phase>>

(* RecvQueryRoomStatusAck: the header robot calls AddRobot.                *)
RecvQueryRoomStatusAck(c, more) ==
  /\ Handling(c)
  /\ robot[c] = Header /\ queryConn = c
  /\ toAdd' \in 1..MaxNeed
  /\ testAdd' = FALSE
  /\ NextMessage(c, more)
  /\ UNCHANGED <<listVars, connVars, timerVars, expiring, phase>>

(* A handler returned false or the game is over: CLOSE_CONNECTION ends the *)
(* loop. disConnectCallback_ of the header robot does nothing.             *)
HandlerFails(c) ==
  /\ Handling(c)
  /\ status[c] # "IDLE" \/ queryConn = c
  /\ reading' = None
  /\ IF robot[c] = Header
     THEN /\ status' = [status EXCEPT ![c] = "IDLE"]
          /\ UNCHANGED <<listVars, mapConn, bev, fd, robot, testing, age>>
     ELSE DelRobot(c)
  /\ UNCHANGED <<timerVars, toAdd, testAdd, expiring, phase>>

(* RecvQuickBeginGameAck with result 506 (not enough coins).               *)
RetireRobot(c) ==
  /\ Handling(c)
  /\ robot[c] # Header /\ status[c] = "READY"
  /\ reading' = None
  /\ DelRobotAndCloseConnection(c)
  /\ UNCHANGED <<timerVars, toAdd, testAdd, expiring, phase>>

(* The loop goes on with a Conn whose map element is gone: a use of freed  *)
(* memory. It ends at the failed read, or the process crashes.             *)
ReadAfterErase ==
  /\ LoopRuns /\ toAdd = 0
  /\ reading # None /\ reading \notin Mapped
  /\ reading' = None
  /\ phase' \in {phase, "crashed"}
  /\ UNCHANGED <<listVars, connVars, timerVars, toAdd, testAdd, expiring>>

-----------------------------------------------------------------------------
(* DelaySendMsgTimer: writes unless bev_ is nullptr and deletes the node.  *)
(* Writing to a freed bufferevent may go unnoticed or crash.               *)
DelaySendMsgTimer(c, n) ==
  /\ LoopIdle
  /\ <<c, n>> \in nodes
  /\ nodes' = nodes \ {<<c, n>>}
  /\ phase' \in IF BIsBufferExist(c) /\ ~Live(c) THEN {phase, "crashed"} ELSE {phase}
  /\ IF c \in Mapped \/ \E m \in (0..NodeTicks) \ {n} : <<c, m>> \in nodes
     THEN UNCHANGED connVars
     ELSE DestroyConn(c) /\ UNCHANGED mapConn
  /\ UNCHANGED <<listVars, queryConn, retryTimers, reading, toAdd, testAdd, expiring>>

(* Mutant: the wheel has a cell too many.                                  *)
TimingWheelOnTimeLate ==
  /\ LoopIdle
  /\ \A node \in nodes : node[2] < NodeTicks
  /\ nodes' = {<<node[1], node[2] + 1>> : node \in nodes}
  /\ expiring' = {c \in Conns : age[c] = WheelSize /\ Exists(c)}
  /\ age' = [c \in Conns |-> IF age[c] \in 0..(WheelSize - 1) /\ Exists(c)
                             THEN age[c] + 1 ELSE NoEntry]
  /\ UNCHANGED <<listVars, mapConn, fd, robot, bev, status, testing, queryConn, retryTimers,
                 reading, toAdd, testAdd, phase>>

(* TimingWheelOnTime pushes an empty cell over the oldest one, which       *)
(* destroys the entries that are in no newer cell.                         *)
TimingWheelOnTime ==
  /\ LoopIdle
  /\ \A node \in nodes : node[2] < NodeTicks
  /\ nodes' = {<<node[1], node[2] + 1>> : node \in nodes}
  /\ expiring' = {c \in Conns : age[c] = WheelSize - 1 /\ Exists(c)}
  /\ age' = [c \in Conns |-> IF age[c] \in 0..(WheelSize - 2) /\ Exists(c)
                             THEN age[c] + 1 ELSE NoEntry]
  /\ UNCHANGED <<listVars, mapConn, fd, robot, bev, status, testing, queryConn, retryTimers,
                 reading, toAdd, testAdd, phase>>

(* Mutant: an Entry dies without calling its robot.                        *)
DestroyEntrySilently(c) ==
  /\ LoopRuns
  /\ c \in expiring
  /\ expiring' = expiring \ {c}
  /\ UNCHANGED <<listVars, connVars, timerVars, reading, toAdd, testAdd, phase>>

(* Entry::~Entry of one entry of the destroyed cell.                       *)
DestroyEntry(c) ==
  /\ LoopRuns
  /\ c \in expiring
  /\ expiring' = expiring \ {c}
  /\ DelRobot(c)
  /\ UNCHANGED <<timerVars, reading, toAdd, testAdd, phase>>

(* SignalEvent: SIGINT asks the loop to stop in a second. Until then       *)
(* events are handled as before.                                           *)
SignalEvent ==
  /\ LoopIdle
  /\ phase = "running"
  /\ phase' = "exiting"
  /\ UNCHANGED <<listVars, connVars, timerVars, reading, toAdd, testAdd, expiring>>

Stop ==
  /\ LoopIdle
  /\ phase = "exiting"
  /\ phase' = "stopped"
  /\ UNCHANGED <<listVars, connVars, timerVars, reading, toAdd, testAdd, expiring>>

Terminated == phase \in {"stopped", "crashed"} /\ UNCHANGED vars

-----------------------------------------------------------------------------
Message(c) ==
  \/ \E more \in BOOLEAN :
       \/ HandleMessage(c, more)
       \/ RecvVerifyAck(c, more)
       \/ KeepPlayTestOver(c, more)
       \/ RecvInitGameAck(c, more)
       \/ RecvQueryRoomStatusAck(c, more)
  \/ HandlerFails(c)
  \/ RetireRobot(c)

Timer ==
  \/ RetryToCreateConnectionForHeaderRobot
  \/ \E c \in Conns, n \in 0..NodeTicks : DelaySendMsgTimer(c, n)
  \/ TimingWheelOnTime

Network(c) == ConnectEvent(c) \/ CloseEvent(c) \/ OnReadEvent(c)

Next ==
  \/ Start
  \/ AddRobot
  \/ \E c \in Conns : Network(c) \/ Message(c) \/ DestroyEntry(c)
  \/ ReadAfterErase
  \/ Timer
  \/ SignalEvent
  \/ Stop
  \/ Terminated

Spec == Init /\ [][Next]_vars

(* libevent runs every timer that is due and every callback to its end in  *)
(* each turn of its loop, whatever the other events are, so a timer that   *)
(* is due again and again does run: strong fairness. The input buffer is   *)
(* not refilled inside OnReadEvent, so its loop meets a last message. The  *)
(* network and the robots' peers promise nothing.                          *)
Fairness ==
  /\ SF_vars(TimingWheelOnTime)
  /\ \A c \in Conns : \A n \in 0..NodeTicks : SF_vars(DelaySendMsgTimer(c, n))
  /\ \A c \in Conns : SF_vars(HandleMessage(c, FALSE))
  /\ \A c \in Conns : WF_vars(DestroyEntry(c))
  /\ WF_vars(AddRobot)
  /\ WF_vars(ReadAfterErase)

FairSpec == Spec /\ Fairness

(* Moreover a connect that is tried again and again succeeds once.         *)
ServerAcceptsHeader ==
  SF_vars(RetryToCreateConnectionForHeaderRobot /\ retryTimers' = retryTimers - 1)

-----------------------------------------------------------------------------
(* The types of the variables.                                             *)
TypeOK ==
  /\ taskRobotList \in Seq(Robots)
  /\ untaskRobotList \in SUBSET Robots
  /\ mapConn \in [Fds -> Conns \cup {None}]
  /\ fd \in [Conns -> Fds \cup {None}]
  /\ robot \in [Conns -> Robots \cup {Header, NoRobot}]
  /\ bev \in [Conns -> BevStates]
  /\ status \in [Conns -> Statuses]
  /\ testing \in SUBSET Conns
  /\ age \in [Conns -> {NoEntry} \cup 0..(WheelSize - 1)]
  /\ nodes \in SUBSET (Conns \X (0..NodeTicks))
  /\ queryConn \in Conns \cup {None}
  /\ retryTimers \in Nat
  /\ reading \in Conns \cup {None}
  /\ toAdd \in Nat
  /\ testAdd \in BOOLEAN
  /\ expiring \in SUBSET Conns
  /\ phase \in Phases

(* A task robot is listed at most once: never twice in taskRobotList and   *)
(* never in both lists. MoveRobotFromUntaskListToTaskList appends without  *)
(* looking, so this rests on every caller giving back a robot once.        *)
NoRobotTwice ==
  /\ \A i, j \in DOMAIN taskRobotList : taskRobotList[i] = taskRobotList[j] => i = j
  /\ \A i \in DOMAIN taskRobotList : taskRobotList[i] \notin untaskRobotList

(* The robots at work are exactly those of the mapped task connections,    *)
(* one connection each: no robot waits while its connection is open, and   *)
(* no robot is lost in untaskRobotList after its connection closed.        *)
WorkingRobotsAreConnected ==
  /\ untaskRobotList = {robot[c] : c \in Mapped} \ {Header}
  /\ \A c, d \in Mapped : robot[c] = robot[d] => c = d

(* mapConn_ lists exactly the open sockets, each under its own descriptor, *)
(* so a heartbeat or a cancel request goes to live bufferevents only, and  *)
(* insert never meets the element of a closed socket.                      *)
MapListsOpenSockets ==
  /\ \A f \in Fds : mapConn[f] # None => Live(mapConn[f]) /\ fd[mapConn[f]] = f
  /\ \A c \in Conns : Live(c) => c \in Mapped

(* Once started, the header robot has a connection in mapConn_ or one      *)
(* pending retry, never both and never neither: it is not lost and does    *)
(* not sign in twice.                                                      *)
HeaderConnectedOrRetrying ==
  phase # "new" =>
    \/ retryTimers = 0 /\ \E c \in Mapped : robot[c] = Header
    \/ retryTimers = 1 /\ \A c \in Mapped : robot[c] # Header

(* The room status timer writes to the header robot's open connection: it  *)
(* never outlives it.                                                      *)
PollingTimerOnHeaderConnection ==
  queryConn # None => queryConn \in Mapped /\ robot[queryConn] = Header

(* Every connected task robot is watched by the timing wheel.              *)
ConnectedRobotIsWatched ==
  \A c \in Mapped : bev[c] = "up" /\ robot[c] # Header => age[c] # NoEntry \/ c \in expiring

(* An Entry that dies finds its connection open: no delayed message keeps  *)
(* the Conn of a closed connection until then, so DelRobot cannot give the *)
(* same robot back again or free the bufferevent again.                    *)
ExpiredEntryIsMapped == expiring \subseteq Mapped

(* A robot that left both lists (retired for lack of coins) never plays    *)
(* again.                                                                  *)
RetiredForGood ==
  [][\A r \in Robots :
       LET listed == untaskRobotList \cup {taskRobotList[i] : i \in DOMAIN taskRobotList}
       IN  r \notin listed => r \notin listed']_vars

(* A task connection that stays silent is closed: once its Entry has left  *)
(* the newest cell, it is dropped unless another message arrives first,    *)
(* whatever the other robots do.                                           *)
SilentConnectionIsDropped ==
  \A c \in Conns :
    (c \in Mapped /\ age[c] > 0) ~> (c \notin Mapped \/ age[c] = 0 \/ ~LoopRuns)

(* A header robot without connection gets one again if the server accepts  *)
(* connections at all, however often a single attempt fails.               *)
HeaderReconnects ==
  ServerAcceptsHeader =>
    ((retryTimers > 0) ~> ((\E c \in Mapped : robot[c] = Header) \/ ~LoopRuns))

(* The pool implements the ledger of waiting and working robots.           *)
Ledger == INSTANCE RobotLedger WITH Robots <- Robots,
            waiting <- taskRobotList, working <- untaskRobotList
ImplementsLedger == Ledger!Spec

-----------------------------------------------------------------------------
(* What the invariants above rest on, conjunct by conjunct:                *)
(* only a task connection has an Entry;                                    *)
EntryOfTaskRobot == \A c \in Conns : age[c] # NoEntry => robot[c] \in Robots

(* a delayed message is at least as old as the last message its connection *)
(* received, for that message caused it, so no Entry can die before it;    *)
NodeOutlivedByEntry ==
  \A node \in nodes : age[node[1]] # NoEntry /\ age[node[1]] <= node[2]

(* while a task connection is read its Entry is in the newest cell;        *)
ReadRefreshedEntry ==
  reading \in Mapped /\ robot[reading] # Header => age[reading] = 0

(* a callback in progress excludes the others, AddRobot runs inside the    *)
(* header robot's read loop or inside Start, and every Entry that is being *)
(* destroyed belongs to an open task connection;                           *)
OneCallbackAtATime ==
  /\ expiring # {} => reading = None /\ toAdd = 0
  /\ toAdd > 0 /\ reading # None => reading \in Mapped
  /\ \A c \in expiring : c \in Mapped /\ robot[c] # Header /\ ~Held(c)

(* and nothing happens before Start.                                       *)
NothingBeforeStart ==
  phase = "new" => Mapped = {} /\ retryTimers = 0 /\ toAdd = 0 /\ reading = None /\ expiring = {}

IInv ==
  /\ TypeOK
  /\ NoRobotTwice
  /\ WorkingRobotsAreConnected
  /\ MapListsOpenSockets
  /\ HeaderConnectedOrRetrying
  /\ PollingTimerOnHeaderConnection
  /\ ConnectedRobotIsWatched
  /\ EntryOfTaskRobot
  /\ NodeOutlivedByEntry
  /\ ReadRefreshedEntry
  /\ OneCallbackAtATime
  /\ NothingBeforeStart

-----------------------------------------------------------------------------
(* The connection a pending delayed message holds is open or known to be   *)
(* closed: DelaySendMsgTimer relies on BIsBufferExist to tell.             *)
DelayedMessageConnIsKnown ==
  \A node \in nodes : BIsBufferExist(node[1]) => Live(node[1])

(* The loop of OnReadEvent ends when its robot is disconnected: the Conn   *)
(* it goes on with is in mapConn_.                                         *)
ReadLoopConnIsMapped == reading # None => reading \in Mapped
=============================================================================
