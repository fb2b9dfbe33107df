---------------------------- MODULE HeaderRobot -----------------------------
(***************************************************************************)
(* The header robot (RobotHeader, and RobotBase for VERIFY and INIT_GAME)  *)
(* on its connection: it logs in, asks the lobby again and again how many  *)
(* robots the room needs, and has the pool send them. The pool is counts   *)
(* of robots; RobotPool has its lists.                                     *)
(***************************************************************************)
EXTENDS ReadFraming

CONSTANTS
  Robots,        \* task robots
  Seats,         \* Bound: players a room can lack
  MinPlayerNums, \* the values minPlayerNum may be configured to
  MaxPlayerNum,  \* configured
  Refusable,     \* the requests the lobby may refuse
  Prompt         \* TRUE: the polling interval is longer than it takes a robot to sign up

ASSUME HeaderAssumption ==
  /\ Robots \in Nat /\ Seats \in Nat
  /\ MinPlayerNums \subseteq Nat /\ MaxPlayerNum \in Int
  /\ Refusable \subseteq {"VERIFY", "INIT_GAME", "NEED_ROBOT"}
  /\ Prompt \in BOOLEAN

VARIABLES
  minPlayerNum, \* configured: 0 means robots are sent whatever the lobby says
  link,      \* "down": a retry is due; "connecting"; "up"
  status,    \* status_
  keepPlay,  \* needKeepPlay_
  timer,     \* QueryRoomStateTimer_ is armed, for this connection
  requests,  \* on their way to the lobby
  idle,      \* robots in taskRobotList_
  coming,    \* robots sent that have not signed up
  lacks,     \* players the room lacks
  asked      \* history: what the lobby last said the room lacks

header == <<minPlayerNum, link, status, keepPlay, timer, requests>>
crew   == <<idle, coming, lacks, asked>>
vars   == <<framing, header, crew>>

(* robots is -2 for an answer without the field.                           *)
NoField == -2
AckOf(id, result, robots, gamename) ==
  [id |-> id, result |-> result, robots |-> robots, gamename |-> gamename]
Acks ==
  {AckOf("VERIFY", TRUE, NoField, g) : g \in BOOLEAN}
    \cup {AckOf("INIT_GAME", TRUE, NoField, FALSE)}
    \cup {AckOf("NEED_ROBOT", TRUE, n, FALSE) : n \in {NoField, -1} \cup 0..Seats}
    \cup {AckOf(id, FALSE, NoField, FALSE) : id \in Refusable}
(* A frame says one of these.                                              *)
ASSUME MessageAssumption == Message = Acks

Busy == Robots - idle - coming

Init ==
  /\ InitFraming
  /\ minPlayerNum \in MinPlayerNums
  /\ link \in {"down", "connecting"}
  /\ status = "INIT" /\ keepPlay = FALSE /\ timer = FALSE /\ requests = <<>>
  /\ idle \in {0, Robots} /\ coming = 0   \* 0: the keep-play test has all of them
  /\ lacks \in 0..Seats /\ asked = 0

-----------------------------------------------------------------------------
(* The connection. A callback that reads excludes the others.              *)

(* Mutant: the robot is not reset when it connects again.                  *)
InitKeepsStatus ==
  /\ ~reading /\ link = "down"
  /\ link' = "connecting"
  /\ UNCHANGED <<minPlayerNum, framing, requests, crew, status, keepPlay, timer>>

(* InitHeaderRobotConnection, at the start and from the retry timer.       *)
InitHeaderRobotConnection ==
  /\ ~reading /\ link = "down"
  /\ link' = "connecting"
  /\ status' = "INIT" /\ keepPlay' = FALSE /\ timer' = FALSE
  /\ UNCHANGED <<minPlayerNum, framing, requests, crew>>

(* ConnectEvent: SendVerifyReq                                             *)
ConnectEvent ==
  /\ ~reading /\ link = "connecting"
  /\ link' = "up" /\ requests' = <<"VERIFY">>
  /\ UNCHANGED <<minPlayerNum, framing, status, keepPlay, timer, crew>>

(* CloseEvent, when a connect fails or the peer closes.                    *)
CloseEvent ==
  /\ ~reading /\ link # "down"
  /\ link' = "down" /\ timer' = FALSE /\ requests' = <<>>
  /\ LoseFrames
  /\ UNCHANGED <<minPlayerNum, status, keepPlay, crew>>

(* QueryRoomStatusTimer: SendQueryRoomStatusReq                            *)
QueryRoomStatusTimer ==
  /\ ~reading /\ timer
  /\ Prompt => coming = 0 /\ wire = <<>> /\ requests = <<>>
  /\ Len(requests) < MaxWire
  /\ requests' = Append(requests, "NEED_ROBOT")
  /\ UNCHANGED <<framing, minPlayerNum, link, status, keepPlay, timer, crew>>

-----------------------------------------------------------------------------
(* The handlers, for the message that was handed over last. RobotProcess   *)
(* sends what they leave to send, and has AddRobot called for the need.    *)
SmallerOf(a, b) == IF a < b THEN a ELSE b

(* AddRobot counts iRobotNum down to 0 while there are robots: a negative  *)
(* number takes all. A connection that cannot be created ends it.          *)
AddRobot(iRobotNum) ==
  \E n \in 0..(IF iRobotNum < 0 THEN idle ELSE SmallerOf(iRobotNum, idle)) :
    /\ idle' = idle - n /\ coming' = coming + n
    /\ UNCHANGED <<lacks, asked>>

RecvVerifyAck ==
  /\ HandOver(TRUE)
  /\ msg' # Garbled /\ msg'.id = "VERIFY" /\ msg'.result /\ status = "INIT"
  /\ status' = "VERIFIED"
  /\ keepPlay' = (keepPlay \/ msg'.gamename)
  /\ requests' = Append(requests, "INIT_GAME")
  /\ UNCHANGED <<minPlayerNum, link, timer, crew>>

(* NextActionProcess: BeginToQueryRoomStatus                               *)
RecvInitGameAck ==
  /\ HandOver(TRUE)
  /\ msg' # Garbled /\ msg'.id = "INIT_GAME" /\ msg'.result /\ status = "VERIFIED"
  /\ status' = IF keepPlay THEN "KEEPPLAY" ELSE "INITGAME"
  /\ timer' = TRUE
  /\ UNCHANGED <<minPlayerNum, link, keepPlay, requests, crew>>

(* Mutant: a negative number of robots is not refused.                     *)
NegativeNeed(ack) ==
  IF minPlayerNum = 0 THEN MaxPlayerNum
  ELSE IF ack.robots = NoField THEN 0 ELSE ack.robots

(* The robots an answer has AddRobot look for; 0 does nothing.             *)
NeedRobotNum(ack) ==
  IF minPlayerNum = 0 THEN MaxPlayerNum
  ELSE IF ack.robots < 0 THEN 0 ELSE ack.robots

RecvQueryRoomStatusAck ==
  /\ HandOver(TRUE)
  /\ msg' # Garbled /\ msg'.id = "NEED_ROBOT"
  /\ msg'.result \/ minPlayerNum = 0
  /\ AddRobot(NeedRobotNum(msg'))
  /\ UNCHANGED header

Refused(ack) ==
  \/ ack.id = "VERIFY" /\ (~ack.result \/ status # "INIT")
  \/ ack.id = "INIT_GAME" /\ (~ack.result \/ status # "VERIFIED")
  \/ ack.id = "NEED_ROBOT" /\ ~ack.result /\ minPlayerNum # 0

(* Mutant: the polling timer goes with the status.                         *)
FailureStopsTimer ==
  /\ HandOver(FALSE)
  /\ msg' # Garbled /\ Refused(msg')
  /\ status' = "INIT" /\ timer' = FALSE
  /\ UNCHANGED <<minPlayerNum, link, keepPlay, requests, crew>>

(* A handler fails: HeaderRobotDisconnect leaves the connection as it is,  *)
(* and CLOSE_CONNECTION ends the loop with what is left in the buffer.     *)
HandlerFails ==
  /\ HandOver(FALSE)
  /\ msg' # Garbled /\ Refused(msg')
  /\ status' = "INIT"
  /\ UNCHANGED <<minPlayerNum, link, keepPlay, timer, requests, crew>>

(* An unknown id, or a message that does not parse.                        *)
GarbledIsIgnored ==
  /\ HandOver(TRUE)
  /\ msg' = Garbled
  /\ UNCHANGED <<header, crew>>

HandleMessage ==
  \/ RecvVerifyAck \/ RecvInitGameAck \/ RecvQueryRoomStatusAck
  \/ HandlerFails \/ GarbledIsIgnored

-----------------------------------------------------------------------------
(* The lobby and the task robots (external)                                *)
Answer(ack) ==
  /\ ~reading /\ requests # <<>> /\ ack.id = Head(requests)
  /\ SendFrame(ack)
  /\ requests' = Tail(requests)
  /\ UNCHANGED <<minPlayerNum, link, status, keepPlay, timer, idle, coming, lacks>>

(* A request is granted; the lobby says what the room lacks.               *)
Grants ==
  \/ \E g \in BOOLEAN : Answer(AckOf("VERIFY", TRUE, NoField, g)) /\ UNCHANGED asked
  \/ Answer(AckOf("INIT_GAME", TRUE, NoField, FALSE)) /\ UNCHANGED asked
  \/ Answer(AckOf("NEED_ROBOT", TRUE, lacks, FALSE)) /\ asked' = lacks

(* It is refused, or answered with nothing of use.                         *)
Denies ==
  /\ \/ \E id \in Refusable : Answer(AckOf(id, FALSE, NoField, FALSE))
     \/ \E n \in {NoField, -1} : Answer(AckOf("NEED_ROBOT", TRUE, n, FALSE))
  /\ UNCHANGED asked

RobotSignsUp ==
  /\ ~reading /\ coming > 0
  /\ coming' = coming - 1
  /\ lacks' = IF lacks > 0 THEN lacks - 1 ELSE 0
  /\ UNCHANGED <<framing, header, idle, asked>>

(* A robot's connection fails before it has signed up.                     *)
RobotTurnsBack ==
  /\ ~reading /\ coming > 0
  /\ coming' = coming - 1 /\ idle' = idle + 1
  /\ UNCHANGED <<framing, header, lacks, asked>>

RobotReturns ==
  /\ ~reading /\ Busy > 0
  /\ idle' = idle + 1
  /\ UNCHANGED <<framing, header, coming, lacks, asked>>

RoomChanges ==
  /\ ~reading
  /\ lacks' \in 0..Seats
  /\ UNCHANGED <<framing, header, idle, coming, asked>>

Connection == InitHeaderRobotConnection \/ ConnectEvent \/ CloseEvent
Reading    == ReadingEnds /\ UNCHANGED <<header, crew>>
Network    == Arrive /\ UNCHANGED <<header, crew>>
Others     == Grants \/ Denies \/ RobotSignsUp \/ RobotTurnsBack \/ RobotReturns \/ RoomChanges

Next == Connection \/ QueryRoomStatusTimer \/ Network \/ Reading \/ HandleMessage \/ Others

(* The loop runs its callbacks and timers; the network delivers; the lobby *)
(* answers, and does not deny every request for ever; creating connections *)
(* does not fail for ever; robots sent sign up or turn back.               *)
RobotsAreSent == RecvQueryRoomStatusAck /\ coming' > coming

Spec == Init /\ [][Next]_vars

FairSpec ==
  /\ Spec
  /\ WF_vars(Network) /\ WF_vars(Reading \/ HandleMessage) /\ WF_vars(QueryRoomStatusTimer)
  /\ WF_vars(InitHeaderRobotConnection) /\ WF_vars(RobotSignsUp)
  /\ SF_vars(Grants) /\ SF_vars(RobotsAreSent)

-----------------------------------------------------------------------------
(* Properties                                                              *)
TypeOK ==
  /\ delivery \in Deliveries /\ minPlayerNum \in MinPlayerNums
  /\ wire \in Seq(Message) /\ Len(wire) <= MaxWire
  /\ off \in 0..(Frame - 1) /\ got \in off..Sent
  /\ reading \in BOOLEAN /\ msg \in Message \cup {NoMessage, Garbled}
  /\ link \in {"down", "connecting", "up"}
  /\ status \in {"INIT", "VERIFIED", "INITGAME", "KEEPPLAY"}
  /\ keepPlay \in BOOLEAN /\ timer \in BOOLEAN
  /\ requests \in Seq({"VERIFY", "INIT_GAME", "NEED_ROBOT"})
  /\ idle \in Nat /\ coming \in Nat /\ Busy \in Nat
  /\ lacks \in 0..Seats /\ asked \in 0..Seats

(* A room never gets more robots than it lacked when the lobby was asked,  *)
(* or than are configured, whatever else the lobby answers: numbers below  *)
(* zero, answers without a number, and refusals send none.                 *)
NeverTooMany == coming <= IF minPlayerNum = 0 THEN MaxPlayerNum ELSE asked

(* A header robot that has a connection comes to poll the lobby on it,     *)
(* unless the connection goes.                                             *)
HeaderRecovers ==
  delivery = "whole" /\ link = "up" /\ ~timer ~> timer \/ link # "up"

(* As long as the header robot polls, a room that lacks players gets a     *)
(* robot while there is an idle one, though answers are refused or useless *)
(* any number of times.                                                    *)
RoomIsServed ==
  delivery = "whole" /\ link = "up" /\ timer /\ lacks > 0 /\ idle > 0
    ~> coming > 0 \/ lacks = 0 \/ idle = 0 \/ link # "up"
=============================================================================
