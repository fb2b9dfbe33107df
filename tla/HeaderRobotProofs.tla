------------------------- MODULE HeaderRobotProofs -------------------------
(***************************************************************************)
(* The invariants of HeaderRobot, for any number of robots, of seats and   *)
(* of frames on the wire, and the refinement of ReadFraming to a channel.  *)
(***************************************************************************)
EXTENDS HeaderRobot, SequenceTheorems, TLAPS

(* The framing's part of TypeOK, which is inductive by itself.             *)
FramingOK ==
  /\ delivery \in Deliveries
  /\ wire \in Seq(Message) /\ Len(wire) <= MaxWire
  /\ off \in 0..(Frame - 1) /\ got \in off..Sent
  /\ reading \in BOOLEAN /\ msg \in Message \cup {NoMessage, Garbled}

(* A network that cuts no frame leaves none half read.                     *)
WholeFrames == delivery = "whole" => off = 0 /\ got % Frame = 0

LEMMA FrameIsSix == Frame = 6 /\ Field = 2 /\ Body = 2
BY DEF Frame, Field, Body

LEMMA Division ==
  ASSUME NEW n \in Nat
  PROVE  /\ n \div 6 \in Nat /\ n % 6 \in 0..5
         /\ n = 6 * (n \div 6) + (n % 6)
OBVIOUS

(* Reading on to a unit that has come in drops whole frames, no more than  *)
(* there are, and keeps the rest in place.                                 *)
LEMMA MoveToKeeps ==
  ASSUME FramingOK, NEW n \in off..got, MoveTo(n)
  PROVE  /\ wire' \in Seq(Message)
         /\ Len(wire') = Len(wire) - n \div 6 /\ n \div 6 \in Nat
         /\ \A i \in 1..Len(wire') : wire'[i] = wire[i + n \div 6]
         /\ off' \in 0..(Frame - 1) /\ got' \in off'..(Frame * Len(wire'))
<1> DEFINE k == n \div 6
<1>1. /\ off \in 0..5 /\ got \in Nat /\ got <= 6 * Len(wire) /\ n \in Nat /\ n <= got
      /\ wire \in Seq(Message) /\ Len(wire) \in Nat
  BY FrameIsSix DEF FramingOK, Sent
<1>2. k \in Nat /\ n % 6 \in 0..5 /\ n = 6 * k + (n % 6)
  BY <1>1, Division
<1>3. k <= Len(wire)
  BY <1>1, <1>2
<1>4. wire' = SubSeq(wire, 1 + k, Len(wire)) /\ got' = got - 6 * k /\ off' = n % 6
  BY FrameIsSix DEF MoveTo
<1>5. \A i \in (1 + k)..Len(wire) : wire[i] \in Message
  BY <1>1, <1>2, ElementOfSeq
<1> HIDE DEF k
<1>6. /\ wire' \in Seq(Message)
      /\ Len(wire') = Len(wire) - k
      /\ \A i \in 1..(Len(wire) - k) : wire'[i] = wire[(1 + k) + i - 1]
  BY <1>1, <1>2, <1>3, <1>4, <1>5, SubSeqProperties
<1>7. off' \in 0..5 /\ got' \in off'..(6 * Len(wire'))
  <2> DEFINE r == n % 6
             L == Len(wire)
  <2>1. r \in 0..5 /\ n = 6 * k + r /\ off' = r
    BY <1>2, <1>4
  <2>2. L \in Nat /\ got <= 6 * L /\ Len(wire') = L - k
    BY <1>1, <1>6
  <2> HIDE DEF r, L
  <2>3. got - 6 * k \in r..(6 * (L - k))
    BY <1>1, <1>2, <2>1, <2>2
  <2>4. QED
    BY <1>4, <2>1, <2>2, <2>3
<1>8. \A i \in 1..Len(wire') : wire'[i] = wire[i + k]
  BY <1>1, <1>2, <1>6
<1>9. QED
  BY <1>2, <1>6, <1>7, <1>8, FrameIsSix DEF k

-----------------------------------------------------------------------------
(* What a step of the robot can be to the bytes on its connection.         *)
SendsNothing ==
  \/ UNCHANGED framing
  \/ LoseFrames \/ Arrive \/ ReadingEnds
  \/ \E goOn \in BOOLEAN : HandOver(goOn)

FramingNext == SendsNothing \/ \E m \in Message : SendFrame(m)

LEMMA StepFrames ==
  ASSUME lacks \in 0..Seats, [Next]_vars
  PROVE  FramingNext
<1>1. CASE Connection
  BY <1>1 DEF Connection, InitHeaderRobotConnection, ConnectEvent, CloseEvent,
    SendsNothing, FramingNext
<1>2. CASE QueryRoomStatusTimer \/ Network \/ Reading
  BY <1>2 DEF QueryRoomStatusTimer, Network, Reading, SendsNothing, FramingNext
<1>3. CASE HandleMessage
  BY <1>3 DEF HandleMessage, RecvVerifyAck, RecvInitGameAck, RecvQueryRoomStatusAck,
    HandlerFails, GarbledIsIgnored, SendsNothing, FramingNext
<1>4. CASE Others
  <2>1. CASE Grants
    <3>1. lacks \in 0..Seats => AckOf("NEED_ROBOT", TRUE, lacks, FALSE) \in Message
      BY MessageAssumption DEF Acks
    <3>2. \A g \in BOOLEAN : AckOf("VERIFY", TRUE, NoField, g) \in Message
      BY MessageAssumption DEF Acks
    <3>3. AckOf("INIT_GAME", TRUE, NoField, FALSE) \in Message
      BY MessageAssumption DEF Acks
    <3>4. QED
      BY <2>1, <3>1, <3>2, <3>3 DEF Grants, Answer, FramingNext
  <2>2. CASE Denies
    <3>1. \A id \in Refusable : AckOf(id, FALSE, NoField, FALSE) \in Message
      BY MessageAssumption DEF Acks
    <3>2. \A n \in {NoField, -1} : AckOf("NEED_ROBOT", TRUE, n, FALSE) \in Message
      BY MessageAssumption DEF Acks
    <3>3. QED
      BY <2>2, <3>1, <3>2 DEF Denies, Answer, FramingNext
  <2>3. QED
    BY <1>4, <2>1, <2>2 DEF Others, RobotSignsUp, RobotTurnsBack, RobotReturns,
      RoomChanges, SendsNothing, FramingNext
<1>5. CASE UNCHANGED vars
  BY <1>5 DEF vars, SendsNothing, FramingNext
<1>6. QED
  BY <1>1, <1>2, <1>3, <1>4, <1>5 DEF Next

(* The next unit after what HandOver takes has come in, and the message it *)
(* hands over, when it is whole, is the first of the wire.                 *)
LEMMA HandOverTakes ==
  ASSUME FramingOK, NEW goOn, HandOver(goOn)
  PROVE  /\ wire # <<>>
         /\ \E m \in off..got : MoveTo(m)
         /\ msg' = Garbled \/ (off = 0 /\ msg' = Head(wire) /\ MoveTo(Frame))
         /\ off = 0 /\ got >= Frame => msg' = Head(wire) /\ MoveTo(Frame)
<1>1. /\ off \in Nat /\ got \in Nat /\ got - off >= 4
      /\ wire \in Seq(Message) /\ Len(wire) \in Nat /\ got <= 6 * Len(wire)
  BY FrameIsSix DEF FramingOK, HandOver, Sent
<1>2. PICK n \in LengthsRead : TakeBody(n)
  BY DEF HandOver
<1>3. n \in Nat /\ (off = 0 => n = 2)
  BY <1>1, <1>2, FrameIsSix DEF LengthsRead
<1> DEFINE there == got - off - 4
           m == off + 4 + (IF n < there THEN n ELSE there)
<1>4. MoveTo(m) /\ msg' = IF off = 0 /\ n <= there THEN Head(wire) ELSE Garbled
  BY <1>2, FrameIsSix DEF TakeBody
<1>5. m \in off..got
  BY <1>1, <1>3
<1>6. off = 0 /\ n <= there => m = 6
  BY <1>1, <1>3
<1>7. off = 0 /\ got >= 6 => n <= there
  BY <1>1, <1>3
<1> HIDE DEF there, m
<1>8. wire # <<>>
  BY <1>1
<1>9. QED
  BY <1>4, <1>5, <1>6, <1>7, <1>8, FrameIsSix

LEMMA FramingStep ==
  ASSUME FramingOK, FramingNext
  PROVE  FramingOK'
<1> USE FrameIsSix
<1>1. CASE UNCHANGED framing
  BY <1>1 DEF FramingOK, Sent, framing
<1>2. ASSUME NEW m \in Message, SendFrame(m)
      PROVE  FramingOK'
  <2>1. wire' \in Seq(Message) /\ Len(wire') = Len(wire) + 1 /\ Len(wire) \in Nat
    BY <1>2, AppendProperties DEF FramingOK, SendFrame
  <2>2. Len(wire') <= MaxWire
    BY <1>2, <2>1, FramingAssumption DEF SendFrame
  <2>3. got' \in off'..Sent'
    BY <1>2, <2>1 DEF FramingOK, SendFrame, Sent
  <2>4. QED
    BY <1>2, <2>1, <2>2, <2>3 DEF FramingOK, SendFrame
<1>3. CASE LoseFrames
  <2>1. wire' \in Seq(Message) /\ Len(wire') = 0
    BY <1>3 DEF LoseFrames
  <2>2. reading' \in BOOLEAN
    BY <1>3, Zenon DEF LoseFrames
  <2>3. off' = 0 /\ got' = 0 /\ delivery' = delivery /\ msg' = msg
    BY <1>3 DEF LoseFrames
  <2>4. off' \in 0..(Frame - 1) /\ got' \in off'..(Frame * Len(wire'))
    BY <2>1, <2>3
  <2>5. 0 <= MaxWire
    BY FramingAssumption
  <2>6. QED
    BY <2>1, <2>2, <2>3, <2>4, <2>5 DEF FramingOK, Sent
<1>4. CASE Arrive
  <2>1. Len(wire) \in Nat /\ off \in Nat /\ got \in off..Sent /\ Sent \in Nat
    BY DEF FramingOK, Sent
  <2>2. got' \in off'..Sent'
    BY <1>4, <2>1 DEF Arrive, Sent
  <2>3. QED
    BY <1>4, <2>2 DEF FramingOK, Arrive
<1>5. ASSUME NEW n \in off..got, MoveTo(n), reading' \in BOOLEAN, delivery' = delivery,
             msg' \in Message \cup {NoMessage, Garbled}
      PROVE  FramingOK'
  <2>1. /\ wire' \in Seq(Message) /\ Len(wire') <= Len(wire)
        /\ off' \in 0..(Frame - 1) /\ got' \in off'..(Frame * Len(wire'))
    BY <1>5, MoveToKeeps DEF FramingOK
  <2>2. Len(wire') <= MaxWire
    BY <2>1, FramingAssumption DEF FramingOK
  <2>3. QED
    BY <1>5, <2>1, <2>2 DEF FramingOK, Sent
<1>6. CASE ReadingEnds
  <2>1. off \in Nat /\ got \in Nat /\ off <= got
    BY DEF FramingOK, Sent
  <2>2. CASE BufferEmpty
    BY <2>2 DEF BufferEmpty, FramingOK, Sent
  <2>3. CASE FieldCut
    <3>1. MoveTo(got) /\ delivery' = delivery /\ got \in off..got
      BY <2>1, <2>3 DEF FieldCut
    <3>2. reading' \in BOOLEAN
      BY <2>3, Zenon DEF FieldCut
    <3>3. msg' \in Message \cup {NoMessage, Garbled}
      BY <2>3 DEF FieldCut, FramingOK
    <3>4. QED
      BY <1>5, <3>1, <3>2, <3>3
  <2>4. CASE LengthZero
    <3>1. off + Field \in off..got
      BY <2>1, <2>4 DEF LengthZero
    <3>2. QED
      BY <1>5, <2>4, <3>1 DEF LengthZero, FramingOK
  <2>5. QED
    BY <1>6, <2>2, <2>3, <2>4 DEF ReadingEnds
<1>7. ASSUME NEW goOn \in BOOLEAN, HandOver(goOn)
      PROVE  FramingOK'
  <2>1. PICK n \in off..got : MoveTo(n)
    BY <1>7, HandOverTakes
  <2>2. msg' \in Message \cup {NoMessage, Garbled}
    BY <1>7, HandOverTakes, HeadTailProperties DEF FramingOK
  <2>3. QED
    BY <1>5, <1>7, <2>1, <2>2 DEF HandOver
<1>8. QED
  BY <1>1, <1>2, <1>3, <1>4, <1>6, <1>7 DEF SendsNothing, FramingNext

(* While no frame is cut, the reading loop never sees a part of one, and   *)
(* each of its steps is one of the channel's, or none.                     *)
LEMMA WholeStep ==
  ASSUME FramingOK, WholeFrames, FramingNext
  PROVE  /\ WholeFrames'
         /\ delivery = "whole" => Channel!Next \/ UNCHANGED <<wire, msg>>
<1>1. delivery' = delivery
  BY DEF SendsNothing, FramingNext, framing, SendFrame, LoseFrames, Arrive, ReadingEnds, BufferEmpty,
    FieldCut, LengthZero, HandOver
<1>2. SUFFICES ASSUME delivery = "whole"
               PROVE  /\ off' = 0 /\ got' % 6 = 0
                      /\ Channel!Next \/ UNCHANGED <<wire, msg>>
  BY <1>1, FrameIsSix DEF WholeFrames
<1>3. off = 0 /\ got \in Nat /\ got % 6 = 0 /\ got <= 6 * Len(wire) /\ wire \in Seq(Message)
  BY <1>2, FrameIsSix DEF WholeFrames, FramingOK, Sent
<1>4. CASE UNCHANGED framing
  BY <1>3, <1>4 DEF framing
<1>5. CASE \E m \in Message : SendFrame(m)
  BY <1>3, <1>5 DEF SendFrame, Channel!Next, Channel!Send
<1>6. CASE LoseFrames
  BY <1>6 DEF LoseFrames, Channel!Next, Channel!Lose
<1>7. CASE Arrive
  BY <1>2, <1>3, <1>7, FrameIsSix DEF Arrive
<1>8. CASE ReadingEnds
  <2>1. ~FieldCut
    BY <1>3, FrameIsSix DEF FieldCut
  <2>2. ~LengthZero
    BY <1>3 DEF LengthZero
  <2>3. QED
    BY <1>3, <1>8, <2>1, <2>2 DEF ReadingEnds, BufferEmpty
<1>9. CASE \E goOn \in BOOLEAN : HandOver(goOn)
  <2>1. got >= 4
    BY <1>3, <1>9, FrameIsSix DEF HandOver
  <2>2. got >= 6
    BY <1>3, <2>1
  <2>3. wire # <<>> /\ msg' = Head(wire) /\ MoveTo(6)
    BY <1>3, <1>9, <2>2, HandOverTakes, FrameIsSix
  <2>4. wire' = SubSeq(wire, 2, Len(wire)) /\ got' = got - 6 /\ off' = 0
    BY <1>3, <2>3, FrameIsSix DEF MoveTo
  <2>5. wire' = Tail(wire)
    BY <1>3, <2>3, <2>4, TailIsSubSeq
  <2>6. got' % 6 = 0
    BY <1>3, <2>2, <2>4
  <2>7. QED
    BY <2>3, <2>4, <2>5, <2>6 DEF Channel!Next, Channel!Receive
<1>10. QED
  BY <1>4, <1>5, <1>6, <1>7, <1>8, <1>9 DEF SendsNothing, FramingNext

-----------------------------------------------------------------------------
(* The rest of TypeOK.                                                     *)
HeaderOK ==
  /\ minPlayerNum \in MinPlayerNums
  /\ link \in {"down", "connecting", "up"}
  /\ status \in {"INIT", "VERIFIED", "INITGAME", "KEEPPLAY"}
  /\ keepPlay \in BOOLEAN /\ timer \in BOOLEAN
  /\ requests \in Seq({"VERIFY", "INIT_GAME", "NEED_ROBOT"})

CrewOK ==
  /\ idle \in Nat /\ coming \in Nat /\ Busy \in Nat
  /\ lacks \in 0..Seats /\ asked \in 0..Seats

LEMMA AckFields ==
  ASSUME NEW a \in Message
  PROVE  a.robots \in Int /\ a.gamename \in BOOLEAN
<1>1. a \in Acks
  BY MessageAssumption
<1>2. \E id, r, n : \E g \in BOOLEAN : a = [id |-> id, result |-> r, robots |-> n, gamename |-> g]
  BY <1>1, Zenon DEF Acks, AckOf
<1>3. a.robots \in Int
  BY <1>1, HeaderAssumption DEF Acks, AckOf, NoField
<1>4. a.gamename \in BOOLEAN
  <2>1. PICK id, r, n : \E g \in BOOLEAN : a = [id |-> id, result |-> r, robots |-> n, gamename |-> g]
    BY <1>2, Zenon
  <2>2. PICK g \in BOOLEAN : a = [id |-> id, result |-> r, robots |-> n, gamename |-> g]
    BY <2>1, Zenon
  <2>3. a.gamename = g
    BY <2>2, Zenon
  <2>4. QED
    BY <2>3, Zenon
<1>5. QED
  BY <1>3, <1>4

(* What a handler works on is the first message of the wire.               *)
LEMMA HandledIsFirst ==
  ASSUME FramingOK, NEW goOn, HandOver(goOn), msg' # Garbled
  PROVE  /\ wire # <<>> /\ msg' = Head(wire) /\ msg' \in Message
         /\ wire' = Tail(wire)
<1>1. wire # <<>> /\ off = 0 /\ msg' = Head(wire) /\ MoveTo(Frame)
  BY HandOverTakes
<1>2. wire \in Seq(Message)
  BY DEF FramingOK
<1>3. wire' = SubSeq(wire, 2, Len(wire))
  BY <1>1, FrameIsSix DEF MoveTo
<1>4. QED
  BY <1>1, <1>2, <1>3, HeadTailProperties, TailIsSubSeq

LEMMA HeaderStep ==
  ASSUME FramingOK, HeaderOK, [Next]_vars
  PROVE  HeaderOK'
<1> USE DEF HeaderOK
<1>1. CASE Connection
  <2>1. keepPlay' \in BOOLEAN /\ timer' \in BOOLEAN
    BY <1>1, Zenon DEF Connection, InitHeaderRobotConnection, ConnectEvent, CloseEvent
  <2>2. requests' \in Seq({"VERIFY", "INIT_GAME", "NEED_ROBOT"})
    <3>1. requests' = requests \/ requests' = <<>> \/ requests' = <<"VERIFY">>
      BY <1>1, Zenon DEF Connection, InitHeaderRobotConnection, ConnectEvent, CloseEvent
    <3>2. <<"VERIFY">> \in Seq({"VERIFY", "INIT_GAME", "NEED_ROBOT"})
      OBVIOUS
    <3>3. <<>> \in Seq({"VERIFY", "INIT_GAME", "NEED_ROBOT"})
      OBVIOUS
    <3>4. QED
      BY <3>1, <3>2, <3>3, Zenon
  <2>3. /\ minPlayerNum' = minPlayerNum
        /\ link' \in {"down", "connecting", "up"} /\ status' \in {status, "INIT"}
    BY <1>1 DEF Connection, InitHeaderRobotConnection, ConnectEvent, CloseEvent
  <2>4. QED
    BY <2>1, <2>2, <2>3
<1>2. CASE QueryRoomStatusTimer
  BY <1>2 DEF QueryRoomStatusTimer
<1>3. CASE Network \/ Reading \/ UNCHANGED vars
  BY <1>3 DEF Network, Reading, vars, header
<1>4. CASE RecvVerifyAck
  <2>1. msg' \in Message
    BY <1>4, HandledIsFirst DEF RecvVerifyAck
  <2>2. keepPlay' \in BOOLEAN
    BY <1>4, <2>1, AckFields, Zenon DEF RecvVerifyAck
  <2>3. requests' \in Seq({"VERIFY", "INIT_GAME", "NEED_ROBOT"})
    BY <1>4 DEF RecvVerifyAck
  <2>4. QED
    BY <1>4, <2>2, <2>3 DEF RecvVerifyAck
<1>5. CASE RecvInitGameAck
  BY <1>5 DEF RecvInitGameAck
<1>6. CASE RecvQueryRoomStatusAck \/ GarbledIsIgnored
  BY <1>6 DEF RecvQueryRoomStatusAck, GarbledIsIgnored, header
<1>7. CASE HandlerFails
  BY <1>7 DEF HandlerFails
<1>8. CASE Others
  <2>1. ASSUME NEW ack, Answer(ack)
        PROVE  HeaderOK'
    BY <2>1 DEF Answer
  <2>2. QED
    BY <1>8, <2>1 DEF Others, Grants, Denies, RobotSignsUp, RobotTurnsBack,
      RobotReturns, RoomChanges, header
<1>9. QED
  BY <1>1, <1>2, <1>3, <1>4, <1>5, <1>6, <1>7, <1>8 DEF Next, HandleMessage

(* What AddRobot takes from the list it puts on the way.                   *)
LEMMA AddRobotMoves ==
  ASSUME CrewOK, NEW need \in Int, AddRobot(need)
  PROVE  /\ CrewOK' /\ asked' = asked
         /\ need >= 0 => coming' <= coming + need
<1>1. PICK n \in 0..(IF need < 0 THEN idle ELSE SmallerOf(need, idle)) :
        idle' = idle - n /\ coming' = coming + n /\ UNCHANGED <<lacks, asked>>
  BY DEF AddRobot
<1>2. n \in Nat /\ n <= idle /\ (need >= 0 => n <= need)
  BY <1>1 DEF CrewOK, SmallerOf
<1>3. QED
  BY <1>1, <1>2, HeaderAssumption DEF CrewOK, Busy

LEMMA NeedIsNumber ==
  ASSUME NEW a \in Message
  PROVE  NeedRobotNum(a) \in Int
BY AckFields, HeaderAssumption DEF NeedRobotNum

LEMMA CrewStep ==
  ASSUME FramingOK, CrewOK, [Next]_vars
  PROVE  CrewOK'
<1>1. CASE Connection \/ QueryRoomStatusTimer \/ Network \/ Reading \/ UNCHANGED vars
  BY <1>1 DEF CrewOK, Busy, Connection, InitHeaderRobotConnection, ConnectEvent, CloseEvent,
    QueryRoomStatusTimer, Network, Reading, vars, crew
<1>2. CASE RecvVerifyAck \/ RecvInitGameAck \/ HandlerFails \/ GarbledIsIgnored
  BY <1>2 DEF CrewOK, Busy, RecvVerifyAck, RecvInitGameAck, HandlerFails, GarbledIsIgnored, crew
<1>3. CASE RecvQueryRoomStatusAck
  <2>1. msg' \in Message
    BY <1>3, HandledIsFirst DEF RecvQueryRoomStatusAck
  <2>2. QED
    BY <1>3, <2>1, NeedIsNumber, AddRobotMoves DEF RecvQueryRoomStatusAck
<1>4. CASE Grants \/ Denies
  <2>1. idle' = idle /\ coming' = coming /\ lacks' = lacks /\ asked' \in {asked, lacks}
    BY <1>4 DEF Grants, Denies, Answer
  <2>2. QED
    BY <2>1 DEF CrewOK, Busy
<1>5. CASE RobotSignsUp \/ RobotTurnsBack \/ RobotReturns \/ RoomChanges
  BY <1>5, HeaderAssumption DEF CrewOK, Busy, RobotSignsUp, RobotTurnsBack, RobotReturns, RoomChanges
<1>6. QED
  BY <1>1, <1>2, <1>3, <1>4, <1>5 DEF Next, HandleMessage, Others

-----------------------------------------------------------------------------
IInv == FramingOK /\ WholeFrames /\ HeaderOK /\ CrewOK

LEMMA IInvInit == Init => IInv
<1> SUFFICES ASSUME Init
             PROVE  IInv
  OBVIOUS
<1>1. wire = <<>> /\ got = 0 /\ off = 0 /\ reading = FALSE /\ msg = NoMessage /\ delivery \in Deliveries
  BY DEF Init, InitFraming
<1>2. reading \in BOOLEAN
  BY <1>1, Zenon
<1>3. FramingOK
  <2>1. wire \in Seq(Message) /\ Len(wire) = 0
    BY <1>1
  <2>2. QED
    BY <1>1, <1>2, <2>1, FrameIsSix, FramingAssumption DEF FramingOK, Sent
<1>4. WholeFrames
  BY <1>1, FrameIsSix DEF WholeFrames
<1>5. keepPlay \in BOOLEAN /\ timer \in BOOLEAN
  BY Zenon DEF Init
<1>6. HeaderOK
  BY <1>5 DEF Init, HeaderOK
<1>7. CrewOK
  BY HeaderAssumption DEF Init, CrewOK, Busy
<1>8. QED
  BY <1>3, <1>4, <1>6, <1>7 DEF IInv

LEMMA IInvStep == IInv /\ [Next]_vars => IInv'
<1> SUFFICES ASSUME IInv, [Next]_vars
             PROVE  IInv'
  OBVIOUS
<1>1. FramingNext
  BY StepFrames DEF IInv, CrewOK
<1>2. QED
  BY <1>1, FramingStep, WholeStep, HeaderStep, CrewStep DEF IInv

(* Every variable of the robot and of its connection keeps its type.       *)
THEOREM TypeCorrect == Spec => []TypeOK
<1>1. IInv => TypeOK
  BY DEF IInv, FramingOK, HeaderOK, CrewOK, TypeOK
<1>2. QED
  BY <1>1, IInvInit, IInvStep, PTL DEF Spec

(* As long as the network cuts no frame, OnReadEvent's loop is the channel *)
(* the other modules take it for: what a robot is handed is what was sent, *)
(* whole, in order and once.                                               *)
THEOREM ReadingIsAChannel == Spec => ImplementsChannel
<1>1. Init => Channel!Init
  BY DEF Init, InitFraming, Channel!Init
<1>2. IInv /\ [Next]_vars => [delivery = "whole" => Channel!Next]_<<wire, msg>>
  BY StepFrames, WholeStep DEF IInv, CrewOK
<1>3. QED
  BY <1>1, <1>2, IInvInit, IInvStep, PTL DEF Spec, ImplementsChannel

-----------------------------------------------------------------------------
(* A polling request and its answer are one token: while one is under way  *)
(* there is no other, no robot is on its way, and what it will have sent   *)
(* for is no more than what the lobby said last.                           *)
NeedsAsked    == {i \in 1..Len(requests) : requests[i] = "NEED_ROBOT"}
NeedsAnswered == {i \in 1..Len(wire) : wire[i].id = "NEED_ROBOT"}

OneNeed ==
  /\ \A i, j \in NeedsAsked : i = j
  /\ \A i, j \in NeedsAnswered : i = j
  /\ NeedsAsked = {} \/ NeedsAnswered = {}
  /\ NeedsAsked # {} \/ NeedsAnswered # {} => coming = 0
  /\ \A i \in NeedsAnswered : wire[i].robots <= asked

(* A step that only drops what is ahead of the token keeps the token.      *)
LEMMA FewerNeeds ==
  ASSUME OneNeed, NEW h \in Nat, NEW k \in Nat,
         \A i \in NeedsAsked' : i + h \in NeedsAsked,
         \A i \in NeedsAnswered' : i + k \in NeedsAnswered /\ wire'[i] = wire[i + k],
         coming \in Nat, coming' \in Nat, coming' <= coming, asked' = asked
  PROVE  OneNeed'
<1>1. NeedsAsked' \subseteq Nat /\ NeedsAnswered' \subseteq Nat
  BY DEF NeedsAsked, NeedsAnswered
<1>2. \A i, j \in NeedsAsked' : i = j
  BY <1>1 DEF OneNeed
<1>3. \A i, j \in NeedsAnswered' : i = j
  BY <1>1 DEF OneNeed
<1>4. NeedsAsked' = {} \/ NeedsAnswered' = {}
  BY DEF OneNeed
<1>5. NeedsAsked' # {} \/ NeedsAnswered' # {} => coming' = 0
  BY DEF OneNeed
<1>6. \A i \in NeedsAnswered' : wire'[i].robots <= asked'
  BY DEF OneNeed
<1>7. QED
  BY <1>2, <1>3, <1>4, <1>5, <1>6 DEF OneNeed

(* The reading loop drops frames from the front of the wire.               *)
LEMMA WireShrinks ==
  ASSUME FramingOK, SendsNothing
  PROVE  \E k \in Nat : \A i \in NeedsAnswered' :
           i + k \in NeedsAnswered /\ wire'[i] = wire[i + k]
<1>1. wire \in Seq(Message) /\ Len(wire) \in Nat /\ off \in Nat /\ got \in Nat /\ off <= got
  BY FrameIsSix DEF FramingOK, Sent
<1>2. CASE wire' = wire
  <2>1. \A i \in NeedsAnswered' : i + 0 \in NeedsAnswered /\ wire'[i] = wire[i + 0]
    BY <1>2 DEF NeedsAnswered
  <2>2. QED
    BY <2>1
<1>3. CASE wire' = <<>>
  BY <1>3 DEF NeedsAnswered
<1>4. ASSUME NEW n \in off..got, MoveTo(n)
      PROVE  \E k \in Nat : \A i \in NeedsAnswered' :
               i + k \in NeedsAnswered /\ wire'[i] = wire[i + k]
  <2> DEFINE k == n \div 6
  <2>1. /\ k \in Nat /\ Len(wire') \in Nat /\ Len(wire') = Len(wire) - k
        /\ \A i \in 1..Len(wire') : wire'[i] = wire[i + k]
    BY <1>4, MoveToKeeps
  <2> HIDE DEF k
  <2>2. \A i \in NeedsAnswered' : i + k \in NeedsAnswered /\ wire'[i] = wire[i + k]
    BY <1>1, <2>1 DEF NeedsAnswered
  <2>3. QED
    BY <2>1, <2>2
<1>5. \/ wire' = wire \/ wire' = <<>>
      \/ \E n \in off..got : MoveTo(n)
  <2>1. CASE ReadingEnds
    BY <1>1, <2>1, FrameIsSix DEF ReadingEnds, BufferEmpty, FieldCut, LengthZero
  <2>2. CASE \E goOn \in BOOLEAN : HandOver(goOn)
    BY <2>2, HandOverTakes
  <2>3. QED
    BY <2>1, <2>2 DEF SendsNothing, framing, LoseFrames, Arrive
<1>6. QED
  BY <1>2, <1>3, <1>4, <1>5

(* Requests are answered in their order, and the answer to a polling       *)
(* request is the token from then on.                                      *)
LEMMA AnswerKeepsToken ==
  ASSUME IInv, OneNeed, NEW ack \in Message, Answer(ack),
         IF ack.id = "NEED_ROBOT" THEN asked' \in Nat /\ ack.robots <= asked' ELSE asked' = asked
  PROVE  OneNeed' /\ coming' = coming /\ (ack.id = "NEED_ROBOT" => coming' = 0)
<1>1. /\ wire \in Seq(Message) /\ Len(wire) \in Nat /\ coming \in Nat
      /\ requests \in Seq({"VERIFY", "INIT_GAME", "NEED_ROBOT"}) /\ Len(requests) \in Nat
  BY DEF IInv, FramingOK, HeaderOK, CrewOK
<1>2. /\ requests # <<>> /\ requests[1] = ack.id
      /\ Len(requests') \in Nat /\ Len(requests') = Len(requests) - 1
      /\ \A i \in 1..Len(requests') : requests'[i] = requests[i + 1]
  BY <1>1, HeadTailProperties DEF Answer
<1>3. /\ Len(wire') = Len(wire) + 1 /\ wire'[Len(wire) + 1] = ack
      /\ \A i \in 1..Len(wire) : wire'[i] = wire[i]
  BY <1>1, AppendProperties DEF Answer, SendFrame
<1>4. coming' = coming
  BY DEF Answer
<1>5. \A i \in NeedsAsked' : i + 1 \in NeedsAsked
  BY <1>1, <1>2 DEF NeedsAsked
<1>6. CASE ack.id = "NEED_ROBOT"
  <2>1. 1 \in NeedsAsked
    BY <1>1, <1>2, <1>6 DEF NeedsAsked
  <2>2. NeedsAnswered = {} /\ coming = 0
    BY <2>1 DEF OneNeed
  <2>3. NeedsAsked' = {}
    <3>1. NeedsAsked' \subseteq Nat \ {0}
      BY DEF NeedsAsked
    <3>2. QED
      BY <1>5, <2>1, <3>1 DEF OneNeed
  <2>4. NeedsAnswered' \subseteq {Len(wire) + 1}
    BY <1>1, <1>3, <2>2 DEF NeedsAnswered
  <2>5. \A i \in NeedsAnswered' : wire'[i].robots <= asked'
    BY <1>3, <1>6, <2>4
  <2>6. QED
    BY <1>4, <2>2, <2>3, <2>4, <2>5 DEF OneNeed
<1>7. CASE ack.id # "NEED_ROBOT"
  <2>1. \A i \in NeedsAnswered' : i + 0 \in NeedsAnswered /\ wire'[i] = wire[i + 0]
    BY <1>1, <1>3, <1>7 DEF NeedsAnswered
  <2>2. OneNeed'
    BY <1>1, <1>4, <1>5, <1>7, <2>1, FewerNeeds
  <2>3. QED
    BY <1>4, <1>7, <2>2
<1>8. QED
  BY <1>6, <1>7

(* The handler of a polling answer takes the token, and sends for no more  *)
(* robots than it says.                                                    *)
LEMMA NeedIsServedOnce ==
  ASSUME MaxPlayerNum >= 0, IInv, OneNeed, RecvQueryRoomStatusAck
  PROVE  OneNeed' /\ NeverTooMany'
<1>1. /\ wire # <<>> /\ msg' = Head(wire) /\ msg' \in Message
      /\ wire' = Tail(wire) /\ wire \in Seq(Message) /\ msg'.id = "NEED_ROBOT"
  BY HandledIsFirst DEF RecvQueryRoomStatusAck, IInv, FramingOK
<1>2. /\ Len(wire') \in Nat /\ Len(wire') = Len(wire) - 1 /\ Len(wire) \in Nat
      /\ \A i \in 1..Len(wire') : wire'[i] = wire[i + 1]
  BY <1>1, HeadTailProperties
<1>3. 1 \in NeedsAnswered /\ msg' = wire[1]
  BY <1>1, <1>2 DEF NeedsAnswered
<1>4. NeedsAsked = {} /\ coming = 0 /\ msg'.robots <= asked
  BY <1>3 DEF OneNeed
<1>5. requests' = requests /\ minPlayerNum' = minPlayerNum
  BY DEF RecvQueryRoomStatusAck, header
<1>6. NeedsAsked' = {}
  BY <1>4, <1>5 DEF NeedsAsked
<1>7. NeedsAnswered' = {}
  <2>1. \A i \in NeedsAnswered' : i \in Nat \ {0} /\ i + 1 \in NeedsAnswered
    BY <1>2 DEF NeedsAnswered
  <2>2. QED
    BY <1>3, <2>1 DEF OneNeed
<1>8. asked \in Nat /\ NeedRobotNum(msg') \in Int /\ msg'.robots \in Int
  BY <1>1, AckFields, NeedIsNumber, HeaderAssumption DEF IInv, CrewOK
<1>9. NeedRobotNum(msg') >= 0
  BY <1>8 DEF NeedRobotNum
<1>10. asked' = asked /\ coming' <= NeedRobotNum(msg')
  BY <1>4, <1>8, <1>9, AddRobotMoves DEF RecvQueryRoomStatusAck, IInv
<1>11. CrewOK'
  BY <1>8, AddRobotMoves DEF RecvQueryRoomStatusAck, IInv
<1>12. NeverTooMany'
  BY <1>4, <1>5, <1>8, <1>10, <1>11, HeaderAssumption DEF NeverTooMany, NeedRobotNum, CrewOK
<1>13. QED
  BY <1>6, <1>7, <1>12 DEF OneNeed

(* A step that adds no robot to those on their way, and no polling request.*)
LEMMA OtherStepsKeepNeeds ==
  ASSUME IInv, OneNeed, NeverTooMany, SendsNothing, NEW h \in Nat,
         \A i \in NeedsAsked' : i + h \in NeedsAsked,
         coming' \in Nat, coming' <= coming, asked' = asked, minPlayerNum' = minPlayerNum
  PROVE  OneNeed' /\ NeverTooMany'
<1>1. coming \in Nat /\ asked \in Nat /\ minPlayerNum \in Nat
  BY HeaderAssumption DEF IInv, CrewOK, HeaderOK
<1>2. OneNeed'
  BY <1>1, WireShrinks, FewerNeeds DEF IInv
<1>3. NeverTooMany'
  BY <1>1, HeaderAssumption DEF NeverTooMany
<1>4. QED
  BY <1>2, <1>3

LEMMA NeedsStep ==
  ASSUME Prompt, MaxPlayerNum >= 0, IInv, OneNeed, NeverTooMany, [Next]_vars
  PROVE  OneNeed' /\ NeverTooMany'
<1>1. /\ coming \in Nat /\ asked \in Nat /\ minPlayerNum \in Nat
      /\ requests \in Seq({"VERIFY", "INIT_GAME", "NEED_ROBOT"}) /\ Len(requests) \in Nat
  BY HeaderAssumption DEF IInv, CrewOK, HeaderOK
<1>2. requests' = requests => \A i \in NeedsAsked' : i + 0 \in NeedsAsked
  BY DEF NeedsAsked
<1>3. CASE Connection
  <2>1. requests' = requests \/ requests' = <<>> \/ requests' = <<"VERIFY">>
    BY <1>3, Zenon DEF Connection, InitHeaderRobotConnection, ConnectEvent, CloseEvent
  <2>2. \A i \in NeedsAsked' : i + 0 \in NeedsAsked
    BY <1>2, <2>1 DEF NeedsAsked
  <2>3. SendsNothing
    BY <1>3 DEF Connection, InitHeaderRobotConnection, ConnectEvent, CloseEvent, SendsNothing
  <2>4. coming' = coming /\ asked' = asked /\ minPlayerNum' = minPlayerNum
    BY <1>3 DEF Connection, InitHeaderRobotConnection, ConnectEvent, CloseEvent, crew
  <2>5. QED
    BY <1>1, <2>2, <2>3, <2>4, OtherStepsKeepNeeds
<1>4. CASE QueryRoomStatusTimer
  <2>1. /\ coming = 0 /\ wire = <<>> /\ requests = <<>> /\ requests' = Append(requests, "NEED_ROBOT")
        /\ coming' = coming /\ asked' = asked /\ minPlayerNum' = minPlayerNum /\ wire' = wire
    BY <1>4 DEF QueryRoomStatusTimer, framing, crew
  <2>2. NeedsAnswered' = {}
    BY <2>1 DEF NeedsAnswered
  <2>3. NeedsAsked' \subseteq {1}
    BY <2>1 DEF NeedsAsked
  <2>4. OneNeed'
    BY <2>1, <2>2, <2>3 DEF OneNeed
  <2>5. QED
    BY <1>1, <2>1, <2>4 DEF NeverTooMany
<1>5. CASE Network \/ Reading \/ RecvInitGameAck \/ HandlerFails \/ GarbledIsIgnored
  <2>1. SendsNothing
    BY <1>5 DEF Network, Reading, RecvInitGameAck, HandlerFails, GarbledIsIgnored, SendsNothing
  <2>2. coming' = coming /\ asked' = asked /\ minPlayerNum' = minPlayerNum /\ requests' = requests
    BY <1>5 DEF Network, Reading, RecvInitGameAck, HandlerFails, GarbledIsIgnored, header, crew
  <2>3. QED
    BY <1>1, <1>2, <2>1, <2>2, OtherStepsKeepNeeds
<1>6. CASE RecvVerifyAck
  <2>1. SendsNothing
    BY <1>6 DEF RecvVerifyAck, SendsNothing
  <2>2. /\ coming' = coming /\ asked' = asked /\ minPlayerNum' = minPlayerNum
        /\ requests' = Append(requests, "INIT_GAME")
    BY <1>6 DEF RecvVerifyAck, crew
  <2>3. \A i \in NeedsAsked' : i + 0 \in NeedsAsked
    BY <1>1, <2>2, AppendProperties DEF NeedsAsked
  <2>4. QED
    BY <1>1, <2>1, <2>2, <2>3, OtherStepsKeepNeeds
<1>7. CASE RecvQueryRoomStatusAck
  BY <1>7, NeedIsServedOnce
<1>8. CASE Grants \/ Denies
  <2>1. minPlayerNum' = minPlayerNum
    BY <1>8 DEF Grants, Denies, Answer
  <2>2. lacks \in Nat /\ lacks \in 0..Seats
    BY HeaderAssumption DEF IInv, CrewOK
  <2>3. PICK ack \in Message :
          /\ Answer(ack)
          /\ IF ack.id = "NEED_ROBOT" THEN asked' \in Nat /\ ack.robots <= asked' ELSE asked' = asked
          /\ asked' = asked \/ ack.id = "NEED_ROBOT"
    <3>1. CASE \E g \in BOOLEAN : Answer(AckOf("VERIFY", TRUE, NoField, g)) /\ UNCHANGED asked
      BY <3>1, MessageAssumption DEF Acks, AckOf
    <3>2. CASE Answer(AckOf("INIT_GAME", TRUE, NoField, FALSE)) /\ UNCHANGED asked
      BY <3>2, MessageAssumption DEF Acks, AckOf
    <3>3. CASE Answer(AckOf("NEED_ROBOT", TRUE, lacks, FALSE)) /\ asked' = lacks
      BY <2>2, <3>3, MessageAssumption DEF Acks, AckOf
    <3>4. CASE Denies
      <4>1. asked' = asked
        BY <3>4 DEF Denies
      <4>2. ASSUME NEW id \in Refusable, Answer(AckOf(id, FALSE, NoField, FALSE))
            PROVE  \E ack \in Message : Answer(ack) /\ ack.robots = NoField
        BY <4>2, MessageAssumption DEF Acks, AckOf
      <4>3. ASSUME NEW n \in {NoField, -1}, Answer(AckOf("NEED_ROBOT", TRUE, n, FALSE))
            PROVE  \E ack \in Message : Answer(ack) /\ ack.robots \in {NoField, -1}
        BY <4>3, MessageAssumption DEF Acks, AckOf
      <4>4. PICK ack \in Message : Answer(ack) /\ ack.robots \in {NoField, -1}
        BY <3>4, <4>2, <4>3 DEF Denies
      <4>5. ack.robots <= asked
        BY <1>1, <4>4 DEF NoField
      <4>6. QED
        BY <1>1, <4>1, <4>4, <4>5
    <3>5. QED
      BY <1>8, <3>1, <3>2, <3>3, <3>4 DEF Grants
  <2>4. OneNeed' /\ coming' = coming /\ (ack.id = "NEED_ROBOT" => coming' = 0)
    BY <2>3, AnswerKeepsToken
  <2>5. NeverTooMany'
    BY <1>1, <2>1, <2>3, <2>4 DEF NeverTooMany
  <2>6. QED
    BY <2>4, <2>5
<1>9. CASE RobotSignsUp \/ RobotTurnsBack \/ RobotReturns \/ RoomChanges \/ UNCHANGED vars
  <2>1. SendsNothing
    BY <1>9 DEF RobotSignsUp, RobotTurnsBack, RobotReturns, RoomChanges, vars, SendsNothing
  <2>2. /\ coming' \in Nat /\ coming' <= coming /\ asked' = asked
        /\ minPlayerNum' = minPlayerNum /\ requests' = requests
    BY <1>1, <1>9 DEF RobotSignsUp, RobotTurnsBack, RobotReturns, RoomChanges, vars, header, crew
  <2>3. QED
    BY <1>1, <1>2, <2>1, <2>2, OtherStepsKeepNeeds
<1>10. QED
  BY <1>3, <1>4, <1>5, <1>6, <1>7, <1>8, <1>9 DEF Next, HandleMessage, Others

(* With a polling interval longer than a sign-up takes, and a              *)
(* configuration that is no negative number, the robots on their way to a  *)
(* room are never more than it lacked when the lobby was asked, or than    *)
(* are configured.                                                         *)
THEOREM RobotsAreNeverTooMany ==
  ASSUME Prompt, MaxPlayerNum >= 0
  PROVE  Spec => []NeverTooMany
<1>1. Init => OneNeed /\ NeverTooMany
  <2> SUFFICES ASSUME Init
               PROVE  OneNeed /\ NeverTooMany
    OBVIOUS
  <2>1. NeedsAsked = {} /\ NeedsAnswered = {}
    BY DEF Init, InitFraming, NeedsAsked, NeedsAnswered
  <2>2. QED
    BY <2>1 DEF Init, OneNeed, NeverTooMany
<1>2. IInv /\ OneNeed /\ NeverTooMany /\ [Next]_vars => (OneNeed /\ NeverTooMany)'
  BY NeedsStep
<1>3. QED
  BY <1>1, <1>2, IInvInit, IInvStep, PTL DEF Spec
=============================================================================
