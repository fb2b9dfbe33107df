---------------------------- MODULE RobotSession ----------------------------
(***************************************************************************)
(* The protocol of one task robot of new_robot_client (RobotBase and       *)
(* RobotTask): from its connection over VERIFY, INIT_GAME and the way into *)
(* a game (quick start in a room, sign-up in a match, keep-play after a    *)
(* lost connection) to calling, taking out and the end of the game.        *)
(*                                                                         *)
(* Every Recv... action is one RobotProcess: the handler of the message at *)
(* the head of the connection, with the NextActionProcess and the          *)
(* AnalysisAndDecision it ends in. The lobby and the table server are not  *)
(* in the repository; their actions are what the handlers expect of them.  *)
(* Cards are in CardTable: here a robot's decision is a free choice.       *)
(***************************************************************************)
EXTENDS Integers, Sequences

CONSTANTS
  MaxGames,    \* games the table server plays with the robot
  MaxTurns,    \* turns the table server gives the robot, over all games
  LobbyFirst,  \* in a match the lobby answers before any notice of the game
  Settled,     \* no game begins or ends while the robot rejoins one
  Patient      \* the turn clock is longer than the delays of the robot

ASSUME SessionAssumption ==
  /\ MaxGames \in Nat
  /\ MaxTurns \in Nat
  /\ {LobbyFirst, Settled, Patient} \subseteq BOOLEAN

Seats  == 0..2
NoSeat == -1
NoTurn == 0

VARIABLES
  isMatch,       \* the configuration: a match or a room
  up,            \* the robot has a connection
  status,        \* status_
  needKeepPlay,  \* needKeepPlay_
  testing,       \* isTestNeedKeepPlay_
  aiSeat,        \* aiSeat of the OGLordRobotAI
  lordSeat,      \* lordSeat of the OGLordRobotAI
  callHistory,   \* callHistory of the OGLordRobotAI, scores only
  retired,       \* DelRobotAndCloseConnection was called for the robot
  delayed,       \* requests waiting in DelaySendMsgTimer events
  failed,        \* history: the last handler that refused a good message
  toRobot,       \* messages on their way to the robot
  toServer,      \* messages on their way to the server
  session,       \* what the server knows of the connection
  owed,          \* a lobby answer not yet sent
  place,         \* where the player is: nowhere, queued or at a table
  step,          \* of the game at the table
  mySeat,        \* the seat of the robot at the table
  calls,         \* the scores called so far, from seat 0 on
  lord,          \* the seat of the lord
  turn,          \* the seat whose turn it is
  turnNo,        \* turns given to the robot so far
  excused,       \* the robot cannot be expected to answer this turn
  blind,         \* the robot rejoined this game while calling went on
  trusted,       \* the system plays for the robot
  games          \* games begun so far

robotVars  == <<status, needKeepPlay, testing, aiSeat, lordSeat, callHistory>>
fateVars   == <<isMatch, retired>>
linkVars   == <<up, toRobot, toServer, delayed, failed>>
lobbyVars  == <<session, owed, place>>
tableVars  == <<step, mySeat, calls, lord, turn, turnNo, excused, blind, trusted, games>>
vars       == <<isMatch, up, status, needKeepPlay, testing, aiSeat, lordSeat,
                callHistory, retired, delayed, failed, toRobot, toServer,
                session, owed, place, step, mySeat, calls, lord, turn, turnNo,
                excused, blind, trusted, games>>

Statuses == {"INIT", "VERIFIED", "INITGAME", "CANSINGUP", "SIGNUPED",
             "QUICKGAME", "GAMMING", "KEEPPLAY"}
Sessions == {"none", "open", "verified", "returning", "inited", "rejoining"}
Places   == {"none", "queued", "table"}
Steps    == {"none", "scene", "call", "lord", "play", "between"}
NoMsg    == [type |-> "none"]
NoFail   == <<"none", "none">>

Max2(a, b) == IF a > b THEN a ELSE b


-----------------------------------------------------------------------------
(* The connection. Everything in flight is lost when the robot closes it;  *)
(* a delayed message finds that bev_ is null and is dropped.               *)
Msg == Head(toRobot)
Receives(type) == up /\ toRobot # <<>> /\ Msg.type = type

Request(type, score, no) == [type |-> type, score |-> score, turn |-> no]

(* AnalysisAndDecision: SendMsg writes at once, a delay waits in a timer.  *)
Accept ==
  /\ toRobot' = Tail(toRobot)
  /\ UNCHANGED <<up, toServer, delayed, failed>>
Reply(type) ==
  /\ toRobot' = Tail(toRobot)
  /\ toServer' = IF session = "none" THEN toServer
                 ELSE Append(toServer, Request(type, 0, NoTurn))
  /\ UNCHANGED <<up, delayed, failed>>
ReplyLater(type, score, no) ==
  /\ toRobot' = Tail(toRobot)
  /\ delayed' = delayed \cup {Request(type, score, no)}
  /\ UNCHANGED <<up, toServer, failed>>

Disconnect ==
  /\ up' = FALSE
  /\ toRobot' = <<>>
  /\ delayed' = {}
  /\ UNCHANGED toServer

(* RobotProcess after a handler returned false.                            *)
Refuse ==
  /\ Disconnect
  /\ status' = "INIT"
  /\ UNCHANGED <<needKeepPlay, testing, aiSeat, lordSeat, callHistory>>
RefuseMessage == Refuse /\ UNCHANGED failed /\ UNCHANGED fateVars
RefuseOrder   ==
  /\ Refuse
  /\ failed' = IF "ok" \in DOMAIN Msg /\ ~Msg.ok THEN failed ELSE <<status, Msg.type>>
  /\ UNCHANGED fateVars

(* RbtResetData, as far as this module goes.                               *)
RbtResetData == aiSeat' = NoSeat /\ lordSeat' = NoSeat /\ callHistory' = <<>>

-----------------------------------------------------------------------------
(* The way into a game.                                                    *)

(* AddRobot and ConnectEvent: RobotInit, SetNeedTestKeepPlay, VERIFY_REQ.  *)
Connect(test) ==
  /\ ~up /\ ~retired /\ session = "none"
  /\ up' = TRUE
  /\ status' = "INIT"
  /\ needKeepPlay' = FALSE
  /\ testing' = test
  /\ RbtResetData
  /\ session' = "open"
  /\ toServer' = <<Request("verify", 0, NoTurn)>>
  /\ UNCHANGED <<fateVars, toRobot, delayed, failed, owed, place, tableVars>>

RecvVerifyAck ==
  /\ Receives("verify_ack")
  /\ \/ /\ status # "INIT"
        /\ RefuseOrder
     \/ /\ status = "INIT" /\ ~Msg.ok
        /\ RefuseMessage
     \/ /\ status = "INIT" /\ Msg.ok /\ (Msg.game \/ ~testing)
        /\ needKeepPlay' = (Msg.game \/ needKeepPlay)
        /\ status' = "VERIFIED"
        /\ Reply("init_game")
        /\ UNCHANGED <<fateVars, testing, aiSeat, lordSeat, callHistory>>
     \/ /\ status = "INIT" /\ Msg.ok /\ ~Msg.game /\ testing
        /\ Disconnect
        /\ UNCHANGED <<fateVars, robotVars, failed>>
  /\ UNCHANGED <<lobbyVars, tableVars>>

RecvInitGameAck ==
  /\ Receives("init_ack")
  /\ \/ /\ status # "VERIFIED"
        /\ RefuseOrder
     \/ /\ status = "VERIFIED" /\ ~Msg.ok
        /\ RefuseMessage
     \/ /\ status = "VERIFIED" /\ Msg.ok
        /\ status' = IF needKeepPlay THEN "KEEPPLAY" ELSE "INITGAME"
        /\ needKeepPlay' = FALSE
        /\ Reply(IF needKeepPlay THEN "keep" ELSE IF isMatch THEN "cond" ELSE "quick")
        /\ UNCHANGED <<fateVars, testing, aiSeat, lordSeat, callHistory>>
  /\ UNCHANGED <<lobbyVars, tableVars>>

RecvQuickBeginGameAck ==
  /\ Receives("quick_ack")
  /\ \/ /\ status \notin {"INITGAME", "GAMMING"}
        /\ RefuseOrder
     \/ /\ status = "GAMMING"
        /\ Accept
        /\ UNCHANGED <<fateVars, robotVars>>
     \/ /\ status = "INITGAME" /\ Msg.result = "error"
        /\ RefuseMessage
     \/ /\ status = "INITGAME" /\ Msg.result = "broke"   \* 506
        /\ Disconnect
        /\ retired' = TRUE
        /\ UNCHANGED <<isMatch, robotVars, failed>>
     \/ /\ status = "INITGAME" /\ Msg.result = "ok"
        /\ status' = "QUICKGAME"
        /\ Accept
        /\ UNCHANGED <<fateVars, needKeepPlay, testing, aiSeat, lordSeat, callHistory>>
  /\ UNCHANGED <<lobbyVars, tableVars>>

RecvQuerySignUpCondAck ==
  /\ Receives("cond_ack")
  /\ \/ /\ status # "INITGAME"
        /\ RefuseOrder
     \/ /\ status = "INITGAME" /\ Msg.result = "refused"
        /\ RefuseMessage
     \/ /\ status = "INITGAME" /\ Msg.result = "signed"
        /\ status' = "SIGNUPED"
        /\ Accept
        /\ UNCHANGED <<fateVars, needKeepPlay, testing, aiSeat, lordSeat, callHistory>>
     \/ /\ status = "INITGAME" /\ Msg.result = "allowed"
        /\ status' = "CANSINGUP"
        /\ Reply("sign_up")
        /\ UNCHANGED <<fateVars, needKeepPlay, testing, aiSeat, lordSeat, callHistory>>
  /\ UNCHANGED <<lobbyVars, tableVars>>

(* Mutant: any answer to the sign-up counts as done.                       *)
RecvSignUpAckAnyResult ==
  /\ Receives("sign_ack")
  /\ \/ /\ status \notin {"CANSINGUP", "GAMMING"}
        /\ RefuseOrder
     \/ /\ status = "GAMMING"
        /\ Accept
        /\ UNCHANGED <<fateVars, robotVars>>
     \/ /\ status = "CANSINGUP"
        /\ status' = "SIGNUPED"
        /\ Accept
        /\ UNCHANGED <<fateVars, needKeepPlay, testing, aiSeat, lordSeat, callHistory>>
  /\ UNCHANGED <<lobbyVars, tableVars>>

RecvSignUpAck ==
  /\ Receives("sign_ack")
  /\ \/ /\ status \notin {"CANSINGUP", "GAMMING"}
        /\ RefuseOrder
     \/ /\ status = "GAMMING"
        /\ Accept
        /\ UNCHANGED <<fateVars, robotVars>>
     \/ /\ status = "CANSINGUP" /\ Msg.result = "error"
        /\ RefuseMessage
     \/ /\ status = "CANSINGUP" /\ Msg.result \in {"ok", "already"}   \* 0, 508
        /\ status' = "SIGNUPED"
        /\ Accept
        /\ UNCHANGED <<fateVars, needKeepPlay, testing, aiSeat, lordSeat, callHistory>>
  /\ UNCHANGED <<lobbyVars, tableVars>>

(* Mutant: RbtResetData after RbtInSetSeat.                                *)
RecvKeepPlayAckResetLast ==
  /\ Receives("keep_ack")
  /\ \/ status # "KEEPPLAY" /\ RefuseOrder
     \/ status = "KEEPPLAY" /\ ~Msg.ok /\ RefuseMessage
     \/ /\ status = "KEEPPLAY" /\ Msg.ok
        /\ status' = "GAMMING"
        /\ RbtResetData
        /\ Reply("trust_cancel")
        /\ UNCHANGED <<fateVars, needKeepPlay, testing>>
  /\ UNCHANGED <<lobbyVars, tableVars>>

RecvKeepPlayAck ==
  /\ Receives("keep_ack")
  /\ \/ /\ status # "KEEPPLAY"
        /\ RefuseOrder
     \/ /\ status = "KEEPPLAY" /\ ~Msg.ok
        /\ RefuseMessage
     \/ /\ status = "KEEPPLAY" /\ Msg.ok
        /\ status' = "GAMMING"
        /\ aiSeat' = Msg.seat
        /\ lordSeat' = Msg.lord
        /\ callHistory' = <<>>
        /\ Reply("trust_cancel")
        /\ UNCHANGED <<fateVars, needKeepPlay, testing>>
  /\ UNCHANGED <<lobbyVars, tableVars>>


-----------------------------------------------------------------------------
(* The game.                                                               *)
RecvEnterGameSceneNotify ==
  /\ Receives("scene")
  /\ \/ /\ status \notin {"SIGNUPED", "QUICKGAME", "GAMMING", "KEEPPLAY", "INITGAME"}
        /\ RefuseOrder
     \/ /\ status \in {"SIGNUPED", "QUICKGAME", "GAMMING", "KEEPPLAY", "INITGAME"}
        /\ status' = "GAMMING"
        /\ RbtResetData
        /\ Reply("ready")
        /\ UNCHANGED <<fateVars, needKeepPlay, testing>>
  /\ UNCHANGED <<lobbyVars, tableVars>>

RecvGameStartNotify ==
  /\ Receives("start")
  /\ \/ /\ status # "GAMMING"
        /\ RefuseOrder
     \/ /\ status = "GAMMING"
        /\ aiSeat' = Msg.seat
        /\ Accept
        /\ UNCHANGED <<fateVars, status, needKeepPlay, testing, lordSeat, callHistory>>
  /\ UNCHANGED <<lobbyVars, tableVars>>

(* A notice of the game is ignored out of it.                              *)
IgnoreNotice == status # "GAMMING" /\ Accept /\ UNCHANGED <<fateVars, robotVars>>

(* RbtOutGetCallScore gives 0 or 2. The first caller answers the deal.     *)
RecvInitHardCardNotify ==
  /\ Receives("deal")
  /\ \/ IgnoreNotice
     \/ /\ status = "GAMMING" /\ aiSeat = NoSeat
        /\ RefuseOrder
     \/ /\ status = "GAMMING" /\ aiSeat # NoSeat
        /\ lordSeat' = NoSeat
        /\ callHistory' = <<>>
        /\ \/ Msg.header # aiSeat /\ Accept
           \/ /\ Msg.header = aiSeat
              /\ \E score \in {0, 2} : ReplyLater("call", score, Msg.turn)
        /\ UNCHANGED <<fateVars, status, needKeepPlay, testing, aiSeat>>
  /\ UNCHANGED <<lobbyVars, tableVars>>

(* curScore: the last positive score of callHistory.                       *)
CurScore ==
  LET called == {i \in DOMAIN callHistory : callHistory[i] > 0}
  IN  IF called = {} THEN 0
      ELSE callHistory[CHOOSE i \in called : \A j \in called : j <= i]

(* Mutant: only the call just announced is compared with the own score.    *)
ChosenScoreOfLastCall(score, myScore) == IF score >= myScore THEN 0 ELSE myScore

(* What the robot calls after another player called score.                 *)
ChosenScore(score, myScore) ==
  IF score >= myScore \/ (score = 0 /\ CurScore >= myScore) THEN 0 ELSE myScore

RecvUserCallScoreNotify ==
  /\ Receives("call")
  /\ \/ IgnoreNotice
     \/ /\ status = "GAMMING"
        /\ \/ Msg.next = NoSeat /\ Accept /\ UNCHANGED callHistory
           \/ /\ Msg.next \notin {NoSeat, aiSeat}
              /\ Accept
              /\ callHistory' = Append(callHistory, Msg.score)
           \/ /\ Msg.next # NoSeat /\ Msg.next = aiSeat
              /\ \E myScore \in {0, 2} :
                   ReplyLater("call", ChosenScore(Msg.score, myScore), Msg.turn)
              /\ UNCHANGED callHistory
        /\ UNCHANGED <<fateVars, status, needKeepPlay, testing, aiSeat, lordSeat>>
  /\ UNCHANGED <<lobbyVars, tableVars>>

RecvGetLordNotify ==
  /\ Receives("lord")
  /\ \/ IgnoreNotice
     \/ /\ status = "GAMMING"
        /\ lordSeat' = Msg.seat
        /\ Accept
        /\ UNCHANGED <<fateVars, status, needKeepPlay, testing, aiSeat, callHistory>>
  /\ UNCHANGED <<lobbyVars, tableVars>>

RecvGetBaseCardNotify ==
  /\ Receives("base")
  /\ \/ IgnoreNotice
     \/ /\ status = "GAMMING"
        /\ \/ lordSeat # aiSeat /\ Accept
           \/ lordSeat = aiSeat /\ ReplyLater("takeout", 0, Msg.turn)
        /\ UNCHANGED <<fateVars, robotVars>>
  /\ UNCHANGED <<lobbyVars, tableVars>>

(* Mutant: the robot plays whoever is next.                                *)
RecvGetTakeOutCardNotifyAnyone ==
  /\ Receives("takeout")
  /\ \/ IgnoreNotice
     \/ /\ status = "GAMMING"
        /\ ReplyLater("takeout", 0, Msg.turn)
        /\ UNCHANGED <<fateVars, robotVars>>
  /\ UNCHANGED <<lobbyVars, tableVars>>

(* Mutant: the robot only plays after another player's cards.              *)
RecvGetTakeOutCardNotifyAfterPass ==
  /\ Receives("takeout")
  /\ Accept
  /\ UNCHANGED <<fateVars, robotVars, lobbyVars, tableVars>>

RecvGetTakeOutCardNotify ==
  /\ Receives("takeout")
  /\ \/ IgnoreNotice
     \/ /\ status = "GAMMING"
        /\ \/ Msg.next # aiSeat /\ Accept
           \/ Msg.next = aiSeat /\ ReplyLater("takeout", 0, Msg.turn)
        /\ UNCHANGED <<fateVars, robotVars>>
  /\ UNCHANGED <<lobbyVars, tableVars>>

RecvGetTrustNotify ==
  /\ Receives("trust")
  /\ \/ IgnoreNotice
     \/ /\ status = "GAMMING"
        /\ \/ Msg.seat # aiSeat /\ Accept
           \/ Msg.seat = aiSeat /\ Reply("trust_cancel")
        /\ UNCHANGED <<fateVars, robotVars>>
  /\ UNCHANGED <<lobbyVars, tableVars>>

(* An answer to a request of the game; the ready answer is never refused.  *)
RecvReadyForGameAck ==
  /\ Receives("ready_ack")
  /\ Accept
  /\ UNCHANGED <<fateVars, robotVars, lobbyVars, tableVars>>
RecvGameAck(type) ==
  /\ Receives(type)
  /\ \/ status # "GAMMING" /\ RefuseOrder
     \/ status = "GAMMING" /\ Accept /\ UNCHANGED <<fateVars, robotVars>>
  /\ UNCHANGED <<lobbyVars, tableVars>>
RecvCallScoreAck   == RecvGameAck("call_ack")
RecvTakeOutCardAck == RecvGameAck("takeout_ack")
RecvTrustCancelAck == RecvGameAck("cancel_ack")

LeaveGame ==
  /\ RbtResetData
  /\ status' = "INIT"
  /\ Disconnect
  /\ UNCHANGED failed

(* Mutants: a finished game of a match counts as the end of the match; of  *)
(* a room, as the end of one of its games.                                 *)
RecvGetGameResultNotifyLeavesMatch ==
  /\ Receives("result")
  /\ RbtResetData
  /\ status' = "INIT"
  /\ Accept
  /\ UNCHANGED <<fateVars, needKeepPlay, testing, lobbyVars, tableVars>>
RecvGetGameResultNotifyStays ==
  /\ Receives("result")
  /\ RbtResetData
  /\ status' = "GAMMING"
  /\ Accept
  /\ UNCHANGED <<fateVars, needKeepPlay, testing, lobbyVars, tableVars>>

RecvGetGameResultNotify ==
  /\ Receives("result")
  /\ \/ ~isMatch /\ LeaveGame
     \/ /\ isMatch
        /\ RbtResetData
        /\ status' = "GAMMING"
        /\ Accept
  /\ UNCHANGED <<fateVars, needKeepPlay, testing, lobbyVars, tableVars>>

RecvOverNotify(type) ==
  /\ Receives(type)
  /\ LeaveGame
  /\ UNCHANGED <<fateVars, needKeepPlay, testing, lobbyVars, tableVars>>
RecvGetGameOverNotify        == RecvOverNotify("game_over")
RecvGetCompetitionOverNotify == RecvOverNotify("match_over")

(* DelaySendMsgTimer.                                                      *)
DelaySendMsgTimer ==
  \E r \in delayed :
    /\ delayed' = delayed \ {r}
    /\ toServer' = IF session = "none" THEN toServer ELSE Append(toServer, r)
    /\ UNCHANGED <<isMatch, retired, robotVars, up, toRobot, failed, lobbyVars, tableVars>>

(* The pool closes the connection: the server closed it, or the timing     *)
(* wheel found it silent.                                                  *)
ConnectionLost ==
  /\ up
  /\ session = "none" \/ toRobot = <<>>
  /\ Disconnect
  /\ UNCHANGED <<fateVars, robotVars, failed, lobbyVars, tableVars>>

Recv ==
  \/ RecvVerifyAck \/ RecvInitGameAck
  \/ RecvQuickBeginGameAck \/ RecvQuerySignUpCondAck \/ RecvSignUpAck \/ RecvKeepPlayAck
  \/ RecvEnterGameSceneNotify \/ RecvGameStartNotify \/ RecvInitHardCardNotify
  \/ RecvUserCallScoreNotify \/ RecvGetLordNotify \/ RecvGetBaseCardNotify
  \/ RecvGetTakeOutCardNotify \/ RecvGetTrustNotify
  \/ RecvReadyForGameAck \/ RecvCallScoreAck \/ RecvTakeOutCardAck \/ RecvTrustCancelAck
  \/ RecvGetGameResultNotify \/ RecvGetGameOverNotify \/ RecvGetCompetitionOverNotify


-----------------------------------------------------------------------------
(* The lobby.                                                              *)
serverOnly == <<fateVars, robotVars, up, delayed, failed>>

Requested(type) == toServer # <<>> /\ Head(toServer).type = type
Push(msgs) ==
  toRobot' = IF up /\ session # "none" THEN toRobot \o msgs ELSE toRobot
InGame     == place = "table" /\ step # "between"
Listening  == session = "inited"
Rejoining  == session \in {"returning", "rejoining"}

ServeVerify ==
  /\ Requested("verify")
  /\ toServer' = Tail(toServer)
  /\ \/ /\ Push(<<[type |-> "verify_ack", ok |-> TRUE, game |-> InGame]>>)
        /\ session' = IF InGame THEN "returning" ELSE "verified"
     \/ /\ Push(<<[type |-> "verify_ack", ok |-> FALSE, game |-> FALSE]>>)
        /\ UNCHANGED session
  /\ UNCHANGED <<serverOnly, owed, place, tableVars>>

ServeInitGame ==
  /\ Requested("init_game")
  /\ toServer' = Tail(toServer)
  /\ \/ /\ Push(<<[type |-> "init_ack", ok |-> TRUE]>>)
        /\ session' = IF session = "returning" THEN "rejoining" ELSE "inited"
     \/ /\ Push(<<[type |-> "init_ack", ok |-> FALSE]>>)
        /\ UNCHANGED session
  /\ UNCHANGED <<serverOnly, owed, place, tableVars>>

(* The answer of the lobby is sent a moment after the request took effect. *)
Answer(type, result) ==
  /\ owed = NoMsg
  /\ owed' = [type |-> type, result |-> result]
  /\ toServer' = Tail(toServer)
  /\ UNCHANGED <<serverOnly, toRobot, session, tableVars>>

ServeQuick ==
  /\ Requested("quick")
  /\ \/ place = "none" /\ place' = "queued" /\ Answer("quick_ack", "ok")
     \/ /\ UNCHANGED place
        /\ \E r \in {"broke", "error"} : Answer("quick_ack", r)

ServeCond ==
  /\ Requested("cond")
  /\ UNCHANGED place
  /\ \/ place # "none" /\ Answer("cond_ack", "signed")
     \/ place = "none" /\ \E r \in {"allowed", "refused"} : Answer("cond_ack", r)

ServeSignUp ==
  /\ Requested("sign_up")
  /\ \/ place # "none" /\ UNCHANGED place /\ Answer("sign_ack", "already")
     \/ place = "none" /\ place' = "queued" /\ Answer("sign_ack", "ok")
     \/ place = "none" /\ UNCHANGED place /\ Answer("sign_ack", "error")

LobbyAnswers ==
  /\ owed # NoMsg
  /\ owed' = NoMsg
  /\ Push(<<owed>>)
  /\ UNCHANGED <<serverOnly, toServer, session, place, tableVars>>

(* The session ends when the server sees the robot's close or drops it. A  *)
(* match keeps the player signed up, a table plays on for him.             *)
EndSession ==
  /\ session' = "none"
  /\ toServer' = <<>>
  /\ owed' = NoMsg
  /\ place' = IF place = "queued" /\ ~isMatch THEN "none" ELSE place
  /\ trusted' = (place = "table")
  /\ excused' = TRUE
  /\ UNCHANGED <<serverOnly, toRobot, step, mySeat, calls, lord, turn, turnNo, blind, games>>
SeeClose == session # "none" /\ ~up /\ EndSession
Drop     == session # "none" /\ up /\ EndSession

-----------------------------------------------------------------------------
(* The table.                                                              *)
(* Notices go to players who initialised the game.                         *)
Notify(msgs) ==
  toRobot' = IF up /\ session \in {"inited", "rejoining"} THEN toRobot \o msgs ELSE toRobot

(* The robot is in no exchange with the lobby.                             *)
LobbyIsQuiet ==
  /\ owed = NoMsg
  /\ \A i \in DOMAIN toServer : toServer[i].type \notin {"cond", "quick", "sign_up"}
  /\ Rejoining \/ \A i \in DOMAIN toRobot : toRobot[i].type # "init_ack"

(* A game begins for a player who waits for one.                           *)
Begin ==
  /\ games < MaxGames
  /\ \/ place = "queued"
     \/ place = "table" /\ step = "between"
  /\ session \in {"none", "returning", "inited", "rejoining"}
  /\ LobbyFirst /\ isMatch => LobbyIsQuiet
  /\ Settled => ~Rejoining
  /\ place' = "table"
  /\ step' = "scene"
  /\ games' = games + 1
  /\ mySeat' \in Seats
  /\ calls' = <<>> /\ lord' = NoSeat /\ turn' = NoSeat
  /\ excused' = ~Listening
  /\ trusted' = (session = "none")
  /\ blind' = FALSE
  /\ Notify(<<[type |-> "scene"]>>)
  /\ UNCHANGED <<serverOnly, toServer, session, owed, turnNo>>

(* seat has the turn; the notice that tells it carries the turn's number.  *)
GiveTurn(seat) ==
  /\ turn' = seat
  /\ seat = mySeat => turnNo < MaxTurns
  /\ turnNo' = IF seat = mySeat THEN turnNo + 1 ELSE turnNo
  /\ excused' = IF seat = mySeat THEN ~Listening ELSE FALSE

(* What the notice that gives seat the turn is tagged with.                *)
Tag(seat) == IF seat = mySeat THEN turnNo' ELSE NoTurn

Deal(msgs) ==
  /\ step' = "call"
  /\ calls' = <<>>
  /\ GiveTurn(0)
  /\ blind' = ~Listening
  /\ Notify(msgs \o <<[type |-> "deal", header |-> 0, turn |-> Tag(0)]>>)
  /\ UNCHANGED <<lord, place>>

Start == <<[type |-> "start", seat |-> mySeat]>>

ServeReady ==
  /\ Requested("ready")
  /\ toServer' = Tail(toServer)
  /\ \/ step = "scene" /\ Deal(<<[type |-> "ready_ack"]>> \o Start)
     \/ /\ step # "scene"
        /\ Notify(<<[type |-> "ready_ack"]>>)
        /\ UNCHANGED <<step, calls, turn, turnNo, excused, blind, lord, place>>
  /\ UNCHANGED <<serverOnly, session, owed, mySeat, trusted, games>>

(* The table does not wait for a player it cannot reach.                   *)
DealAnyway ==
  /\ step = "scene" /\ excused
  /\ Settled => ~Rejoining
  /\ Deal(Start)
  /\ UNCHANGED <<serverOnly, toServer, session, owed, mySeat, trusted, games>>

(* The scores a player may call: none, or more than anybody so far.        *)
LegalScore(score) == score = 0 \/ \A i \in DOMAIN calls : score > calls[i]

(* seat (whose turn it is) calls score; acks go out before the notices.    *)
Called(score, acks) ==
  LET all     == Append(calls, score)
      over    == Len(all) = 3 \/ score = 3
      winner  == (CHOOSE i \in DOMAIN all : \A j \in DOMAIN all : all[j] <= all[i]) - 1
      said(n) == [type |-> "call", seat |-> turn, next |-> n, score |-> score,
                  turn |-> Tag(n)]
  IN  \/ /\ ~over
         /\ calls' = all
         /\ GiveTurn(turn + 1)
         /\ Notify(acks \o <<said(turn + 1)>>)
         /\ UNCHANGED <<step, lord, blind, place>>
      \/ /\ over /\ \A i \in DOMAIN all : all[i] = 0
         /\ Deal(acks \o <<said(NoSeat)>>)
      \/ /\ over /\ \E i \in DOMAIN all : all[i] > 0
         /\ calls' = all
         /\ step' = "play"
         /\ lord' = winner
         /\ GiveTurn(winner)
         /\ Notify(acks \o <<said(NoSeat), [type |-> "lord", seat |-> winner],
                           [type |-> "base", turn |-> Tag(winner)]>>)
         /\ UNCHANGED <<blind, place>>


NextSeat == (turn + 1) % 3

(* The player whose turn it is takes out cards and does not finish.        *)
TookOut(acks, notices) ==
  /\ GiveTurn(NextSeat)
  /\ Notify(acks \o <<[type |-> "takeout", seat |-> turn, next |-> NextSeat,
                     turn |-> Tag(NextSeat)]>> \o notices)
  /\ UNCHANGED <<step, calls, lord, blind, place>>

(* The game is over: a room lets the player go, a match keeps him.         *)
EndGame(msgs) ==
  /\ Settled => ~Rejoining
  /\ \/ /\ step' = IF isMatch THEN "between" ELSE "none"
        /\ place' = IF isMatch THEN "table" ELSE "none"
        /\ Notify(msgs \o <<[type |-> "result"]>>)
     \/ /\ step' = "none"
        /\ place' = "none"
        /\ Notify(msgs \o <<[type |-> "game_over"]>>)
  /\ turn' = NoSeat /\ lord' = NoSeat /\ calls' = <<>>
  /\ excused' = FALSE /\ blind' = FALSE
  /\ UNCHANGED turnNo

EndMatch ==
  /\ place = "table" /\ step = "between"
  /\ Settled => ~Rejoining
  /\ place' = "none" /\ step' = "none"
  /\ trusted' = FALSE
  /\ Notify(<<[type |-> "match_over"]>>)
  /\ UNCHANGED <<serverOnly, toServer, session, owed, mySeat, calls, lord, turn,
                 turnNo, excused, blind, games>>

Ack(type, ok) == <<[type |-> type, ok |-> ok]>>
MyTurn(s)     == step = s /\ turn = mySeat

ServeCall ==
  /\ Requested("call")
  /\ toServer' = Tail(toServer)
  /\ \/ MyTurn("call") /\ Called(Head(toServer).score, Ack("call_ack", TRUE))
     \/ /\ ~MyTurn("call")
        /\ Notify(Ack("call_ack", FALSE))
        /\ UNCHANGED <<step, calls, lord, turn, turnNo, excused, blind, place>>
  /\ UNCHANGED <<serverOnly, session, owed, mySeat, trusted, games>>

(* The table refuses cards that are not the player's or do not beat.       *)
ServeTakeOut ==
  /\ Requested("takeout")
  /\ toServer' = Tail(toServer)
  /\ \/ MyTurn("play") /\ TookOut(Ack("takeout_ack", TRUE), <<>>)
     \/ MyTurn("play") /\ EndGame(Ack("takeout_ack", TRUE))
     \/ /\ Notify(Ack("takeout_ack", FALSE))
        /\ excused' = (excused \/ MyTurn("play"))
        /\ UNCHANGED <<step, calls, lord, turn, turnNo, blind, place>>
  /\ UNCHANGED <<serverOnly, session, owed, mySeat, trusted, games>>

ServeTrustCancel ==
  /\ Requested("trust_cancel")
  /\ toServer' = Tail(toServer)
  /\ trusted' = FALSE
  /\ Notify(Ack("cancel_ack", TRUE))
  /\ UNCHANGED <<serverOnly, session, owed, place, step, mySeat, calls, lord,
                 turn, turnNo, excused, blind, games>>

ServeKeep ==
  /\ Requested("keep")
  /\ toServer' = Tail(toServer)
  /\ session' = "inited"
  /\ Notify(<<[type |-> "keep_ack", ok |-> InGame, seat |-> mySeat, lord |-> lord]>>)
  /\ excused' = TRUE
  /\ blind' = (step = "call")
  /\ UNCHANGED <<serverOnly, owed, place, step, mySeat, calls, lord, turn,
                 turnNo, trusted, games>>

OtherCalls ==
  /\ step = "call" /\ turn # mySeat
  /\ \E score \in 0..3 : LegalScore(score) /\ Called(score, <<>>)
  /\ UNCHANGED <<serverOnly, toServer, session, owed, mySeat, trusted, games>>

OtherTakesOut ==
  /\ step = "play" /\ turn # mySeat
  /\ TookOut(<<>>, <<>>) \/ EndGame(<<>>)
  /\ UNCHANGED <<serverOnly, toServer, session, owed, mySeat, trusted, games>>

(* A notice or a request that concerns the running turn of the robot.      *)
AnswerOnItsWay ==
  \/ \E i \in DOMAIN toRobot :
       /\ toRobot[i].type \in {"deal", "call", "base", "takeout"}
       /\ toRobot[i].turn = turnNo
  \/ \E r \in delayed : r.turn = turnNo
  \/ \E i \in DOMAIN toServer : toServer[i].turn = turnNo

(* The system acts for a player who is absent or too slow.                 *)
SystemActs ==
  /\ Patient => ~AnswerOnItsWay
  /\ \/ MyTurn("call") /\ Called(0, <<>>) /\ UNCHANGED trusted
     \/ /\ MyTurn("play")
        /\ \/ TookOut(<<>>, IF trusted THEN <<>> ELSE <<[type |-> "trust", seat |-> mySeat]>>)
           \/ EndGame(<<>>)
        /\ trusted' = TRUE
  /\ UNCHANGED <<serverOnly, toServer, session, owed, mySeat, games>>

Serve == ServeVerify \/ ServeInitGame \/ ServeQuick \/ ServeCond \/ ServeSignUp
         \/ ServeReady \/ ServeCall \/ ServeTakeOut \/ ServeTrustCancel \/ ServeKeep

Table == Begin \/ DealAnyway \/ OtherCalls \/ OtherTakesOut \/ SystemActs \/ EndMatch

(* A retired robot never connects again.                                   *)
Rest == retired /\ ~up /\ session = "none" /\ UNCHANGED vars

Init ==
  /\ isMatch \in BOOLEAN
  /\ up = FALSE /\ status = "INIT"
  /\ needKeepPlay = FALSE /\ testing = FALSE
  /\ aiSeat = NoSeat /\ lordSeat = NoSeat /\ callHistory = <<>>
  /\ retired = FALSE /\ delayed = {} /\ failed = NoFail
  /\ toRobot = <<>> /\ toServer = <<>>
  /\ session = "none" /\ owed = NoMsg /\ place = "none"
  /\ step = "none" /\ mySeat = 0 /\ calls = <<>> /\ lord = NoSeat
  /\ turn = NoSeat /\ turnNo = NoTurn /\ excused = FALSE /\ blind = FALSE
  /\ trusted = FALSE /\ games = 0

Next ==
  \/ \E test \in BOOLEAN : Connect(test)
  \/ Recv \/ DelaySendMsgTimer \/ ConnectionLost
  \/ Serve \/ LobbyAnswers \/ SeeClose \/ Drop
  \/ Table \/ Rest

Spec == Init /\ [][Next]_vars


-----------------------------------------------------------------------------
(* Properties                                                              *)

Notices == {"deal", "call", "base", "takeout"}
Requests == {"verify", "init_game", "keep", "cond", "quick", "sign_up", "ready",
             "call", "takeout", "trust_cancel"}

TypeOK ==
  /\ {isMatch, up, needKeepPlay, testing, retired, excused, blind, trusted} \subseteq BOOLEAN
  /\ status \in Statuses
  /\ aiSeat \in Seats \cup {NoSeat} /\ lordSeat \in Seats \cup {NoSeat}
  /\ mySeat \in Seats /\ lord \in Seats \cup {NoSeat} /\ turn \in Seats \cup {NoSeat}
  /\ callHistory \in Seq(0..3) /\ calls \in Seq(0..3) /\ Len(calls) <= 3
  /\ \A r \in delayed : r.type \in {"call", "takeout"} /\ r.turn \in 1..MaxTurns
  /\ \A i \in DOMAIN toServer : toServer[i].type \in Requests
  /\ session \in Sessions /\ place \in Places /\ step \in Steps
  /\ turnNo \in 0..MaxTurns /\ games \in 0..MaxGames

(* No handler refuses a message for its order: as long as games stand      *)
(* still while the robot rejoins one and the lobby of a match answers      *)
(* before the game begins, every RobotStatus guard of RobotBase and        *)
(* RobotTask lets the messages of the protocol pass, whatever connections  *)
(* were lost. In a room the game may begin before the quick start answer.  *)
NoGoodMessageRefused == failed = NoFail

(* The server takes an answer of the robot for the turn it was made for.   *)
AnswersItsTurn ==
  toServer # <<>> /\ Head(toServer).type \in {"call", "takeout"}
    /\ turn = mySeat /\ (Head(toServer).type = "call" <=> step = "call")
  => Head(toServer).turn = turnNo

(* Robot and table never wait for each other: while the table waits for    *)
(* the robot's call or cards, the notice or the answer is on its way,      *)
(* unless the answer was refused or the turn began while the robot was     *)
(* away; while it waits for the robot to be ready likewise.                *)
TurnIsAnswered ==
  /\ up /\ turn = mySeat /\ step \in {"call", "play"} /\ ~excused => AnswerOnItsWay
  /\ up /\ step = "scene" /\ ~excused =>
       \/ \E i \in DOMAIN toRobot : toRobot[i].type = "scene"
       \/ \E i \in DOMAIN toServer : toServer[i].type = "ready"

(* A robot that called, or is about to, never calls a score the table      *)
(* must refuse, although its callHistory lacks the call before its own.    *)
LegalAnswer(r) == r.type = "call" /\ r.turn = turnNo /\ MyTurn("call") => LegalScore(r.score)
CallsAreLegal  == \A r \in delayed : LegalAnswer(r)
CallIsLegal    == ~blind => CallsAreLegal

(* A notice that makes the robot index its tables by a seat finds the      *)
(* seats known and right: playerInfo[aiSeat] and playerInfo[lordSeat].     *)
SeatsAreKnown ==
  /\ up /\ session # "none" /\ status = "GAMMING" /\ toRobot # <<>>
  /\ \A i \in DOMAIN toRobot : toRobot[i].type # "scene"   \* of the next game
  =>
    /\ Msg.type \in {"deal", "call", "base", "takeout", "trust"} => aiSeat = mySeat
    /\ Msg.type = "base" => lordSeat \in Seats

(* A robot that believes itself signed up or queued is known to the        *)
(* server: it cannot wait for a game nobody will begin.                    *)
WaitingIsKnown ==
  up /\ session = "inited" /\ status \in {"SIGNUPED", "QUICKGAME"} /\ toRobot = <<>> =>
    place # "none"

(* The robot leaves a game that is over instead of keeping its seat in the *)
(* pool: once the server has no place for an admitted player, his          *)
(* connection ends or he asks for a new place.                             *)
FinishedRobotLeaves ==
  (up /\ status = "GAMMING" /\ place = "none") ~> (~up \/ place # "none")

(* A turn the robot can answer is answered by the robot alone, with the    *)
(* table's clock left out of the fairness.                                 *)
RobotAnswers ==
  \A n \in 1..MaxTurns :
    (MyTurn("play") /\ turnNo = n /\ ~excused)
      ~> (~MyTurn("play") \/ turnNo # n \/ excused)

Fairness ==
  /\ WF_vars(Recv) /\ WF_vars(DelaySendMsgTimer)
  /\ WF_vars(Serve) /\ WF_vars(LobbyAnswers) /\ WF_vars(SeeClose)
  /\ WF_vars(session = "none" /\ ConnectionLost)

FairSpec == Spec /\ Fairness

-----------------------------------------------------------------------------
(* A robot does not call when an earlier caller's score is as high as its  *)
(* own, also if it rejoined the game while calling went on.                *)
RejoinedCallIsLegal == blind => CallsAreLegal
=============================================================================
