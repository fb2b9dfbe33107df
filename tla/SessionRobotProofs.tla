------------------------- MODULE SessionRobotProofs -------------------------
(***************************************************************************)
(* What the robot is and what the server takes it for, compared across the *)
(* messages under way; for a lobby that answers before a match goes on,    *)
(* games that stand still while the robot rejoins one, and a turn clock    *)
(* longer than the robot's delays.                                         *)
(*                                                                         *)
(* A view is a state of the robot, as far as the messages change it. The   *)
(* invariant says that there is a trace: one view for each message the     *)
(* robot has not read, the first is the robot, and each message leads from *)
(* one view to the next without being refused for its order; the last view *)
(* fits the server. The first lemmas are about sequences of messages and   *)
(* traces: reading the first message, adding one at the end, joining two.  *)
(* Then the steps of the robot and its connection are shown to keep the    *)
(* invariant: connecting, reading a message, the DelaySendMsgTimer, losing *)
(* the connection.                                                         *)
(***************************************************************************)
EXTENDS RobotSession, SequenceTheorems, TLAPS

(* The servers of the theorems; the run checks the same ones.              *)
Orderly == LobbyFirst /\ Settled /\ Patient

-----------------------------------------------------------------------------
(* Messages and requests                                                   *)
RequestSet   == [type : Requests, score : 0..3, turn : 0..MaxTurns]
GameRequests == {"ready", "call", "takeout", "trust_cancel"}

LobbyAnswer ==
  [type : {"quick_ack"}, result : {"ok", "broke", "error"}]
  \cup [type : {"cond_ack"}, result : {"signed", "allowed", "refused"}]
  \cup [type : {"sign_ack"}, result : {"ok", "already", "error"}]

GameNotice ==
  [type : {"deal"}, header : Seats, turn : 0..MaxTurns]
  \cup [type : {"call"}, seat : Seats, next : Seats \cup {NoSeat}, score : 0..3,
        turn : 0..MaxTurns]
  \cup [type : {"base"}, turn : 0..MaxTurns]
  \cup [type : {"takeout"}, seat : Seats, next : Seats, turn : 0..MaxTurns]
  \cup [type : {"start", "lord", "trust"}, seat : Seats]
  \cup [type : {"scene", "result", "game_over", "match_over"}]

Message ==
  LobbyAnswer \cup GameNotice
  \cup [type : {"verify_ack"}, ok : BOOLEAN, game : BOOLEAN]
  \cup [type : {"init_ack", "call_ack", "takeout_ack", "cancel_ack"}, ok : BOOLEAN]
  \cup [type : {"keep_ack"}, ok : BOOLEAN, seat : Seats, lord : Seats \cup {NoSeat}]
  \cup [type : {"ready_ack"}]

(* The turn of the robot that a notice tells or a request answers.         *)
TagOf(m) == IF m.type \in Notices THEN m.turn ELSE NoTurn

(* What a robot out of a game passes over, and the lobby's answers.        *)
Ignored   == Notices \cup {"lord", "trust", "ready_ack"}
LobbyAcks == {"init_ack", "quick_ack", "cond_ack", "sign_ack"}

-----------------------------------------------------------------------------
(* Views and traces                                                        *)

(* A state of the robot, and its seat in the game the messages are about;  *)
(* it is gone once it closed the connection.                               *)
View == [status   : Statuses \cup {"gone"},
         keep     : BOOLEAN,
         ai       : Seats \cup {NoSeat},
         lordSeat : Seats \cup {NoSeat},
         history  : Seq(0..3),
         seat     : Seats]

To(v, w, st) == w = [v EXCEPT !.status = st]

Cleared(v, w) ==
  /\ w.status = "GAMMING" /\ w.keep = v.keep
  /\ w.ai = NoSeat /\ w.lordSeat = NoSeat /\ w.history = <<>>

(* The way into a game. In k are what is known of the table: whether it is *)
(* a match, whether the robot is expected to hear the notice of its turn,  *)
(* and the calls if it heard them all.                                     *)
LobbyLink(m, v, w, k) ==
  \/ /\ m.type = "verify_ack" /\ v.status = "INIT"
     /\ IF m.ok THEN w = [v EXCEPT !.status = "VERIFIED", !.keep = m.game \/ v.keep]
                ELSE w.status = "gone"
  \/ /\ m.type = "init_ack" /\ v.status = "VERIFIED"
     /\ IF m.ok THEN w = [v EXCEPT !.status = IF v.keep THEN "KEEPPLAY" ELSE "INITGAME",
                                   !.keep = FALSE]
                ELSE w.status = "gone"
  \/ /\ m.type = "quick_ack" /\ v.status = "INITGAME" /\ ~k.match
     /\ IF m.result = "ok" THEN To(v, w, "QUICKGAME") ELSE w.status = "gone"
  \/ /\ m.type = "cond_ack" /\ v.status = "INITGAME" /\ k.match
     /\ \/ m.result = "refused" /\ w.status = "gone"
        \/ m.result = "signed"  /\ To(v, w, "SIGNUPED")
        \/ m.result = "allowed" /\ To(v, w, "CANSINGUP")
  \/ /\ m.type = "sign_ack" /\ v.status = "CANSINGUP" /\ k.match
     /\ IF m.result = "error" THEN w.status = "gone" ELSE To(v, w, "SIGNUPED")
  \/ /\ m.type = "keep_ack" /\ v.status = "KEEPPLAY" /\ m.ok /\ m.seat = v.seat
     /\ w = [v EXCEPT !.status = "GAMMING", !.ai = m.seat, !.lordSeat = m.lord,
                      !.history = <<>>]

(* What a robot that plays takes from its game. The notices find its seat  *)
(* known; those that give it the turn carry a tag.                         *)
GameLink(m, v, w, k) ==
  \/ m.type = "start" /\ m.seat = v.seat /\ w = [v EXCEPT !.ai = m.seat]
  \/ /\ m.type = "deal" /\ v.ai = v.seat /\ (m.turn # NoTurn <=> m.header = v.seat)
     /\ m.turn # NoTurn /\ k.sure => k.calls = <<>>
     /\ w = [v EXCEPT !.lordSeat = NoSeat, !.history = <<>>]
  \/ /\ m.type = "call" /\ v.ai = v.seat /\ (m.turn # NoTurn <=> m.next = v.seat)
     /\ m.turn # NoTurn /\ k.sure => Append(v.history, m.score) = k.calls
     /\ w = IF m.next \in {NoSeat, v.ai} THEN v
            ELSE [v EXCEPT !.history = Append(v.history, m.score)]
  \/ m.type = "lord" /\ w = [v EXCEPT !.lordSeat = m.seat]
  \/ /\ m.type = "base" /\ v.ai = v.seat /\ v.lordSeat \in Seats
     /\ m.turn # NoTurn <=> v.lordSeat = v.seat
     /\ w = v
  \/ /\ m.type = "takeout" /\ v.ai = v.seat /\ (m.turn # NoTurn <=> m.next = v.seat)
     /\ w = v
  \/ m.type = "trust" /\ v.ai = v.seat /\ w = v
  \/ m.type \in {"call_ack", "takeout_ack", "cancel_ack"} /\ w = v
  \/ m.type = "quick_ack" /\ ~k.match /\ w = v

(* A new game, the end of one, the end of all.                             *)
SceneLink(v, w) ==
  v.status \in {"SIGNUPED", "QUICKGAME", "GAMMING", "KEEPPLAY", "INITGAME"} /\ Cleared(v, w)
OverLink(m, v, w, k) ==
  /\ m.type \in {"result", "game_over", "match_over"}
  /\ IF m.type = "result" /\ k.match THEN v.status = "GAMMING" /\ Cleared(v, w)
     ELSE w.status = "gone"

(* How a message leads from view v to view w.                              *)
Link(m, v, w, k) ==
  /\ TagOf(m) # NoTurn /\ k.heard => v.status = "GAMMING"
  /\ m.type # "scene" => w.seat = v.seat
  /\ \/ v.status = "gone" /\ w.status = "gone"
     \/ LobbyLink(m, v, w, k)
     \/ v.status = "GAMMING" /\ GameLink(m, v, w, k)
     \/ m.type \in Ignored /\ v.status # "GAMMING" /\ w = v
     \/ m.type = "ready_ack" /\ w = v
     \/ m.type = "scene" /\ SceneLink(v, w)
     \/ v.status # "gone" /\ OverLink(m, v, w, k)

(* The statuses that may follow one.                                       *)
Reach(st) ==
  CASE st = "gone"      -> {"gone"}
    [] st = "GAMMING"   -> {"GAMMING", "gone"}
    [] st = "SIGNUPED"  -> {"SIGNUPED", "GAMMING", "gone"}
    [] st = "QUICKGAME" -> {"QUICKGAME", "GAMMING", "gone"}
    [] st = "KEEPPLAY"  -> {"KEEPPLAY", "GAMMING", "gone"}
    [] st = "CANSINGUP" -> {"CANSINGUP", "SIGNUPED", "GAMMING", "gone"}
    [] st = "INITGAME"  -> {"INITGAME", "CANSINGUP", "SIGNUPED", "QUICKGAME", "GAMMING", "gone"}
    [] st = "VERIFIED"  -> (Statuses \cup {"gone"}) \ {"INIT"}
    [] OTHER            -> Statuses \cup {"gone"}

(* The view v before message i of q may lead to b at the end of q.         *)
Leads(q, i, v, b) ==
  /\ v \in View
  /\ b.status \in Reach(v.status)
  /\ (\A j \in i..Len(q) : q[j].type # "scene") => v.seat = b.seat

Trace(q, a, b, k) ==
  \E f : /\ f[1] = a /\ f[Len(q) + 1] = b
         /\ \A i \in 1..(Len(q) + 1) : Leads(q, i, f[i], b)
         /\ \A i \in 1..Len(q) : Link(q[i], f[i], f[i + 1], k)

-----------------------------------------------------------------------------
(* The invariant                                                           *)
Context == [match |-> isMatch, heard |-> ~excused,
            sure  |-> step = "call" /\ ~blind, calls |-> calls]

(* The robot is as in view v.                                              *)
IsRobot(v) ==
  /\ v.status = status /\ v.keep = needKeepPlay /\ v.ai = aiSeat
  /\ v.lordSeat = lordSeat /\ v.history = callHistory

RobotTyped ==
  /\ {isMatch, up, needKeepPlay, testing, retired} \subseteq BOOLEAN
  /\ status \in Statuses
  /\ aiSeat \in Seats \cup {NoSeat} /\ lordSeat \in Seats \cup {NoSeat}
  /\ callHistory \in Seq(0..3)
LineTyped ==
  /\ delayed \subseteq [type : {"call", "takeout"}, score : 0..3, turn : 0..MaxTurns]
  /\ toServer \in Seq(RequestSet) /\ toRobot \in Seq(Message)
ServerTyped ==
  /\ {excused, blind, trusted} \subseteq BOOLEAN
  /\ mySeat \in Seats /\ lord \in Seats \cup {NoSeat} /\ turn \in Seats \cup {NoSeat}
  /\ calls \in Seq(0..3)
  /\ owed \in LobbyAnswer \cup {NoMsg}
  /\ session \in Sessions /\ place \in Places /\ step \in Steps
  /\ turnNo \in 0..MaxTurns /\ games \in 0..MaxGames
Typed == RobotTyped /\ LineTyped /\ ServerTyped

(* The table and its sessions.                                             *)
TableFits ==
  /\ step = "none" <=> place # "table"
  /\ Len(calls) <= 3
  /\ step = "call" => turn = Len(calls) /\ Len(calls) <= 2
  /\ step = "play" => turn \in Seats /\ lord \in Seats
  /\ step \in {"none", "scene", "between"} => turn = NoSeat
  /\ step = "between" => isMatch
  /\ place = "queued" /\ ~isMatch => session = "inited"
  /\ session = "verified" => ~InGame
  /\ Rejoining => InGame
  /\ session # "inited" => owed = NoMsg
  /\ ~excused /\ (turn = mySeat \/ step = "scene") => session = "inited"
  /\ step = "call" /\ turn = 2 /\ mySeat = 2 => calls[2] = 0 \/ calls[2] > calls[1]

(* What is on the line to the server in each session.                      *)
OnlyRequest(type) == toServer = <<>> \/ toServer = <<Request(type, 0, NoTurn)>>
LineFits ==
  /\ ~up => toRobot = <<>> /\ delayed = {}
  /\ session = "none" => toServer = <<>>
  /\ session = "open" => OnlyRequest("verify")
  /\ session \in {"verified", "returning"} => OnlyRequest("init_game")
  /\ session = "rejoining" => OnlyRequest("keep")
  /\ session = "inited" =>
       \A i \in DOMAIN toServer : toServer[i].type \notin {"verify", "init_game", "keep"}
  /\ delayed # {} => status = "GAMMING"

(* The turn the robot has is told, answered or being answered once.        *)
Current(item) ==
  /\ item.turn = turnNo /\ turnNo # NoTurn /\ turn = mySeat
  /\ step = IF item.type \in {"deal", "call"} THEN "call" ELSE "play"
AllCurrent(q) == \A i \in DOMAIN q : TagOf(q[i]) # NoTurn => Current(q[i])

Untagged(q) == \A i \in DOMAIN q : TagOf(q[i]) = NoTurn
TaggedOnce(q) ==
  \A i, j \in DOMAIN q : TagOf(q[i]) # NoTurn /\ TagOf(q[j]) # NoTurn => i = j

Tags ==
  /\ AllCurrent(toRobot) /\ AllCurrent(toServer) /\ \A r \in delayed : Current(r)
  /\ \A i \in DOMAIN toServer :
       toServer[i].type \in {"call", "takeout"} => toServer[i].turn # NoTurn
  /\ TaggedOnce(toRobot) /\ TaggedOnce(toServer) /\ \A r, s \in delayed : r = s
  /\ Untagged(toRobot) \/ (delayed = {} /\ Untagged(toServer))
  /\ delayed = {} \/ Untagged(toServer)

Holds(q, type) == \E i \in DOMAIN q : q[i].type = type

(* Table and robot do not wait for each other.                             *)
Waits ==
  /\ up /\ turn = mySeat /\ step \in {"call", "play"} /\ ~excused =>
       ~Untagged(toRobot) \/ delayed # {} \/ ~Untagged(toServer)
  /\ up /\ step = "scene" /\ ~excused => Holds(toRobot, "scene") \/ Holds(toServer, "ready")

-----------------------------------------------------------------------------
(* What the server may take a robot for that will be in view b             *)

AnswerFree(q) == \A i \in DOMAIN q : q[i].type \notin LobbyAcks
OnlyOver(q)   == \A i \in DOMAIN q : q[i].type = "match_over"

(* The exchange with the lobby, by the status of the robot.                *)
InitUnread(b) ==
  /\ toServer = <<>> /\ owed = NoMsg /\ ~needKeepPlay
  /\ toRobot # <<>> /\ Head(toRobot).type = "init_ack" /\ OnlyOver(Tail(toRobot))
  /\ \/ b.status = "INITGAME" /\ Tail(toRobot) = <<>>
     \/ b.status = "gone" /\ isMatch

Asked(b) ==
  /\ toServer = <<Request(IF isMatch THEN "cond" ELSE "quick", 0, NoTurn)>>
  /\ owed = NoMsg /\ OnlyOver(toRobot)
  /\ \/ b.status = "INITGAME" /\ toRobot = <<>>
     \/ b.status = "gone" /\ isMatch

AnswerOwed(b) ==
  /\ toServer = <<>> /\ owed # NoMsg
  /\ owed.type = IF isMatch THEN "cond_ack" ELSE "quick_ack"
  /\ AnswerFree(toRobot)
  /\ \/ b.status = "INITGAME" /\ toRobot = <<>>
     \/ b.status = "gone" /\ (isMatch => OnlyOver(toRobot))
     \/ b.status = "GAMMING" /\ ~isMatch

AnswerUnread(b) ==
  /\ toServer = <<>> /\ owed = NoMsg
  /\ b.status # "INITGAME"
  /\ toRobot # <<>> /\ Head(toRobot).type = "cond_ack" /\ Head(toRobot).result = "allowed" =>
       Tail(toRobot) = <<>>

SigningUp(b) ==
  \/ /\ toRobot = <<>>
     /\ \/ toServer = <<Request("sign_up", 0, NoTurn)>> /\ owed = NoMsg
        \/ toServer = <<>> /\ owed # NoMsg /\ owed.type = "sign_ack"
  \/ b.status # "CANSINGUP" /\ toServer = <<>> /\ owed = NoMsg

Exchange(b) ==
  /\ status = "VERIFIED"  => InitUnread(b)
  /\ status = "INITGAME"  =>
       /\ Asked(b) \/ AnswerOwed(b) \/ AnswerUnread(b)
       /\ toRobot # <<>> => Head(toRobot).type \notin Ignored
  /\ status = "CANSINGUP" => SigningUp(b)
  /\ status \in {"SIGNUPED", "QUICKGAME", "KEEPPLAY"} => toServer = <<>> /\ owed = NoMsg
  /\ status = "KEEPPLAY"  => b.status \in {"GAMMING", "gone"}
  /\ status = "GAMMING"   =>
       /\ \A i \in DOMAIN toServer : toServer[i].type \in GameRequests
       /\ owed = NoMsg \/ (~isMatch /\ owed.type = "quick_ack")

(* The player at the table, by the status the robot will have.             *)
InTune(b) ==
  /\ step \in {"call", "play"} => b.ai = mySeat
  /\ step = "play" => b.lordSeat = lord
  /\ step = "call" /\ ~blind /\ turn < mySeat => b.history = calls

Player(b) ==
  \/ /\ b.status = "INITGAME" /\ ~InGame
     /\ owed = NoMsg /\ ~isMatch => place = "none"
     /\ owed # NoMsg => (owed.result \in {"ok", "signed"} <=> place # "none")
  \/ /\ b.status = "CANSINGUP" /\ isMatch
     /\ IF owed = NoMsg \/ owed.result = "error" THEN place = "none" ELSE place = "queued"
  \/ b.status \in {"SIGNUPED", "QUICKGAME"} /\ place # "none" /\ ~InGame
  \/ b.status = "GAMMING" /\ place = "table" /\ InTune(b)
  \/ b.status = "gone" /\ place = "none"

(* The way to an initialised session.                                      *)
Opening(b) ==
  /\ status = "INIT" /\ needKeepPlay = FALSE
  /\ \/ toRobot = <<>> /\ toServer # <<>>
     \/ b.status = "gone" /\ toServer = <<>> /\ toRobot # <<>> /\ Tail(toRobot) = <<>>
Verifying(b) ==
  \/ /\ status = "INIT" /\ toServer = <<>>
     /\ b.status = "VERIFIED" /\ b.keep = (session = "returning")
     /\ toRobot # <<>> /\ Tail(toRobot) = <<>> /\ Head(toRobot).type = "verify_ack"
  \/ /\ status = "VERIFIED" /\ needKeepPlay = (session = "returning")
     /\ toRobot = <<>> /\ toServer # <<>>
  \/ /\ status = "VERIFIED" /\ b.status = "gone" /\ toServer = <<>>
     /\ toRobot # <<>> /\ Tail(toRobot) = <<>>
Returning(b) ==
  /\ b.status = "KEEPPLAY"
  /\ \/ status = "VERIFIED" /\ needKeepPlay /\ toServer = <<>>
     \/ status = "KEEPPLAY" /\ toServer # <<>>

Expected(b) ==
  session # "none" =>
    /\ b.seat = mySeat
    /\ session = "open" => Opening(b)
    /\ session \in {"verified", "returning"} => Verifying(b)
    /\ session = "rejoining" => Returning(b)
    /\ session = "inited" => status # "INIT" /\ Exchange(b) /\ Player(b)

Views ==
  up => \E a, b : Trace(toRobot, a, b, Context) /\ IsRobot(a) /\ Expected(b)

IInv == /\ Typed /\ TableFits /\ LineFits /\ Tags /\ Views /\ Waits
        /\ CallIsLegal /\ failed = NoFail

-----------------------------------------------------------------------------
(* Sequences                                                               *)

(* The elements of the tail are those behind the head.                     *)
LEMMA TailFacts ==
  ASSUME NEW S, NEW q \in Seq(S), q # <<>>
  PROVE  /\ Tail(q) \in Seq(S) /\ Head(q) \in S
         /\ 1 \in DOMAIN q /\ q[1] = Head(q)
         /\ \A j \in DOMAIN Tail(q) : j + 1 \in DOMAIN q /\ Tail(q)[j] = q[j + 1]
         /\ \A i \in DOMAIN q : i # 1 => i - 1 \in DOMAIN Tail(q) /\ Tail(q)[i - 1] = q[i]
         /\ \A i \in DOMAIN q : i \in Int
         /\ \A j \in DOMAIN Tail(q) : j \in Int /\ j > 0
<1>1. /\ Len(q) \in Nat \ {0} /\ Head(q) = q[1] /\ q[1] \in S
      /\ Tail(q) \in Seq(S) /\ Len(Tail(q)) = Len(q) - 1
      /\ \A i \in 1..Len(Tail(q)) : Tail(q)[i] = q[i + 1]
  OBVIOUS
<1>2. DOMAIN q = 1..Len(q) /\ DOMAIN Tail(q) = 1..Len(Tail(q))
  BY <1>1
<1>3. \A i \in 1..Len(q) : i # 1 => i - 1 \in 1..Len(Tail(q)) /\ (i - 1) + 1 = i
  BY <1>1
<1>4. QED
  BY <1>1, <1>2, <1>3

(* The elements of an extended sequence are the old ones and the new one.  *)
LEMMA AppendFacts ==
  ASSUME NEW S, NEW q \in Seq(S), NEW m \in S
  PROVE  /\ Append(q, m) \in Seq(S) /\ Append(q, m) # <<>>
         /\ q # <<>> => Head(Append(q, m)) = Head(q) /\ Tail(Append(q, m)) = Append(Tail(q), m)
         /\ \A j \in DOMAIN q : j \in DOMAIN Append(q, m) /\ Append(q, m)[j] = q[j]
         /\ Len(q) + 1 \in DOMAIN Append(q, m) /\ Append(q, m)[Len(q) + 1] = m
         /\ \A j \in DOMAIN Append(q, m) : j \in DOMAIN q \/ j = Len(q) + 1
         /\ Len(q) + 1 \notin DOMAIN q
<1>1. /\ Len(q) \in Nat /\ Append(q, m) \in Seq(S) /\ Len(Append(q, m)) = Len(q) + 1
      /\ \A j \in 1..Len(q) : Append(q, m)[j] = q[j]
      /\ Append(q, m)[Len(q) + 1] = m
  OBVIOUS
<1>2. DOMAIN q = 1..Len(q) /\ DOMAIN Append(q, m) = 1..(Len(q) + 1)
  BY <1>1
<1>3. Append(q, m) # <<>>
  BY <1>1
<1>4. ASSUME q # <<>>
      PROVE  Head(Append(q, m)) = Head(q) /\ Tail(Append(q, m)) = Append(Tail(q), m)
  BY <1>4, AppendProperties, HeadTailProperties, AppendIsConcat, ConcatProperties
<1>5. QED
  BY <1>1, <1>2, <1>3, <1>4

(* The tags behind the head.                                               *)
LEMMA TailTags ==
  ASSUME NEW S, NEW q \in Seq(S), q # <<>>
  PROVE  /\ Untagged(q) => Untagged(Tail(q))
         /\ TaggedOnce(q) => TaggedOnce(Tail(q))
         /\ TaggedOnce(q) /\ TagOf(Head(q)) # NoTurn => Untagged(Tail(q))
         /\ ~Untagged(q) /\ TagOf(Head(q)) = NoTurn => ~Untagged(Tail(q))
         /\ AllCurrent(q) => AllCurrent(Tail(q))
<1>1. /\ 1 \in DOMAIN q /\ q[1] = Head(q)
      /\ \A j \in DOMAIN Tail(q) : j + 1 \in DOMAIN q /\ Tail(q)[j] = q[j + 1]
      /\ \A i \in DOMAIN q : i # 1 => i - 1 \in DOMAIN Tail(q) /\ Tail(q)[i - 1] = q[i]
      /\ \A j \in DOMAIN Tail(q) : j \in Int /\ j > 0
  BY TailFacts
<1>2. Untagged(q) => Untagged(Tail(q))
  BY <1>1 DEF Untagged
<1>3. ASSUME TaggedOnce(q) PROVE TaggedOnce(Tail(q))
  <2> SUFFICES ASSUME NEW i \in DOMAIN Tail(q), NEW j \in DOMAIN Tail(q),
                      TagOf(Tail(q)[i]) # NoTurn, TagOf(Tail(q)[j]) # NoTurn
               PROVE  i = j
    BY DEF TaggedOnce
  <2>1. i + 1 = j + 1
    BY <1>1, <1>3 DEF TaggedOnce
  <2>2. i \in Int /\ j \in Int
    BY <1>1
  <2>3. QED
    BY <2>1, <2>2
<1>4. ASSUME TaggedOnce(q), TagOf(Head(q)) # NoTurn PROVE Untagged(Tail(q))
  <2> SUFFICES ASSUME NEW j \in DOMAIN Tail(q), TagOf(Tail(q)[j]) # NoTurn PROVE FALSE
    BY DEF Untagged
  <2>1. j + 1 = 1
    BY <1>1, <1>4 DEF TaggedOnce
  <2>2. j \in Int /\ j > 0
    BY <1>1
  <2>3. QED
    BY <2>1, <2>2
<1>5. ASSUME ~Untagged(q), TagOf(Head(q)) = NoTurn PROVE ~Untagged(Tail(q))
  <2>1. PICK i \in DOMAIN q : TagOf(q[i]) # NoTurn
    BY <1>5 DEF Untagged
  <2>2. i # 1
    BY <1>1, <1>5, <2>1
  <2>3. i - 1 \in DOMAIN Tail(q) /\ Tail(q)[i - 1] = q[i]
    BY <1>1, <2>2
  <2>4. QED
    BY <2>1, <2>3 DEF Untagged
<1>6. AllCurrent(q) => AllCurrent(Tail(q))
  BY <1>1 DEF AllCurrent
<1>7. QED
  BY <1>2, <1>3, <1>4, <1>5, <1>6

(* The tags of an extended sequence.                                       *)
LEMMA AppendTags ==
  ASSUME NEW S, NEW q \in Seq(S), NEW m \in S
  PROVE  /\ Untagged(q) => TaggedOnce(Append(q, m))
         /\ Untagged(q) /\ TagOf(m) = NoTurn => Untagged(Append(q, m))
         /\ TaggedOnce(q) /\ TagOf(m) = NoTurn => TaggedOnce(Append(q, m))
         /\ ~Untagged(q) \/ TagOf(m) # NoTurn => ~Untagged(Append(q, m))
         /\ AllCurrent(q) /\ (TagOf(m) # NoTurn => Current(m)) => AllCurrent(Append(q, m))
<1>1. /\ \A j \in DOMAIN q : j \in DOMAIN Append(q, m) /\ Append(q, m)[j] = q[j]
      /\ Len(q) + 1 \in DOMAIN Append(q, m) /\ Append(q, m)[Len(q) + 1] = m
      /\ \A j \in DOMAIN Append(q, m) : j \in DOMAIN q \/ j = Len(q) + 1
  BY AppendFacts
<1> DEFINE n == Len(q) + 1
           r == Append(q, m)
<1>2. /\ \A j \in DOMAIN q : j \in DOMAIN r /\ r[j] = q[j]
      /\ n \in DOMAIN r /\ r[n] = m
      /\ \A j \in DOMAIN r : j \in DOMAIN q \/ j = n
  BY <1>1
<1> HIDE DEF n, r
<1>3. Untagged(q) => TaggedOnce(r)
  BY <1>2, Zenon DEF Untagged, TaggedOnce
<1>4. Untagged(q) /\ TagOf(m) = NoTurn => Untagged(r)
  BY <1>2 DEF Untagged
<1>5. TaggedOnce(q) /\ TagOf(m) = NoTurn => TaggedOnce(r)
  BY <1>2 DEF TaggedOnce
<1>6. ~Untagged(q) \/ TagOf(m) # NoTurn => ~Untagged(r)
  BY <1>2 DEF Untagged
<1>7. AllCurrent(q) /\ (TagOf(m) # NoTurn => Current(m)) => AllCurrent(r)
  BY <1>2 DEF AllCurrent
<1>8. QED
  BY <1>3, <1>4, <1>5, <1>6, <1>7 DEF r

-----------------------------------------------------------------------------
(* Traces                                                                  *)

(* The statuses follow one another.                                        *)
LEMMA ReachIsTransitive ==
  \A s, t, u \in Statuses \cup {"gone"} : t \in Reach(s) /\ u \in Reach(t) => u \in Reach(s)
BY DEF Reach, Statuses

(* A status may stay.                                                      *)
LEMMA ReachIsReflexive == \A s \in Statuses \cup {"gone"} : s \in Reach(s)
BY DEF Reach, Statuses

(* A message leads to a status that may follow.                            *)
LEMMA LinkReaches ==
  ASSUME NEW m, NEW v \in View, NEW w \in View, NEW k, Link(m, v, w, k)
  PROVE  w.status \in Reach(v.status)
<1>1. v.status \in Statuses \cup {"gone"} /\ w.status \in Statuses \cup {"gone"}
  BY DEF View
<1>2. v.status \in Reach(v.status)
  BY <1>1, ReachIsReflexive
<1>3. "gone" \in Reach(v.status)
  BY <1>1 DEF Reach, Statuses
<1>4. CASE LobbyLink(m, v, w, k)
  <2>1. ASSUME NEW st, To(v, w, st) PROVE w.status = st
    BY <2>1 DEF To, View
  <2>2. CASE m.type = "verify_ack" /\ v.status = "INIT"
    BY <1>1, <2>2 DEF Reach
  <2>3. CASE m.type = "init_ack" /\ v.status = "VERIFIED"
    <3>1. w.status \in {"KEEPPLAY", "INITGAME", "gone"}
      BY <1>4, <2>3 DEF LobbyLink, View
    <3>2. QED
      BY <2>3, <3>1 DEF Reach, Statuses
  <2>4. CASE m.type \in {"quick_ack", "cond_ack"} /\ v.status = "INITGAME"
    <3>1. w.status \in {"QUICKGAME", "SIGNUPED", "CANSINGUP", "gone"}
      BY <1>4, <2>1, <2>4 DEF LobbyLink
    <3>2. QED
      BY <2>4, <3>1 DEF Reach, Statuses
  <2>5. CASE m.type = "sign_ack" /\ v.status = "CANSINGUP"
    <3>1. w.status \in {"SIGNUPED", "gone"}
      BY <1>4, <2>1, <2>5 DEF LobbyLink
    <3>2. QED
      BY <2>5, <3>1 DEF Reach, Statuses
  <2>6. CASE m.type = "keep_ack" /\ v.status = "KEEPPLAY"
    <3>1. w.status = "GAMMING"
      BY <1>4, <2>6 DEF LobbyLink, View
    <3>2. QED
      BY <2>6, <3>1 DEF Reach, Statuses
  <2>7. QED
    BY <1>4, <2>2, <2>3, <2>4, <2>5, <2>6 DEF LobbyLink
<1>5. CASE v.status = "GAMMING" /\ GameLink(m, v, w, k)
  <2>1. w.status = v.status
    BY <1>5 DEF GameLink, View
  <2>2. QED
    BY <1>2, <2>1
<1>6. CASE m.type = "scene" /\ SceneLink(v, w)
  BY <1>6 DEF SceneLink, Cleared, Reach, Statuses
<1>7. CASE v.status # "gone" /\ OverLink(m, v, w, k)
  <2>1. w.status \in {"GAMMING", "gone"}
    BY <1>7 DEF OverLink, Cleared
  <2>2. QED
    BY <1>1, <1>7, <2>1 DEF Reach, Statuses
<1>8. QED
  BY <1>2, <1>4, <1>5, <1>6, <1>7 DEF Link

(* With no message under way the robot is what the server takes it for.    *)
LEMMA EmptyTrace ==
  ASSUME NEW a, NEW b, NEW k
  PROVE  Trace(<<>>, a, b, k) <=> a = b /\ a \in View
<1>1. Len(<<>>) = 0
  OBVIOUS
<1>2. ASSUME Trace(<<>>, a, b, k) PROVE a = b /\ a \in View
  <2>1. PICK f : /\ f[1] = a /\ f[Len(<<>>) + 1] = b
                 /\ \A i \in 1..(Len(<<>>) + 1) : Leads(<<>>, i, f[i], b)
    BY <1>2 DEF Trace
  <2>2. f[0 + 1] = b /\ 1 \in 1..(0 + 1)
    BY <1>1, <2>1
  <2>3. Leads(<<>>, 1, f[1], b)
    BY <1>1, <2>1, <2>2
  <2>4. QED
    BY <1>1, <2>1, <2>2, <2>3 DEF Leads
<1>3. ASSUME a = b, a \in View PROVE Trace(<<>>, a, b, k)
  <2> DEFINE f == [i \in {1} |-> a]
  <2>1. f[1] = a /\ f[Len(<<>>) + 1] = b
    BY <1>1, <1>3
  <2>2. \A i \in 1..(Len(<<>>) + 1) : Leads(<<>>, i, f[i], b)
    <3>1. b.status \in Reach(a.status)
      BY <1>3, ReachIsReflexive DEF View
    <3>2. QED
      BY <1>1, <1>3, <3>1 DEF Leads
  <2>3. \A i \in 1..Len(<<>>) : Link(<<>>[i], f[i], f[i + 1], k)
    BY <1>1
  <2>4. QED
    BY <2>1, <2>2, <2>3 DEF Trace
<1>4. QED
  BY <1>2, <1>3

(* The ends of a trace.                                                    *)
LEMMA TraceEnds ==
  ASSUME NEW q \in Seq(Message), NEW a, NEW b, NEW k, Trace(q, a, b, k)
  PROVE  /\ a \in View /\ b \in View /\ b.status \in Reach(a.status)
         /\ ~Holds(q, "scene") => a.seat = b.seat
<1>1. PICK f : /\ f[1] = a /\ f[Len(q) + 1] = b
               /\ \A i \in 1..(Len(q) + 1) : Leads(q, i, f[i], b)
  BY DEF Trace
<1>2. Len(q) \in Nat /\ DOMAIN q = 1..Len(q)
  OBVIOUS
<1>3. 1 \in 1..(Len(q) + 1) /\ Len(q) + 1 \in 1..(Len(q) + 1)
  BY <1>2
<1>4. Leads(q, 1, a, b) /\ Leads(q, Len(q) + 1, b, b)
  BY <1>1, <1>3
<1>5. QED
  BY <1>2, <1>4 DEF Leads, Holds

(* Reading a message takes the first view away.                            *)
LEMMA ReadTrace ==
  ASSUME NEW q \in Seq(Message), NEW a, NEW b, NEW k, Trace(q, a, b, k), q # <<>>
  PROVE  \E w \in View : Link(Head(q), a, w, k) /\ Trace(Tail(q), w, b, k)
<1>1. PICK f : /\ f[1] = a /\ f[Len(q) + 1] = b
               /\ \A i \in 1..(Len(q) + 1) : Leads(q, i, f[i], b)
               /\ \A i \in 1..Len(q) : Link(q[i], f[i], f[i + 1], k)
  BY DEF Trace
<1>2. /\ Len(q) \in Nat \ {0} /\ Head(q) = q[1]
      /\ Tail(q) \in Seq(Message) /\ Len(Tail(q)) = Len(q) - 1
      /\ \A i \in 1..Len(Tail(q)) : Tail(q)[i] = q[i + 1]
  OBVIOUS
<1> DEFINE n == Len(q)
           r == Tail(q)
           g == [i \in 1..n |-> f[i + 1]]
<1>3. n \in Nat \ {0} /\ Len(r) = n - 1 /\ \A i \in 1..(n - 1) : r[i] = q[i + 1]
  BY <1>2
<1>4. 1 \in 1..n /\ 1 \in 1..(n + 1) /\ 2 \in 1..(n + 1)
  BY <1>3
<1>5. f[2] \in View /\ Link(q[1], f[1], f[2], k)
  <2>1. f[1 + 1] = f[2]
    OBVIOUS
  <2>2. QED
    BY <1>1, <1>4, <2>1 DEF Leads
<1>6. Trace(r, f[2], b, k)
  <2>1. g[1] = f[2] /\ g[(n - 1) + 1] = b
    BY <1>1, <1>3
  <2>2. \A i \in 1..((n - 1) + 1) : Leads(r, i, g[i], b)
    <3>1. \A i \in 1..n : i + 1 \in 1..(n + 1) /\ g[i] = f[i + 1]
      BY <1>3
    <3>2. (n - 1) + 1 = n
      BY <1>3
    <3> HIDE DEF g
    <3>3. SUFFICES ASSUME NEW i \in 1..n PROVE Leads(r, i, g[i], b)
      BY <3>2
    <3>4. Leads(q, i + 1, f[i + 1], b)
      BY <1>1, <3>1
    <3>5. ASSUME \A j \in i..(n - 1) : r[j].type # "scene"
          PROVE  \A j \in (i + 1)..n : q[j].type # "scene"
      <4> SUFFICES ASSUME NEW j \in (i + 1)..n PROVE q[j].type # "scene"
        OBVIOUS
      <4>1. j - 1 \in i..(n - 1) /\ j - 1 \in 1..(n - 1) /\ (j - 1) + 1 = j
        BY <1>3
      <4>2. QED
        BY <1>3, <3>5, <4>1
    <3> HIDE DEF r
    <3>6. QED
      BY <1>3, <3>1, <3>4, <3>5 DEF Leads
  <2>3. ASSUME NEW i \in 1..(n - 1) PROVE Link(r[i], g[i], g[i + 1], k)
    <3>1. i + 1 \in 1..n /\ g[i] = f[i + 1] /\ g[i + 1] = f[(i + 1) + 1] /\ r[i] = q[i + 1]
      BY <1>3
    <3> HIDE DEF g, r
    <3>2. QED
      BY <1>1, <3>1
  <2> HIDE DEF g, r, n
  <2>4. QED
    BY <1>3, <2>1, <2>2, <2>3 DEF Trace
<1>7. QED
  BY <1>1, <1>2, <1>5, <1>6

(* Sending a message appends the view it leads to.                         *)
LEMMA SendTrace ==
  ASSUME NEW q \in Seq(Message), NEW a, NEW b, NEW c \in View, NEW k, NEW m \in Message,
         Trace(q, a, b, k), Link(m, b, c, k)
  PROVE  Trace(Append(q, m), a, c, k)
<1>1. PICK f : /\ f[1] = a /\ f[Len(q) + 1] = b
               /\ \A i \in 1..(Len(q) + 1) : Leads(q, i, f[i], b)
               /\ \A i \in 1..Len(q) : Link(q[i], f[i], f[i + 1], k)
  BY DEF Trace
<1> DEFINE n == Len(q)
           r == Append(q, m)
           g == [i \in 1..(n + 2) |-> IF i = n + 2 THEN c ELSE f[i]]
<1>2. /\ n \in Nat /\ Len(r) = n + 1 /\ r[n + 1] = m
      /\ \A i \in 1..n : r[i] = q[i]
  OBVIOUS
<1>3. b \in View /\ c.status \in Reach(b.status) /\ (m.type # "scene" => c.seat = b.seat)
  <2>1. b \in View
    BY TraceEnds
  <2>2. QED
    BY <2>1, LinkReaches DEF Link
<1>4. g[1] = a /\ g[(n + 1) + 1] = c /\ \A i \in 1..(n + 1) : g[i] = f[i]
  BY <1>1, <1>2
<1>5. \A i \in 1..((n + 1) + 1) : Leads(r, i, g[i], c)
  <2> SUFFICES ASSUME NEW i \in 1..((n + 1) + 1) PROVE Leads(r, i, g[i], c)
    OBVIOUS
  <2>1. CASE i = (n + 1) + 1
    <3>1. c.status \in Reach(c.status)
      BY ReachIsReflexive DEF View
    <3>2. g[i] = c
      BY <1>4, <2>1
    <3> HIDE DEF g, r, n
    <3>3. QED
      BY <3>1, <3>2, <1>2 DEF Leads
  <2>2. CASE i \in 1..(n + 1)
    <3>1. Leads(q, i, f[i], b) /\ g[i] = f[i]
      BY <1>1, <1>4, <2>2
    <3>2. c.status \in Reach(f[i].status)
      <4>1. f[i].status \in Statuses \cup {"gone"} /\ b.status \in Statuses \cup {"gone"}
            /\ c.status \in Statuses \cup {"gone"}
        BY <1>3, <3>1 DEF Leads, View
      <4>2. b.status \in Reach(f[i].status)
        BY <3>1 DEF Leads
      <4>3. QED
        BY <1>3, <4>1, <4>2, ReachIsTransitive
    <3>3. ASSUME \A j \in i..(n + 1) : r[j].type # "scene" PROVE f[i].seat = c.seat
      <4>1. r[n + 1].type # "scene"
        <5>1. n + 1 \in i..(n + 1)
          BY <1>2, <2>2
        <5>2. QED
          BY <3>3, <5>1
      <4>2. \A j \in i..n : q[j].type # "scene"
        <5>1. \A j \in i..n : j \in i..(n + 1) /\ j \in 1..n
          BY <1>2, <2>2
        <5>2. QED
          BY <1>2, <3>3, <5>1
      <4>3. f[i].seat = b.seat
        BY <3>1, <4>2 DEF Leads
      <4>4. QED
        BY <1>2, <1>3, <4>1, <4>3
    <3> HIDE DEF g, r, n
    <3>4. QED
      BY <1>2, <3>1, <3>2, <3>3 DEF Leads
  <2>3. QED
    BY <1>2, <2>1, <2>2
<1>6. ASSUME NEW i \in 1..(n + 1)
      PROVE  Link(r[i], g[i], g[i + 1], k)
  <2>1. CASE i = n + 1
    <3>1. g[n + 1] = b /\ g[(n + 1) + 1] = c /\ r[n + 1] = m
      BY <1>1, <1>2, <1>4
    <3> HIDE DEF g, r, n
    <3>2. QED
      BY <1>2, <2>1, <3>1
  <2>2. CASE i \in 1..n
    <3>1. i + 1 \in 1..(n + 1) /\ i \in 1..(n + 1)
      BY <1>2, <2>2
    <3>2. g[i] = f[i] /\ g[i + 1] = f[i + 1] /\ r[i] = q[i]
      BY <1>2, <1>4, <2>2, <3>1
    <3>3. Link(q[i], f[i], f[i + 1], k)
      BY <1>1, <2>2
    <3> HIDE DEF g, r, n
    <3>4. QED
      BY <3>2, <3>3
  <2>3. i = n + 1 \/ i \in 1..n
    BY <1>2
  <2>4. QED
    BY <2>1, <2>2, <2>3
<1> HIDE DEF g, r, n
<1>7. Trace(r, a, c, k)
  BY <1>2, <1>4, <1>5, <1>6 DEF Trace
<1>8. QED
  BY <1>7 DEF r

(* What is known of the table matters to the notices that give the turn.   *)
LEMMA ContextTrace ==
  ASSUME NEW q \in Seq(Message), NEW a, NEW b, NEW k, NEW l, Trace(q, a, b, k),
         l.match = k.match,
         \/ Untagged(q)
         \/ (l.heard => k.heard) /\ (l.sure => k.sure) /\ l.calls = k.calls
  PROVE  Trace(q, a, b, l)
<1>1. PICK f : /\ f[1] = a /\ f[Len(q) + 1] = b
               /\ \A i \in 1..(Len(q) + 1) : Leads(q, i, f[i], b)
               /\ \A i \in 1..Len(q) : Link(q[i], f[i], f[i + 1], k)
  BY DEF Trace
<1>2. \A i \in 1..Len(q) : Link(q[i], f[i], f[i + 1], l)
  <2> SUFFICES ASSUME NEW i \in 1..Len(q) PROVE Link(q[i], f[i], f[i + 1], l)
    OBVIOUS
  <2> DEFINE m == q[i]
             v == f[i]
             w == f[i + 1]
  <2>1. Link(m, v, w, k)
    BY <1>1
  <2>2. \/ TagOf(m) = NoTurn
        \/ (l.heard => k.heard) /\ (l.sure => k.sure) /\ l.calls = k.calls
    BY DEF Untagged
  <2> HIDE DEF m, v, w
  <2>3. m.type \in {"call", "deal"} => TagOf(m) = m.turn
    BY DEF TagOf, Notices
  <2>4. LobbyLink(m, v, w, k) <=> LobbyLink(m, v, w, l)
    BY DEF LobbyLink
  <2>5. OverLink(m, v, w, k) <=> OverLink(m, v, w, l)
    BY DEF OverLink
  <2>6. GameLink(m, v, w, k) => GameLink(m, v, w, l)
    <3>1. CASE m.type \in {"call", "deal"}
      BY <2>2, <2>3, <3>1 DEF GameLink
    <3>2. CASE m.type \notin {"call", "deal"}
      BY <3>2 DEF GameLink
    <3>3. QED
      BY <3>1, <3>2
  <2>7. Link(m, v, w, l)
    BY <2>1, <2>2, <2>4, <2>5, <2>6 DEF Link
  <2>8. QED
    BY <2>7 DEF m, v, w
<1>3. QED
  BY <1>1, <1>2 DEF Trace

-----------------------------------------------------------------------------
(* Several messages at once                                                *)

(* The elements of two sequences joined.                                   *)
LEMMA ConcatFacts ==
  ASSUME NEW S, NEW q \in Seq(S), NEW p \in Seq(S)
  PROVE  /\ q \o p \in Seq(S)
         /\ q # <<>> => Head(q \o p) = Head(q) /\ Tail(q \o p) = Tail(q) \o p
         /\ q = <<>> => q \o p = p
         /\ p # <<>> => q \o p # <<>>
         /\ \A j \in DOMAIN q : j \in DOMAIN (q \o p) /\ (q \o p)[j] = q[j]
         /\ \A j \in DOMAIN p : j + Len(q) \in DOMAIN (q \o p) /\ (q \o p)[j + Len(q)] = p[j]
         /\ \A i \in DOMAIN (q \o p) :
              \/ i \in DOMAIN q
              \/ i - Len(q) \in DOMAIN p /\ (q \o p)[i] = p[i - Len(q)]
         /\ \A i, j \in DOMAIN (q \o p) : i - Len(q) = j - Len(q) => i = j
<1>1. /\ q \o p \in Seq(S) /\ Len(q) \in Nat /\ Len(p) \in Nat
      /\ Len(q \o p) = Len(q) + Len(p)
      /\ \A i \in 1..(Len(q) + Len(p)) :
           (q \o p)[i] = IF i <= Len(q) THEN q[i] ELSE p[i - Len(q)]
  BY ConcatProperties, LenProperties
<1>2. /\ DOMAIN q = 1..Len(q) /\ DOMAIN p = 1..Len(p)
      /\ DOMAIN (q \o p) = 1..(Len(q) + Len(p))
  BY <1>1
<1> DEFINE n == Len(q)
           m == Len(p)
           r == q \o p
<1>3. /\ n \in Nat /\ m \in Nat /\ DOMAIN q = 1..n /\ DOMAIN p = 1..m /\ DOMAIN r = 1..(n + m)
      /\ \A i \in 1..(n + m) : r[i] = IF i <= n THEN q[i] ELSE p[i - n]
  BY <1>1, <1>2
<1>4. q = <<>> => q \o p = p
  OBVIOUS
<1>5. ASSUME q # <<>> PROVE Head(q \o p) = Head(q) /\ Tail(q \o p) = Tail(q) \o p
  BY <1>5, ConcatProperties, HeadTailProperties
<1>6. p # <<>> => q \o p # <<>>
  BY <1>1
<1> HIDE DEF n, m, r
<1>7. /\ \A j \in DOMAIN q : j \in DOMAIN r /\ r[j] = q[j]
      /\ \A j \in DOMAIN p : j + n \in DOMAIN r /\ r[j + n] = p[j]
      /\ \A i \in DOMAIN r : \/ i \in DOMAIN q
                             \/ i - n \in DOMAIN p /\ r[i] = p[i - n]
      /\ \A i, j \in DOMAIN r : i - n = j - n => i = j
  <2>1. \A j \in 1..n : j \in 1..(n + m) /\ j <= n
    BY <1>3
  <2>2. \A j \in 1..m : j + n \in 1..(n + m) /\ ~(j + n <= n) /\ (j + n) - n = j
    BY <1>3
  <2>3. \A i \in 1..(n + m) : i \in 1..n \/ (i - n \in 1..m /\ ~(i <= n))
    BY <1>3
  <2>4. \A i, j \in 1..(n + m) : i - n = j - n => i = j
    BY <1>3
  <2>5. \A j \in DOMAIN q : j \in DOMAIN r /\ r[j] = q[j]
    BY <1>3, <2>1
  <2>6. \A j \in DOMAIN p : j + n \in DOMAIN r /\ r[j + n] = p[j]
    BY <1>3, <2>2
  <2>7. \A i \in DOMAIN r : i \in DOMAIN q \/ (i - n \in DOMAIN p /\ r[i] = p[i - n])
    BY <1>3, <2>3
  <2>8. QED
    BY <1>3, <2>4, <2>5, <2>6, <2>7
<1>8. QED
  BY <1>1, <1>4, <1>5, <1>6, <1>7 DEF n, r

(* The tags of two sequences joined, the first without any.                *)
LEMMA ConcatTags ==
  ASSUME NEW S, NEW q \in Seq(S), NEW p \in Seq(S), Untagged(q)
  PROVE  /\ TaggedOnce(p) => TaggedOnce(q \o p)
         /\ ~Untagged(p) => ~Untagged(q \o p)
         /\ \A i \in DOMAIN (q \o p) :
              TagOf((q \o p)[i]) # NoTurn => \E j \in DOMAIN p : (q \o p)[i] = p[j]
         /\ \A type : Holds(p, type) => Holds(q \o p, type)
<1> DEFINE r == q \o p
           n == Len(q)
<1>1. /\ \A j \in DOMAIN q : j \in DOMAIN r /\ r[j] = q[j]
      /\ \A j \in DOMAIN p : j + n \in DOMAIN r /\ r[j + n] = p[j]
      /\ \A i \in DOMAIN r : \/ i \in DOMAIN q
                             \/ i - n \in DOMAIN p /\ r[i] = p[i - n]
      /\ \A i, j \in DOMAIN r : i - n = j - n => i = j
  BY ConcatFacts
<1> HIDE DEF r, n
<1>2. \A i \in DOMAIN r : TagOf(r[i]) # NoTurn => i - n \in DOMAIN p /\ r[i] = p[i - n]
  BY <1>1 DEF Untagged
<1>3. TaggedOnce(p) => TaggedOnce(r)
  <2> SUFFICES ASSUME TaggedOnce(p), NEW i \in DOMAIN r, NEW j \in DOMAIN r,
                      TagOf(r[i]) # NoTurn, TagOf(r[j]) # NoTurn
               PROVE  i = j
    BY DEF TaggedOnce
  <2>1. i - n = j - n
    BY <1>2 DEF TaggedOnce
  <2>2. QED
    BY <1>1, <2>1
<1>4. ~Untagged(p) => ~Untagged(r)
  BY <1>1 DEF Untagged
<1>5. \A i \in DOMAIN r : TagOf(r[i]) # NoTurn => \E j \in DOMAIN p : r[i] = p[j]
  BY <1>2
<1>6. \A type : Holds(p, type) => Holds(r, type)
  BY <1>1 DEF Holds
<1>7. QED
  BY <1>3, <1>4, <1>5, <1>6 DEF r

(* Traces are joined at a view.                                            *)
LEMMA ConcatTrace ==
  ASSUME NEW q \in Seq(Message), NEW p \in Seq(Message), NEW a, NEW b, NEW c, NEW k,
         Trace(q, a, b, k), Trace(p, b, c, k)
  PROVE  Trace(q \o p, a, c, k)
<1>1. PICK f : /\ f[1] = a /\ f[Len(q) + 1] = b
               /\ \A i \in 1..(Len(q) + 1) : Leads(q, i, f[i], b)
               /\ \A i \in 1..Len(q) : Link(q[i], f[i], f[i + 1], k)
  BY DEF Trace
<1>2. PICK g : /\ g[1] = b /\ g[Len(p) + 1] = c
               /\ \A i \in 1..(Len(p) + 1) : Leads(p, i, g[i], c)
               /\ \A i \in 1..Len(p) : Link(p[i], g[i], g[i + 1], k)
  BY DEF Trace
<1> DEFINE n == Len(q)
           m == Len(p)
           r == q \o p
           h == [i \in 1..(n + m + 1) |-> IF i <= n + 1 THEN f[i] ELSE g[i - n]]
<1>3. /\ n \in Nat /\ m \in Nat /\ Len(r) = n + m
      /\ \A i \in 1..(n + m) : r[i] = IF i <= n THEN q[i] ELSE p[i - n]
  BY ConcatProperties, LenProperties
<1>4. \A i \in 1..(n + 1) : i \in 1..(n + m + 1) /\ h[i] = f[i]
  BY <1>3
<1>5. \A j \in 1..(m + 1) : j + n \in 1..(n + m + 1) /\ h[j + n] = g[j]
  <2> SUFFICES ASSUME NEW j \in 1..(m + 1) PROVE j + n \in 1..(n + m + 1) /\ h[j + n] = g[j]
    OBVIOUS
  <2>1. j + n \in 1..(n + m + 1) /\ (j + n) - n = j /\ (j + n <= n + 1 => j = 1)
    BY <1>3
  <2>2. CASE j = 1
    <3>1. h[1 + n] = f[n + 1]
      BY <1>3
    <3>2. QED
      BY <1>1, <1>2, <2>1, <2>2, <3>1
  <2>3. CASE j # 1
    <3>1. ~(j + n <= n + 1)
      BY <2>1, <2>3
    <3>2. QED
      BY <2>1, <3>1
  <2>4. QED
    BY <2>2, <2>3
<1>6. /\ \A i \in 1..n : i \in 1..(n + m) /\ r[i] = q[i]
      /\ \A j \in 1..m : j + n \in 1..(n + m) /\ r[j + n] = p[j]
  <2>1. \A j \in 1..m : j + n \in 1..(n + m) /\ ~(j + n <= n) /\ (j + n) - n = j
    BY <1>3
  <2>2. \A i \in 1..n : i \in 1..(n + m) /\ i <= n
    BY <1>3
  <2>3. QED
    BY <1>3, <2>1, <2>2
<1> HIDE DEF h, r, n, m
<1>7. /\ \A i \in 1..(n + m) : i \in 1..n \/ \E j \in 1..m : i = j + n
      /\ \A i \in 1..(n + m + 1) : i \in 1..(n + 1) \/ \E j \in 1..(m + 1) : i = j + n
  <2>1. \A i \in 1..(n + m) : i \in 1..n \/ (i - n \in 1..m /\ i = (i - n) + n)
    BY <1>3
  <2>2. \A i \in 1..(n + m + 1) : i \in 1..(n + 1) \/ (i - n \in 1..(m + 1) /\ i = (i - n) + n)
    BY <1>3
  <2>3. QED
    BY <2>1, <2>2
<1>8. Leads(p, 1, b, c)
  <2>1. 1 \in 1..(m + 1)
    BY <1>3
  <2>2. QED
    BY <1>2, <2>1 DEF m
<1>9. h[1] = a /\ h[(n + m) + 1] = c
  <2>1. 1 \in 1..(n + 1) /\ m + 1 \in 1..(m + 1) /\ (m + 1) + n = (n + m) + 1
    BY <1>3
  <2>2. g[m + 1] = c
    BY <1>2 DEF m
  <2>3. h[(m + 1) + n] = c
    BY <1>5, <2>1, <2>2
  <2>4. QED
    BY <1>1, <1>4, <2>1, <2>3
<1>10. \A i \in 1..((n + m) + 1) : Leads(r, i, h[i], c)
  <2>1. ASSUME NEW i \in 1..(n + 1) PROVE Leads(r, i, h[i], c)
    <3>1. Leads(q, i, f[i], b) /\ h[i] = f[i]
      BY <1>1, <1>4 DEF n
    <3>2. c.status \in Reach(f[i].status)
      <4>1. /\ b.status \in Reach(f[i].status) /\ c.status \in Reach(b.status)
            /\ f[i] \in View /\ b \in View
        BY <1>8, <3>1 DEF Leads
      <4>2. f[i].status \in Statuses \cup {"gone"} /\ b.status \in Statuses \cup {"gone"}
        BY <4>1 DEF View
      <4>3. c.status \in Statuses \cup {"gone"}
        BY <4>1, <4>2 DEF Reach, Statuses
      <4>4. QED
        BY <4>1, <4>2, <4>3, ReachIsTransitive
    <3>3. ASSUME \A j \in i..(n + m) : r[j].type # "scene" PROVE f[i].seat = c.seat
      <4>1. ASSUME NEW j \in i..n PROVE q[j].type # "scene"
        <5>1. j \in i..(n + m) /\ j \in 1..n
          BY <1>3
        <5>2. QED
          BY <1>6, <3>3, <5>1
      <4>2. ASSUME NEW j \in 1..m PROVE p[j].type # "scene"
        <5>1. j + n \in i..(n + m)
          BY <1>3
        <5>2. QED
          BY <1>6, <3>3, <5>1
      <4>3. f[i].seat = b.seat /\ b.seat = c.seat
        BY <1>8, <3>1, <4>1, <4>2 DEF Leads, n, m
      <4>4. QED
        BY <4>3
    <3>4. QED
      BY <1>3, <3>1, <3>2, <3>3 DEF Leads
  <2>2. ASSUME NEW j \in 1..(m + 1) PROVE Leads(r, j + n, h[j + n], c)
    <3>1. Leads(p, j, g[j], c) /\ h[j + n] = g[j]
      BY <1>2, <1>5 DEF m
    <3>2. ASSUME \A i \in (j + n)..(n + m) : r[i].type # "scene",
                 NEW i \in j..m
          PROVE  p[i].type # "scene"
      <4>1. i + n \in (j + n)..(n + m) /\ i \in 1..m
        BY <1>3
      <4>2. QED
        BY <1>6, <3>2, <4>1
    <3>3. QED
      BY <1>3, <3>1, <3>2 DEF Leads, m
  <2>3. QED
    BY <1>7, <2>1, <2>2
<1>11. \A i \in 1..(n + m) : Link(r[i], h[i], h[i + 1], k)
  <2>1. ASSUME NEW i \in 1..n PROVE Link(r[i], h[i], h[i + 1], k)
    <3>1. i \in 1..(n + 1) /\ i + 1 \in 1..(n + 1)
      BY <1>3
    <3>2. Link(q[i], f[i], f[i + 1], k)
      BY <1>1 DEF n
    <3>3. QED
      BY <1>4, <1>6, <3>1, <3>2
  <2>2. ASSUME NEW j \in 1..m PROVE Link(r[j + n], h[j + n], h[(j + n) + 1], k)
    <3>1. j \in 1..(m + 1) /\ j + 1 \in 1..(m + 1) /\ (j + 1) + n = (j + n) + 1
      BY <1>3
    <3>2. Link(p[j], g[j], g[j + 1], k)
      BY <1>2 DEF m
    <3>3. h[j + n] = g[j] /\ h[(j + 1) + n] = g[j + 1] /\ r[j + n] = p[j]
      BY <1>5, <1>6, <3>1
    <3>4. QED
      BY <3>1, <3>2, <3>3
  <2>3. QED
    BY <1>7, <2>1, <2>2
<1>12. Trace(r, a, c, k)
  BY <1>3, <1>9, <1>10, <1>11 DEF Trace
<1>13. QED
  BY <1>12 DEF r


-----------------------------------------------------------------------------
(* The initial state                                                       *)

(* Nobody is connected, nothing is under way.                              *)
LEMMA InitInv == Init => IInv
<1> SUFFICES ASSUME Init PROVE IInv
  OBVIOUS
<1>1. <<>> \in Seq(0..3) /\ <<>> \in Seq(RequestSet) /\ <<>> \in Seq(Message) /\ Len(<<>>) = 0
  OBVIOUS
<1>2. DOMAIN toServer = {} /\ DOMAIN toRobot = {}
  BY DEF Init
<1>3. Typed
  <2>1. RobotTyped
    BY <1>1 DEF Init, RobotTyped, Statuses
  <2>2. LineTyped
    BY <1>1 DEF Init, LineTyped
  <2>3. ServerTyped
    <3>1. mySeat \in Seats /\ turnNo \in 0..MaxTurns /\ games \in 0..MaxGames
      BY SessionAssumption DEF Init, NoTurn, Seats
    <3>2. {excused, blind, trusted} \subseteq BOOLEAN /\ calls \in Seq(0..3)
      BY <1>1 DEF Init
    <3>3. /\ lord \in Seats \cup {NoSeat} /\ turn \in Seats \cup {NoSeat}
          /\ owed \in LobbyAnswer \cup {NoMsg}
          /\ session \in Sessions /\ place \in Places /\ step \in Steps
      BY DEF Init, Sessions, Places, Steps
    <3>4. QED
      BY <3>1, <3>2, <3>3 DEF ServerTyped
  <2>4. QED
    BY <2>1, <2>2, <2>3 DEF Typed
<1>4. TableFits
  BY <1>1 DEF Init, TableFits, InGame, Rejoining, NoSeat, NoTurn, Seats
<1>5. LineFits /\ Tags /\ Waits /\ Views
  BY <1>2 DEF Init, LineFits, Tags, Waits, Views, AllCurrent, TaggedOnce, Untagged, NoSeat
<1>6. CallIsLegal
  BY DEF Init, CallIsLegal, CallsAreLegal
<1>7. QED
  BY <1>3, <1>4, <1>5, <1>6 DEF IInv, Init

-----------------------------------------------------------------------------
(* The robot reads a message                                               *)

(* The fields of a message.                                                *)
LEMMA MessageFields ==
  ASSUME NEW m \in Message
  PROVE  /\ m.type \in Notices => m.turn \in 0..MaxTurns
         /\ m.type = "deal" => m.header \in Seats
         /\ m.type = "call" => /\ m.score \in 0..3 /\ m.next \in Seats \cup {NoSeat}
                               /\ m.seat \in Seats
         /\ m.type = "takeout" => m.next \in Seats
         /\ m.type \in {"start", "lord", "trust", "keep_ack"} => m.seat \in Seats
         /\ m.type = "keep_ack" => m.lord \in Seats \cup {NoSeat}
         /\ m.type \in {"verify_ack", "init_ack", "keep_ack", "call_ack", "takeout_ack", "cancel_ack"} =>
              m.ok \in BOOLEAN
         /\ m.type = "verify_ack" => m.game \in BOOLEAN
         /\ m.type = "quick_ack" => m.result \in {"ok", "broke", "error"}
         /\ m.type = "cond_ack" => m.result \in {"signed", "allowed", "refused"}
         /\ m.type = "sign_ack" => m.result \in {"ok", "already", "error"}
BY DEF Message, GameNotice, LobbyAnswer, Notices

(* The robot in view a reads its first message and will be in view w.      *)
Reading(a, w, b) ==
  /\ a \in View /\ w \in View /\ b \in View
  /\ IsRobot(a) /\ Expected(b)
  /\ Link(Msg, a, w, Context) /\ Trace(Tail(toRobot), w, b, Context)
  /\ b.status \in Reach(w.status)
  /\ Tail(toRobot) = <<>> => w = b

(* The first message leads on.                                             *)
LEMMA ReadViews ==
  ASSUME IInv, up, toRobot # <<>>
  PROVE  \E a, w, b : Reading(a, w, b)
<1>1. toRobot \in Seq(Message) /\ Tail(toRobot) \in Seq(Message)
  BY DEF IInv, Typed, LineTyped
<1>2. PICK a, b : Trace(toRobot, a, b, Context) /\ IsRobot(a) /\ Expected(b)
  BY DEF IInv, Views
<1>3. PICK w \in View : Link(Msg, a, w, Context) /\ Trace(Tail(toRobot), w, b, Context)
  BY <1>1, <1>2, ReadTrace DEF Msg
<1>4. a \in View /\ b \in View
  BY <1>1, <1>2, TraceEnds
<1>5. b.status \in Reach(w.status)
  BY <1>1, <1>3, TraceEnds
<1>6. ASSUME Tail(toRobot) = <<>> PROVE w = b
  <2>1. Trace(<<>>, w, b, Context)
    BY <1>3, <1>6
  <2>2. QED
    BY <2>1, EmptyTrace
<1>7. Reading(a, w, b)
  BY <1>2, <1>3, <1>4, <1>5, <1>6 DEF Reading
<1>8. QED
  BY <1>7

(* Nothing is expected of a robot without a connection.                    *)
LEMMA ClosedKeeps ==
  ASSUME IInv, Disconnect, RobotTyped', UNCHANGED <<isMatch, failed, lobbyVars, tableVars>>
  PROVE  IInv'
<1>1. toServer' = toServer /\ toRobot' = <<>> /\ delayed' = {} /\ ~up'
  BY DEF Disconnect
<1>2. <<>> \in Seq(Message) /\ DOMAIN (<<>>) = {}
  OBVIOUS
<1>3. Typed' /\ TableFits'
  BY <1>1, <1>2 DEF IInv, Typed, LineTyped, ServerTyped, TableFits, InGame, Rejoining,
                    lobbyVars, tableVars
<1>4. LineFits'
  BY <1>1 DEF IInv, LineFits, OnlyRequest, lobbyVars
<1>5. Tags'
  BY <1>1, <1>2 DEF IInv, Tags, AllCurrent, Current, TaggedOnce, Untagged, tableVars
<1>6. Views' /\ Waits' /\ CallIsLegal' /\ (failed = NoFail)'
  BY <1>1 DEF IInv, Views, Waits, CallIsLegal, CallsAreLegal
<1>7. QED
  BY <1>3, <1>4, <1>5, <1>6 DEF IInv

(* The state after a message that leaves the robot connected.              *)
LEMMA ReadKeeps ==
  ASSUME IInv, NEW a, NEW w, NEW b, Reading(a, w, b), IsRobot(w)', w.status # "gone",
         toRobot' = Tail(toRobot),
         UNCHANGED <<isMatch, up, retired, testing, failed, lobbyVars, tableVars>>,
         LineTyped', LineFits', Tags', Waits', CallIsLegal', Expected(b)'
  PROVE  IInv'
<1>1. RobotTyped'
  BY DEF IInv, Typed, RobotTyped, Reading, View, IsRobot
<1>2. ServerTyped' /\ TableFits'
  BY DEF IInv, Typed, ServerTyped, TableFits, InGame, Rejoining, lobbyVars, tableVars
<1>3. Context' = Context
  BY DEF Context, tableVars
<1>4. Trace(toRobot', w, b, Context')
  BY <1>3 DEF Reading
<1>5. Views'
  BY <1>4 DEF Views
<1>6. QED
  BY <1>1, <1>2, <1>5 DEF IInv, Typed

(* A message that asks for no answer of its turn, and the request it may   *)
(* lead to.                                                                *)
LEMMA PlainRead ==
  ASSUME IInv, toRobot # <<>>, NEW a, NEW w, NEW b, Reading(a, w, b),
         TagOf(Msg) = NoTurn \/ status # "GAMMING",
         NEW type \in Requests \ {"call", "takeout"},
         toServer' \in {toServer, Append(toServer, Request(type, 0, NoTurn))},
         Msg.type = "scene" /\ session # "none" =>
           toServer' = Append(toServer, Request("ready", 0, NoTurn)),
         toRobot' = Tail(toRobot),
         UNCHANGED <<up, delayed, lobbyVars, tableVars>>
  PROVE  LineTyped' /\ Tags' /\ Waits' /\ CallIsLegal'
<1> DEFINE r == Request(type, 0, NoTurn)
<1>1. /\ toRobot \in Seq(Message) /\ toServer \in Seq(RequestSet)
      /\ r \in RequestSet /\ TagOf(r) = NoTurn /\ r.turn = NoTurn /\ r.type = type
  BY SessionAssumption DEF IInv, Typed, LineTyped, Request, RequestSet, TagOf, Notices, NoTurn
<1>2. /\ toServer' \in Seq(RequestSet) /\ toRobot' \in Seq(Message)
      /\ \A i \in DOMAIN toServer : i \in DOMAIN toServer' /\ toServer'[i] = toServer[i]
      /\ \A i \in DOMAIN toServer' : i \in DOMAIN toServer \/ toServer'[i] = r
  <2> HIDE DEF r
  <2>1. toServer' \in {toServer, Append(toServer, r)}
    BY DEF r
  <2>2. toRobot' \in Seq(Message)
    BY <1>1, TailFacts
  <2>3. CASE toServer' = toServer
    BY <1>1, <2>2, <2>3
  <2>4. CASE toServer' = Append(toServer, r)
    <3>1. /\ Append(toServer, r) \in Seq(RequestSet)
          /\ \A j \in DOMAIN toServer :
               j \in DOMAIN Append(toServer, r) /\ Append(toServer, r)[j] = toServer[j]
          /\ Append(toServer, r)[Len(toServer) + 1] = r
          /\ \A j \in DOMAIN Append(toServer, r) : j \in DOMAIN toServer \/ j = Len(toServer) + 1
      BY <1>1, AppendFacts
    <3>2. QED
      BY <2>2, <2>4, <3>1
  <2>5. QED
    BY <2>1, <2>3, <2>4
<1> HIDE DEF r
<1>3. LineTyped'
  BY <1>2 DEF IInv, Typed, LineTyped
<1>4. Untagged(toServer) <=> Untagged(toServer')
  BY <1>1, <1>2 DEF Untagged
<1>5. TaggedOnce(toServer) => TaggedOnce(toServer')
  BY <1>1, <1>2 DEF TaggedOnce
<1>6. \A item : Current(item)' <=> Current(item)
  BY DEF Current, tableVars
<1>7. AllCurrent(toServer) => AllCurrent(toServer)'
  BY <1>1, <1>2, <1>6 DEF AllCurrent
<1>8. /\ AllCurrent(toRobot) => AllCurrent(toRobot)'
      /\ TaggedOnce(toRobot) => TaggedOnce(toRobot')
      /\ Untagged(toRobot) => Untagged(toRobot')
  <2>1. AllCurrent(toRobot) => AllCurrent(Tail(toRobot))
    BY <1>1, TailTags
  <2>2. AllCurrent(Tail(toRobot)) => AllCurrent(toRobot)'
    BY <1>6 DEF AllCurrent
  <2>3. QED
    BY <1>1, <2>1, <2>2, TailTags
<1>9. Tags'
  <2>1. /\ \A i \in DOMAIN toServer' :
            toServer'[i].type \in {"call", "takeout"} => toServer'[i].turn # NoTurn
    BY <1>1, <1>2 DEF IInv, Tags
  <2>2. \A x \in delayed' : Current(x)'
    BY <1>6 DEF IInv, Tags
  <2>3. /\ TaggedOnce(toRobot)' /\ TaggedOnce(toServer)' /\ (\A x, s \in delayed : x = s)'
        /\ (Untagged(toRobot) \/ (delayed = {} /\ Untagged(toServer)))'
        /\ (delayed = {} \/ Untagged(toServer))'
    BY <1>4, <1>5, <1>8 DEF IInv, Tags
  <2>4. AllCurrent(toRobot)' /\ AllCurrent(toServer)'
    BY <1>7, <1>8 DEF IInv, Tags
  <2>5. QED
    BY <2>1, <2>2, <2>3, <2>4 DEF Tags
<1>10. Waits'
  <2>1. ASSUME ~Untagged(toRobot), ~excused PROVE ~Untagged(toRobot)'
    <3>1. TagOf(Msg) = NoTurn
      <4>1. Context.heard
        BY <2>1 DEF Context
      <4>2. a.status = status
        BY DEF Reading, IsRobot
      <4>3. QED
        BY <4>1, <4>2 DEF Reading, Link
    <3>2. QED
      BY <1>1, <2>1, <3>1, TailTags DEF Msg
  <2>2. ASSUME Holds(toRobot, "scene"), session # "none"
        PROVE  Holds(toRobot, "scene")' \/ Holds(toServer, "ready")'
    <3>1. CASE Msg.type = "scene"
      <4>1. toServer' = Append(toServer, Request("ready", 0, NoTurn))
        BY <2>2, <3>1
      <4>2. Request("ready", 0, NoTurn) \in RequestSet
        BY SessionAssumption DEF Request, RequestSet, Requests, NoTurn
      <4>3. Len(toServer) + 1 \in DOMAIN toServer'
            /\ toServer'[Len(toServer) + 1] = Request("ready", 0, NoTurn)
        BY <1>1, <4>1, <4>2, AppendFacts
      <4>4. toServer'[Len(toServer) + 1].type = "ready"
        BY <4>3 DEF Request
      <4>5. QED
        BY <4>3, <4>4 DEF Holds
    <3>2. CASE Msg.type # "scene"
      <4>1. PICK i \in DOMAIN toRobot : toRobot[i].type = "scene"
        BY <2>2 DEF Holds
      <4>2. i # 1
        BY <1>1, <3>2, <4>1, TailFacts DEF Msg
      <4>3. i - 1 \in DOMAIN toRobot' /\ toRobot'[i - 1] = toRobot[i]
        BY <1>1, <4>2, TailFacts
      <4>4. QED
        BY <4>1, <4>3 DEF Holds
    <3>3. QED
      BY <3>1, <3>2
  <2>3. Holds(toServer, "ready") => Holds(toServer, "ready")'
    BY <1>2 DEF Holds
  <2>4. ~excused /\ step = "scene" => session # "none"
    BY DEF IInv, TableFits
  <2>5. QED
    BY <1>4, <2>1, <2>2, <2>3, <2>4 DEF IInv, Waits, tableVars
<1>11. CallIsLegal'
  BY DEF IInv, CallIsLegal, CallsAreLegal, LegalAnswer, LegalScore, MyTurn, tableVars
<1>12. QED
  BY <1>3, <1>9, <1>10, <1>11

(* A notice that gives the robot the turn, answered later.                 *)
LEMMA AnsweredRead ==
  ASSUME IInv, toRobot # <<>>, status = "GAMMING", Msg.type \in Notices, Msg.turn # NoTurn,
         NEW score \in 0..3, NEW type,
         type = (IF Msg.type \in {"deal", "call"} THEN "call" ELSE "takeout"),
         ReplyLater(type, score, Msg.turn), UNCHANGED <<lobbyVars, tableVars>>,
         ~blind /\ type = "call" => LegalScore(score)
  PROVE  LineTyped' /\ Tags' /\ Waits' /\ CallIsLegal'
<1> DEFINE r == Request(type, score, Msg.turn)
<1>1. toRobot \in Seq(Message) /\ Msg \in Message /\ 1 \in DOMAIN toRobot /\ toRobot[1] = Msg
  BY TailFacts DEF IInv, Typed, LineTyped, Msg
<1>2. TagOf(Msg) # NoTurn /\ Msg.turn \in 0..MaxTurns
  BY <1>1, MessageFields DEF TagOf
<1>3. /\ toRobot' = Tail(toRobot) /\ delayed' = delayed \cup {r} /\ toServer' = toServer /\ up' = up
  BY DEF ReplyLater
<1>4. /\ r \in [type : {"call", "takeout"}, score : 0..3, turn : 0..MaxTurns]
      /\ r.turn = Msg.turn /\ r.type = type /\ r.score = score
  BY <1>2 DEF Request
<1>5. /\ ~Untagged(toRobot) /\ delayed = {} /\ Untagged(toServer)
      /\ Current(Msg) /\ Untagged(toRobot)' /\ AllCurrent(toRobot)' /\ TaggedOnce(toRobot)'
  <2>1. ~Untagged(toRobot) /\ Current(Msg)
    BY <1>1, <1>2 DEF Untagged, IInv, Tags, AllCurrent
  <2>2. delayed = {} /\ Untagged(toServer)
    BY <2>1 DEF IInv, Tags
  <2>3. Untagged(toRobot)' /\ TaggedOnce(toRobot)'
    BY <1>1, <1>2, <1>3, TailTags DEF IInv, Tags, Msg
  <2>4. AllCurrent(toRobot)'
    BY <2>3 DEF AllCurrent, Untagged
  <2>5. QED
    BY <2>1, <2>2, <2>3, <2>4
<1> HIDE DEF r
<1>6. LineTyped'
  <2>1. Tail(toRobot) \in Seq(Message)
    BY <1>1, TailFacts
  <2>2. QED
    BY <1>3, <1>4, <1>5, <2>1 DEF IInv, Typed, LineTyped
<1>7. delayed' = {r}
  BY <1>3, <1>5
<1>8. \A item : Current(item)' <=> Current(item)
  BY DEF Current, tableVars
<1>9. Current(r)
  <2>1. type \in {"deal", "call"} <=> Msg.type \in {"deal", "call"}
    OBVIOUS
  <2>2. QED
    BY <1>4, <1>5, <2>1 DEF Current
<1>10. Tags'
  <2>1. AllCurrent(toServer)'
    BY <1>3, <1>5 DEF AllCurrent, Untagged
  <2>2. \A x \in delayed' : Current(x)'
    BY <1>7, <1>8, <1>9
  <2>3. (\A i \in DOMAIN toServer :
           toServer[i].type \in {"call", "takeout"} => toServer[i].turn # NoTurn)'
    BY <1>3 DEF IInv, Tags
  <2>4. TaggedOnce(toServer)' /\ Untagged(toServer)' /\ (\A x, s \in delayed : x = s)'
    BY <1>3, <1>5, <1>7 DEF TaggedOnce, Untagged
  <2>5. QED
    BY <1>5, <2>1, <2>2, <2>3, <2>4 DEF Tags
<1>11. Waits'
  <2>1. (step # "scene")'
    BY <1>5 DEF Current, tableVars
  <2>2. QED
    BY <1>7, <2>1 DEF Waits
<1>12. CallIsLegal'
  <2>1. LegalScore(score)' <=> LegalScore(score)
    BY DEF LegalScore, tableVars
  <2>2. blind' = blind
    BY DEF tableVars
  <2>3. QED
    BY <1>4, <1>7, <2>1, <2>2 DEF CallIsLegal, CallsAreLegal, LegalAnswer
<1>13. QED
  BY <1>6, <1>10, <1>11, <1>12

(* A robot that plays has an initialised session, or none any more.        *)
LEMMA PlaysOn ==
  ASSUME IInv, NEW a, NEW w, NEW b, Reading(a, w, b), up,
         status = "GAMMING", status' = "GAMMING",
         NEW type \in {"ready", "trust_cancel"},
         \/ toServer' = toServer
         \/ session # "none" /\ toServer' = Append(toServer, Request(type, 0, NoTurn)),
         UNCHANGED <<isMatch, up, lobbyVars, tableVars>>
  PROVE  LineFits' /\ Expected(b)'
<1>1. session \in {"none", "inited"}
  BY DEF Reading, Expected, Opening, Verifying, Returning, IInv, Typed, ServerTyped, Sessions
<1>2. \A i \in DOMAIN toServer' : \/ i \in DOMAIN toServer /\ toServer'[i] = toServer[i]
                                  \/ toServer'[i].type \in {"ready", "trust_cancel"}
  <2>1. toServer \in Seq(RequestSet)
    BY DEF IInv, Typed, LineTyped
  <2>2. /\ Request(type, 0, NoTurn) \in RequestSet
        /\ Request(type, 0, NoTurn).type \in {"ready", "trust_cancel"}
    BY SessionAssumption DEF Request, RequestSet, Requests, NoTurn
  <2> DEFINE r == Request(type, 0, NoTurn)
  <2> HIDE DEF r
  <2>3. CASE toServer' = toServer
    BY <2>3
  <2>4. CASE toServer' = Append(toServer, r)
    <3>1. r \in RequestSet /\ r.type \in {"ready", "trust_cancel"}
      BY <2>2 DEF r
    <3>2. QED
      BY <2>1, <2>4, <3>1, AppendFacts
  <2>5. QED
    BY <2>3, <2>4 DEF r
<1>3. LineFits'
  <2>1. session' = session /\ up' = up
    BY DEF lobbyVars
  <2>2. session = "none" => toServer' = <<>>
    BY DEF IInv, LineFits
  <2>3. session = "inited" =>
          \A i \in DOMAIN toServer' : toServer'[i].type \notin {"verify", "init_game", "keep"}
    BY <1>2 DEF IInv, LineFits
  <2>4. QED
    BY <1>1, <2>1, <2>2, <2>3 DEF LineFits
<1>4. ASSUME session = "inited" PROVE Exchange(b)' /\ Player(b)'
  <2>1. Exchange(b) /\ Player(b)
    BY <1>4 DEF Reading, Expected
  <2>2. \A i \in DOMAIN toServer' : toServer'[i].type \in GameRequests
    BY <1>2, <2>1 DEF Exchange, GameRequests
  <2>3. Exchange(b)'
    BY <2>1, <2>2 DEF Exchange, lobbyVars
  <2>4. Player(b)'
    BY <2>1 DEF Player, InTune, InGame, lobbyVars, tableVars
  <2>5. QED
    BY <2>3, <2>4
<1>5. Expected(b)'
  BY <1>1, <1>4 DEF Reading, Expected, lobbyVars, tableVars
<1>6. QED
  BY <1>3, <1>5

(* A message of the game that asks for no answer of its turn.              *)
LEMMA GameRead ==
  ASSUME IInv, NEW a, NEW w, NEW b, Reading(a, w, b), up, toRobot # <<>>,
         status = "GAMMING", TagOf(Msg) = NoTurn, IsRobot(w)', w.status = "GAMMING",
         NEW type \in {"ready", "trust_cancel"}, Accept \/ Reply(type),
         Msg.type = "scene" => Reply("ready") /\ type = "ready",
         UNCHANGED <<fateVars, testing, lobbyVars, tableVars>>
  PROVE  IInv'
<1>1. /\ toRobot' = Tail(toRobot) /\ UNCHANGED <<up, delayed, failed>>
      /\ \/ toServer' = toServer
         \/ session # "none" /\ toServer' = Append(toServer, Request(type, 0, NoTurn))
  BY DEF Accept, Reply
<1>2. Msg.type = "scene" /\ session # "none" =>
        toServer' = Append(toServer, Request("ready", 0, NoTurn))
  BY DEF Reply
<1>3. type \in Requests \ {"call", "takeout"}
  BY DEF Requests
<1>4. LineTyped' /\ Tags' /\ Waits' /\ CallIsLegal'
  BY <1>1, <1>2, <1>3, PlainRead
<1>5. status' = "GAMMING" /\ isMatch' = isMatch /\ retired' = retired
  BY DEF IsRobot, fateVars
<1>6. LineFits' /\ Expected(b)'
  BY <1>1, <1>5, PlaysOn
<1>7. QED
  BY <1>1, <1>4, <1>5, <1>6, ReadKeeps

(* A notice that gives the robot the turn.                                 *)
LEMMA TurnRead ==
  ASSUME IInv, NEW a, NEW w, NEW b, Reading(a, w, b), up, toRobot # <<>>,
         status = "GAMMING", IsRobot(w)', w.status = "GAMMING",
         Msg.type \in Notices, Msg.turn # NoTurn,
         NEW score \in 0..3, NEW type,
         type = (IF Msg.type \in {"deal", "call"} THEN "call" ELSE "takeout"),
         ReplyLater(type, score, Msg.turn),
         ~blind /\ type = "call" => LegalScore(score),
         UNCHANGED <<fateVars, testing, lobbyVars, tableVars>>
  PROVE  IInv'
<1>1. toRobot' = Tail(toRobot) /\ UNCHANGED <<up, toServer, failed>>
  BY DEF ReplyLater
<1>2. LineTyped' /\ Tags' /\ Waits' /\ CallIsLegal'
  BY AnsweredRead
<1>3. status' = "GAMMING" /\ isMatch' = isMatch /\ retired' = retired
  BY DEF IsRobot, fateVars
<1>4. LineFits' /\ Expected(b)'
  BY <1>1, <1>3, PlaysOn
<1>5. QED
  BY <1>1, <1>2, <1>3, <1>4, ReadKeeps

(* A notice of a game the robot is not in.                                 *)
LEMMA IgnoredRead ==
  ASSUME IInv, up, toRobot # <<>>, status # "GAMMING", Msg.type \in Ignored,
         Accept, UNCHANGED <<fateVars, robotVars, lobbyVars, tableVars>>
  PROVE  IInv'
<1>1. PICK a, w, b : Reading(a, w, b)
  BY ReadViews
<1>2. w = a /\ a.status = status /\ w.status # "gone"
  <2>1. a.status = status /\ a.status # "gone" /\ a.status # "GAMMING"
    BY <1>1 DEF Reading, IsRobot, IInv, Typed, RobotTyped, Statuses
  <2>2. QED
    BY <1>1, <2>1 DEF Reading, Link, LobbyLink, SceneLink, OverLink, Ignored, Notices
<1>3. /\ toRobot' = Tail(toRobot) /\ toServer' = toServer
      /\ UNCHANGED <<isMatch, retired, up, testing, failed, delayed, status, needKeepPlay>>
      /\ session' = session /\ owed' = owed /\ mySeat' = mySeat
  BY DEF Accept, fateVars, robotVars, lobbyVars, tableVars
<1>4. IsRobot(w)'
  BY <1>1, <1>2 DEF Reading, IsRobot, robotVars
<1>5. "verify" \in Requests \ {"call", "takeout"} /\ Msg.type # "scene"
  BY DEF Requests, Ignored, Notices
<1>6. LineTyped' /\ Tags' /\ Waits' /\ CallIsLegal'
  BY <1>1, <1>3, <1>5, PlainRead
<1>7. LineFits'
  BY <1>3 DEF IInv, LineFits, OnlyRequest
<1>8. Msg.type \notin {"verify_ack", "init_ack"}
  BY DEF Ignored, Notices
<1>9. ASSUME session = "inited" PROVE Exchange(b)' /\ Player(b)'
  <2>1. Exchange(b) /\ Player(b)
    BY <1>1, <1>9 DEF Reading, Expected
  <2>2. Exchange(b)'
    BY <1>3, <1>8, <2>1 DEF Exchange, InitUnread, SigningUp, Msg
  <2>3. Player(b)'
    BY <1>3, <2>1 DEF Player, InTune, InGame, lobbyVars, tableVars
  <2>4. QED
    BY <2>2, <2>3
<1>10. ASSUME session # "none" PROVE Expected(b)'
  <2>1. session = "open" => Opening(b)'
    BY <1>1, <1>2, <1>3 DEF Reading, Expected, Opening
  <2>2. session \in {"verified", "returning"} => Verifying(b)'
    BY <1>1, <1>2, <1>3, <1>8 DEF Reading, Expected, Verifying, Msg
  <2>3. session = "rejoining" => Returning(b)'
    BY <1>1, <1>3 DEF Reading, Expected, Returning
  <2>4. QED
    BY <1>1, <1>3, <1>9, <1>10, <2>1, <2>2, <2>3 DEF Reading, Expected
<1>11. Expected(b)'
  BY <1>3, <1>10 DEF Expected
<1>12. QED
  BY <1>1, <1>2, <1>3, <1>4, <1>6, <1>7, <1>11, ReadKeeps

(* Which part of a link is the message's.                                  *)
LEMMA LinkKinds ==
  ASSUME IInv, NEW a, NEW w, NEW b, Reading(a, w, b)
  PROVE  /\ a.status = status /\ a.keep = needKeepPlay /\ a.ai = aiSeat
         /\ a.lordSeat = lordSeat /\ a.history = callHistory
         /\ status \in Statuses /\ status # "gone"
         /\ Msg.type # "scene" => w.seat = a.seat
         /\ Msg.type = "scene" => SceneLink(a, w)
         /\ Msg.type \in {"result", "game_over", "match_over"} => OverLink(Msg, a, w, Context)
         /\ Msg.type \notin Ignored \cup {"scene", "result", "game_over", "match_over"} =>
              \/ LobbyLink(Msg, a, w, Context)
              \/ status = "GAMMING" /\ GameLink(Msg, a, w, Context)
         /\ status = "GAMMING" /\ Msg.type \in Ignored \ {"ready_ack"} =>
              GameLink(Msg, a, w, Context)
         /\ Msg.type = "ready_ack" => w = a
<1>1. /\ a.status = status /\ a.keep = needKeepPlay /\ a.ai = aiSeat
      /\ a.lordSeat = lordSeat /\ a.history = callHistory
      /\ status \in Statuses /\ status # "gone" /\ Link(Msg, a, w, Context)
  BY DEF Reading, IsRobot, IInv, Typed, RobotTyped, Statuses
<1>2. Msg.type # "scene" => w.seat = a.seat
  BY <1>1 DEF Link
<1>3. Msg.type = "scene" => SceneLink(a, w)
  BY <1>1 DEF Link, LobbyLink, GameLink, OverLink, Ignored, Notices
<1>4. Msg.type \in {"result", "game_over", "match_over"} => OverLink(Msg, a, w, Context)
  BY <1>1 DEF Link, LobbyLink, GameLink, Ignored, Notices
<1>5. Msg.type \notin Ignored \cup {"scene", "result", "game_over", "match_over"} =>
        \/ LobbyLink(Msg, a, w, Context)
        \/ status = "GAMMING" /\ GameLink(Msg, a, w, Context)
  <2> SUFFICES ASSUME Msg.type \notin Ignored \cup {"scene", "result", "game_over", "match_over"}
               PROVE  \/ LobbyLink(Msg, a, w, Context)
                      \/ status = "GAMMING" /\ GameLink(Msg, a, w, Context)
    OBVIOUS
  <2>1. /\ Msg.type \notin Ignored /\ Msg.type # "scene" /\ Msg.type # "ready_ack"
        /\ ~OverLink(Msg, a, w, Context)
    BY DEF OverLink, Ignored
  <2>2. QED
    BY <1>1, <2>1 DEF Link
<1>6. status = "GAMMING" /\ Msg.type \in Ignored \ {"ready_ack"} =>
        GameLink(Msg, a, w, Context)
  BY <1>1 DEF Link, OverLink, LobbyLink, Ignored, Notices
<1>7. Msg.type = "ready_ack" => w = a
  BY <1>1 DEF Link, LobbyLink, GameLink, OverLink
<1>8. QED
  BY <1>1, <1>2, <1>3, <1>4, <1>5, <1>6, <1>7

(* The sessions a robot can have in each status.                           *)
LEMMA SessionOf ==
  ASSUME IInv, NEW a, NEW w, NEW b, Reading(a, w, b)
  PROVE  /\ status = "INIT" => session \in {"none", "open", "verified", "returning"}
         /\ status = "VERIFIED" => session \in {"none", "verified", "returning", "rejoining", "inited"}
         /\ status = "KEEPPLAY" => session \in {"none", "rejoining", "inited"}
         /\ status \in {"INITGAME", "CANSINGUP", "SIGNUPED", "QUICKGAME", "GAMMING"} =>
              session \in {"none", "inited"}
BY DEF Reading, Expected, Opening, Verifying, Returning, IInv, Typed, ServerTyped, Sessions

(* The server's side of what is expected rests on the server alone.        *)
LEMMA PlayerStays ==
  ASSUME NEW b, UNCHANGED <<isMatch, lobbyVars, tableVars>>
  PROVE  Player(b)' <=> Player(b)
BY DEF Player, InTune, InGame, lobbyVars, tableVars

(* A message on the way into a game.                                       *)
LEMMA LobbyRead ==
  ASSUME IInv, up, toRobot # <<>>, NEW a, NEW w, NEW b, Reading(a, w, b),
         TagOf(Msg) = NoTurn, IsRobot(w)', w.status # "gone",
         NEW type \in Requests \ {"call", "takeout"}, Accept \/ Reply(type),
         Msg.type = "scene" => type = "ready" /\ Reply("ready"),
         UNCHANGED <<fateVars, testing, lobbyVars, tableVars>>, LineFits', Expected(b)'
  PROVE  IInv'
<1>1. /\ toRobot' = Tail(toRobot) /\ UNCHANGED <<up, delayed, failed>>
      /\ toServer' \in {toServer, Append(toServer, Request(type, 0, NoTurn))}
  BY DEF Accept, Reply
<1>2. Msg.type = "scene" /\ session # "none" =>
        toServer' = Append(toServer, Request("ready", 0, NoTurn))
  BY DEF Reply
<1>3. LineTyped' /\ Tags' /\ Waits' /\ CallIsLegal'
  BY <1>1, <1>2, PlainRead
<1>4. isMatch' = isMatch /\ retired' = retired
  BY DEF fateVars
<1>5. QED
  BY <1>1, <1>3, <1>4, ReadKeeps

(* The request of a robot whose line to the server is empty.               *)
LEMMA FirstRequest ==
  ASSUME NEW type, Reply(type), toServer = <<>>, session # "none"
  PROVE  /\ toServer' = <<Request(type, 0, NoTurn)>> /\ toServer' # <<>>
         /\ \A i \in DOMAIN toServer' : toServer'[i].type = type
<1>1. toServer' = Append(<<>>, Request(type, 0, NoTurn))
  BY DEF Reply
<1>2. \A x : Append(<<>>, x) = <<x>> /\ <<x>> # <<>> /\ DOMAIN <<x>> = {1} /\ <<x>>[1] = x
  OBVIOUS
<1>3. toServer'[1].type = type
  BY <1>1, <1>2 DEF Request
<1>4. QED
  BY <1>1, <1>2, <1>3

(* RecvVerifyAck.                                                          *)
LEMMA VerifyAckRead == IInv /\ RecvVerifyAck => IInv'
<1> SUFFICES ASSUME IInv, RecvVerifyAck PROVE IInv'
  OBVIOUS
<1>1. up /\ toRobot # <<>> /\ Msg.type = "verify_ack" /\ UNCHANGED <<lobbyVars, tableVars>>
  BY DEF RecvVerifyAck, Receives
<1>2. PICK a, w, b : Reading(a, w, b)
  BY <1>1, ReadViews
<1>3. status = "INIT" /\ LobbyLink(Msg, a, w, Context)
  BY <1>1, <1>2, LinkKinds DEF LobbyLink, GameLink, Ignored, Notices
<1>4. ASSUME Disconnect, UNCHANGED <<isMatch, failed, retired, needKeepPlay, testing, aiSeat, lordSeat, callHistory>>,
             status' = "INIT"
      PROVE  IInv'
  <2>1. RobotTyped'
    BY <1>4 DEF IInv, Typed, RobotTyped, Disconnect, Statuses
  <2>2. QED
    BY <1>1, <1>4, <2>1, ClosedKeeps
<1>5. CASE ~Msg.ok /\ RefuseMessage
  BY <1>4, <1>5 DEF RefuseMessage, Refuse, fateVars
<1>6. CASE Disconnect /\ UNCHANGED <<fateVars, robotVars, failed>>
  BY <1>3, <1>4, <1>6 DEF fateVars, robotVars
<1>7. CASE /\ Msg.ok /\ Reply("init_game")
           /\ needKeepPlay' = (Msg.game \/ needKeepPlay) /\ status' = "VERIFIED"
           /\ UNCHANGED <<fateVars, testing, aiSeat, lordSeat, callHistory>>
  <2>1. w = [a EXCEPT !.status = "VERIFIED", !.keep = Msg.game \/ a.keep]
    BY <1>1, <1>3, <1>7 DEF LobbyLink
  <2>2. a \in View /\ b \in View /\ IsRobot(a)
    BY <1>2 DEF Reading
  <2>3. w.status = "VERIFIED" /\ IsRobot(w)'
    BY <1>7, <2>1, <2>2 DEF View, IsRobot
  <2>4. delayed' = {} /\ up' /\ toRobot' = Tail(toRobot)
    BY <1>1, <1>3, <1>7 DEF Reply, IInv, LineFits
  <2>5. session # "none" => session \in {"verified", "returning"} /\ toServer = <<>> /\ Tail(toRobot) = <<>> /\ b = w
    BY <1>1, <1>2, <1>3, <2>3, SessionOf DEF Reading, Expected, Opening, Verifying
  <2>6. session # "none" => toServer' = <<Request("init_game", 0, NoTurn)>> /\ toServer' # <<>>
    BY <1>7, <2>5, FirstRequest
  <2>7. LineFits'
    <3>1. session = "none" => toServer' = <<>>
      BY <1>7 DEF Reply, IInv, LineFits
    <3>2. QED
      BY <1>1, <2>4, <2>5, <2>6, <3>1 DEF LineFits, OnlyRequest, lobbyVars
  <2>8. Expected(b)'
    <3>1. session # "none" => b.keep = needKeepPlay' /\ b.keep = (session = "returning")
      BY <1>1, <1>2, <1>3, <2>3, <2>5 DEF Reading, Expected, Verifying, IsRobot
    <3>2. session # "none" => b.seat = mySeat
      BY <1>2 DEF Reading, Expected
    <3>3. QED
      BY <1>1, <1>7, <2>4, <2>5, <2>6, <3>1, <3>2 DEF Expected, Verifying, lobbyVars, tableVars
  <2>9. TagOf(Msg) = NoTurn /\ "init_game" \in Requests \ {"call", "takeout"}
    BY <1>1 DEF TagOf, Notices, Requests
  <2>10. QED
    BY <1>1, <1>2, <1>7, <2>3, <2>7, <2>8, <2>9, LobbyRead
<1>8. QED
  BY <1>3, <1>5, <1>6, <1>7 DEF RecvVerifyAck

(* A handler that closes the connection.                                   *)
LEMMA ClosingRead ==
  ASSUME IInv, Disconnect, status' \in {status, "INIT"},
         \/ UNCHANGED <<aiSeat, lordSeat, callHistory>>
         \/ RbtResetData,
         retired' \in BOOLEAN,
         UNCHANGED <<isMatch, needKeepPlay, testing, failed, lobbyVars, tableVars>>
  PROVE  IInv'
<1>1. RobotTyped'
  <2>1. /\ aiSeat' \in Seats \cup {NoSeat} /\ lordSeat' \in Seats \cup {NoSeat}
        /\ callHistory' \in Seq(0..3)
    <3>1. <<>> \in Seq(0..3)
      OBVIOUS
    <3>2. CASE UNCHANGED <<aiSeat, lordSeat, callHistory>>
      BY <3>2 DEF IInv, Typed, RobotTyped
    <3>3. CASE RbtResetData
      BY <3>1, <3>3 DEF RbtResetData
    <3>4. QED
      BY <3>2, <3>3
  <2>2. {isMatch, up, needKeepPlay, testing, retired}' \subseteq BOOLEAN /\ status' \in Statuses
    BY DEF IInv, Typed, RobotTyped, Disconnect, Statuses
  <2>3. QED
    BY <2>1, <2>2 DEF RobotTyped
<1>2. QED
  BY <1>1, ClosedKeeps

(* So does a robot that refuses a message for its result.                  *)
LEMMA RefusedRead ==
  ASSUME IInv, RefuseMessage, UNCHANGED <<lobbyVars, tableVars>>
  PROVE  IInv'
<1>1. retired \in BOOLEAN
  BY DEF IInv, Typed, RobotTyped
<1>2. QED
  BY <1>1, ClosingRead DEF RefuseMessage, Refuse, fateVars

(* RecvInitGameAck.                                                        *)
LEMMA InitGameAckRead == IInv /\ RecvInitGameAck => IInv'
<1> SUFFICES ASSUME IInv, RecvInitGameAck PROVE IInv'
  OBVIOUS
<1>1. up /\ toRobot # <<>> /\ Msg.type = "init_ack" /\ UNCHANGED <<lobbyVars, tableVars>>
  BY DEF RecvInitGameAck, Receives
<1>2. PICK a, w, b : Reading(a, w, b)
  BY <1>1, ReadViews
<1>3. status = "VERIFIED" /\ LobbyLink(Msg, a, w, Context)
  BY <1>1, <1>2, LinkKinds DEF LobbyLink, GameLink, Ignored, Notices
<1>4. CASE ~Msg.ok /\ RefuseMessage
  BY <1>1, <1>4, RefusedRead
<1>5. CASE /\ Msg.ok
           /\ status' = IF needKeepPlay THEN "KEEPPLAY" ELSE "INITGAME"
           /\ needKeepPlay' = FALSE
           /\ Reply(IF needKeepPlay THEN "keep" ELSE IF isMatch THEN "cond" ELSE "quick")
           /\ UNCHANGED <<fateVars, testing, aiSeat, lordSeat, callHistory>>
  <2> DEFINE type == IF needKeepPlay THEN "keep" ELSE IF isMatch THEN "cond" ELSE "quick"
  <2>1. w = [a EXCEPT !.status = IF a.keep THEN "KEEPPLAY" ELSE "INITGAME", !.keep = FALSE]
    BY <1>1, <1>3, <1>5 DEF LobbyLink
  <2>2. a \in View /\ b \in View /\ IsRobot(a)
    BY <1>2 DEF Reading
  <2>3. w.status = status' /\ w.status # "gone" /\ IsRobot(w)'
    BY <1>5, <2>1, <2>2 DEF View, IsRobot
  <2>4. delayed' = {} /\ up' /\ toRobot' = Tail(toRobot) /\ isMatch' = isMatch
    BY <1>1, <1>3, <1>5 DEF Reply, IInv, LineFits, fateVars
  <2>5. session \in {"none", "rejoining", "inited"}
    BY <1>1, <1>2, <1>3, <2>3, SessionOf DEF Reading, Expected, Verifying
  <2>6. session = "rejoining" => needKeepPlay /\ toServer = <<>> /\ b.status = "KEEPPLAY"
    BY <1>2, <1>3 DEF Reading, Expected, Returning
  <2>7. session = "inited" => InitUnread(b) /\ Player(b)
    BY <1>2, <1>3 DEF Reading, Expected, Exchange
  <2>8. session # "none" =>
          /\ toServer' = <<Request(type, 0, NoTurn)>> /\ toServer' # <<>>
          /\ \A i \in DOMAIN toServer' : toServer'[i].type = type
    BY <1>5, <2>5, <2>6, <2>7, FirstRequest DEF InitUnread
  <2>9. LineFits'
    <3>1. session = "none" => toServer' = <<>>
      BY <1>5 DEF Reply, IInv, LineFits
    <3>2. session = "inited" => type \notin {"verify", "init_game", "keep"}
      BY <2>7 DEF InitUnread
    <3>3. session = "rejoining" => type = "keep"
      BY <2>6
    <3> HIDE DEF type
    <3>4. QED
      BY <1>1, <2>4, <2>5, <2>8, <3>1, <3>2, <3>3 DEF LineFits, OnlyRequest, lobbyVars
  <2>10. ASSUME session = "inited" PROVE Exchange(b)' /\ Player(b)' /\ status' # "INIT"
    <3>1. ~needKeepPlay /\ status' = "INITGAME"
      BY <1>5, <2>7, <2>10 DEF InitUnread
    <3>2. \A i \in DOMAIN Tail(toRobot) : Tail(toRobot)[i].type = "match_over"
      BY <2>7, <2>10 DEF InitUnread, OnlyOver
    <3>3. Asked(b)'
      BY <1>1, <2>4, <2>7, <2>8, <2>10, <3>1, <3>2 DEF Asked, InitUnread, OnlyOver, lobbyVars
    <3>4. (toRobot # <<>> => Head(toRobot).type \notin Ignored)'
      <4> SUFFICES ASSUME Tail(toRobot) # <<>> PROVE Head(Tail(toRobot)).type \notin Ignored
        BY <2>4
      <4>1. Tail(toRobot) \in Seq(Message)
        BY <1>1, TailFacts DEF IInv, Typed, LineTyped
      <4>2. 1 \in DOMAIN Tail(toRobot) /\ Tail(toRobot)[1] = Head(Tail(toRobot))
        BY <4>1, TailFacts
      <4>3. Head(Tail(toRobot)).type = "match_over"
        BY <3>2, <4>2
      <4>4. QED
        BY <4>3 DEF Ignored, Notices
    <3>5. Exchange(b)'
      BY <3>1, <3>3, <3>4 DEF Exchange
    <3>6. Player(b)'
      BY <1>1, <2>4, <2>7, <2>10, PlayerStays
    <3>7. QED
      BY <3>1, <3>5, <3>6
  <2>11. Expected(b)'
    <3>1. session # "none" => b.seat = mySeat
      BY <1>2 DEF Reading, Expected
    <3>2. session = "rejoining" => Returning(b)'
      BY <1>5, <2>6, <2>8 DEF Returning
    <3>3. QED
      BY <1>1, <2>5, <2>10, <3>1, <3>2 DEF Expected, lobbyVars, tableVars
  <2>12. TagOf(Msg) = NoTurn /\ type \in Requests \ {"call", "takeout"}
    BY <1>1 DEF TagOf, Notices, Requests
  <2>13. Reply(type) /\ UNCHANGED <<fateVars, testing>> /\ Msg.type # "scene"
    BY <1>1, <1>5
  <2> HIDE DEF type
  <2>14. QED
    BY <1>1, <1>2, <2>3, <2>9, <2>11, <2>12, <2>13, LobbyRead
<1>6. QED
  BY <1>3, <1>4, <1>5 DEF RecvInitGameAck

(* A message that finds no request of the robot under way, nor an answer   *)
(* owed to one, and leads out of the exchange with the lobby.              *)
LEMMA WaitingRead ==
  ASSUME IInv, up, toRobot # <<>>, NEW a, NEW w, NEW b, Reading(a, w, b),
         status # "GAMMING", w.status \in {"SIGNUPED", "QUICKGAME"}, IsRobot(w)',
         TagOf(Msg) = NoTurn, Msg.type # "scene", Accept,
         session \in {"none", "inited"},
         session = "inited" => toServer = <<>> /\ owed = NoMsg,
         UNCHANGED <<fateVars, testing, lobbyVars, tableVars>>
  PROVE  IInv'
<1>1. /\ status' = w.status /\ isMatch' = isMatch /\ session' = session /\ owed' = owed
      /\ toServer' = toServer /\ up' /\ delayed' = {}
  BY DEF IsRobot, Accept, fateVars, lobbyVars, IInv, LineFits
<1>2. LineFits'
  BY <1>1 DEF LineFits, IInv
<1>3. session = "inited" => Exchange(b)'
  BY <1>1 DEF Exchange
<1>4. session = "inited" => Player(b)'
  BY <1>1, PlayerStays DEF Reading, Expected
<1>5. Expected(b)'
  BY <1>1, <1>3, <1>4 DEF Reading, Expected, tableVars
<1>6. "verify" \in Requests \ {"call", "takeout"}
  BY DEF Requests
<1>7. QED
  BY <1>2, <1>5, <1>6, LobbyRead

(* The first message is one of those under way.                            *)
LEMMA FirstMessage ==
  ASSUME IInv, toRobot # <<>>
  PROVE  /\ Msg \in Message
         /\ OnlyOver(toRobot) => Msg.type = "match_over"
         /\ AnswerFree(toRobot) => Msg.type \notin LobbyAcks
<1>1. Msg \in Message /\ 1 \in DOMAIN toRobot /\ toRobot[1] = Msg
  BY TailFacts DEF IInv, Typed, LineTyped, Msg
<1>2. QED
  BY <1>1 DEF OnlyOver, AnswerFree

(* RecvQuickBeginGameAck.                                                  *)
LEMMA QuickAckRead == IInv /\ RecvQuickBeginGameAck => IInv'
<1> SUFFICES ASSUME IInv, RecvQuickBeginGameAck PROVE IInv'
  OBVIOUS
<1>1. up /\ toRobot # <<>> /\ Msg.type = "quick_ack" /\ UNCHANGED <<lobbyVars, tableVars>>
  BY DEF RecvQuickBeginGameAck, Receives
<1>2. PICK a, w, b : Reading(a, w, b)
  BY <1>1, ReadViews
<1>3. a.status = status /\ IsRobot(a) /\ a \in View
  BY <1>2 DEF Reading, IsRobot
<1>4. TagOf(Msg) = NoTurn
  BY <1>1 DEF TagOf, Notices
<1>5. \/ status = "INITGAME" /\ LobbyLink(Msg, a, w, Context)
      \/ status = "GAMMING" /\ GameLink(Msg, a, w, Context)
  BY <1>1, <1>2, LinkKinds DEF LobbyLink, Ignored, Notices
<1>6. CASE status = "GAMMING" /\ Accept /\ UNCHANGED <<fateVars, robotVars>>
  <2>1. w = a
    BY <1>1, <1>5, <1>6 DEF GameLink
  <2>2. IsRobot(w)' /\ w.status = "GAMMING" /\ UNCHANGED testing
    BY <1>3, <1>6, <2>1 DEF IsRobot, robotVars
  <2>3. QED
    BY <1>1, <1>2, <1>4, <1>6, <2>2, GameRead
<1>7. CASE status = "INITGAME" /\ RefuseMessage
  BY <1>1, <1>7, RefusedRead
<1>8. CASE /\ status = "INITGAME" /\ Disconnect /\ retired' = TRUE
           /\ UNCHANGED <<isMatch, robotVars, failed>>
  BY <1>1, <1>8, ClosingRead DEF robotVars
<1>9. CASE /\ status = "INITGAME" /\ Msg.result = "ok" /\ status' = "QUICKGAME" /\ Accept
           /\ UNCHANGED <<fateVars, needKeepPlay, testing, aiSeat, lordSeat, callHistory>>
  <2>1. w = [a EXCEPT !.status = "QUICKGAME"]
    BY <1>1, <1>5, <1>9 DEF LobbyLink, To
  <2>2. w.status = "QUICKGAME" /\ IsRobot(w)'
    BY <1>3, <1>9, <2>1 DEF View, IsRobot
  <2>3. session \in {"none", "inited"}
    BY <1>2, <1>9, SessionOf
  <2>4. session = "inited" => toServer = <<>> /\ owed = NoMsg
    BY <1>1, <1>2, <1>9, FirstMessage DEF Reading, Expected, Exchange, Asked, AnswerOwed,
       AnswerUnread, LobbyAcks
  <2>5. QED
    BY <1>1, <1>2, <1>4, <1>9, <2>2, <2>3, <2>4, WaitingRead
<1>10. QED
  BY <1>5, <1>6, <1>7, <1>8, <1>9 DEF RecvQuickBeginGameAck

(* RecvQuerySignUpCondAck.                                                 *)
LEMMA CondAckRead == IInv /\ RecvQuerySignUpCondAck => IInv'
<1> SUFFICES ASSUME IInv, RecvQuerySignUpCondAck PROVE IInv'
  OBVIOUS
<1>1. up /\ toRobot # <<>> /\ Msg.type = "cond_ack" /\ UNCHANGED <<lobbyVars, tableVars>>
  BY DEF RecvQuerySignUpCondAck, Receives
<1>2. PICK a, w, b : Reading(a, w, b)
  BY <1>1, ReadViews
<1>3. a.status = status /\ IsRobot(a) /\ a \in View
  BY <1>2 DEF Reading, IsRobot
<1>4. TagOf(Msg) = NoTurn
  BY <1>1 DEF TagOf, Notices
<1>5. status = "INITGAME" /\ LobbyLink(Msg, a, w, Context)
  BY <1>1, <1>2, LinkKinds DEF LobbyLink, GameLink, Ignored, Notices
<1>6. session \in {"none", "inited"}
  BY <1>2, <1>5, SessionOf
<1>7. session = "inited" => AnswerUnread(b) /\ Player(b)
  BY <1>1, <1>2, <1>5, FirstMessage DEF Reading, Expected, Exchange, Asked, AnswerOwed, LobbyAcks
<1>8. CASE RefuseMessage
  BY <1>1, <1>8, RefusedRead
<1>9. CASE /\ Msg.result = "signed" /\ status' = "SIGNUPED" /\ Accept
           /\ UNCHANGED <<fateVars, needKeepPlay, testing, aiSeat, lordSeat, callHistory>>
  <2>1. w = [a EXCEPT !.status = "SIGNUPED"]
    BY <1>1, <1>5, <1>9 DEF LobbyLink, To
  <2>2. w.status = "SIGNUPED" /\ IsRobot(w)'
    BY <1>3, <1>9, <2>1 DEF View, IsRobot
  <2>3. QED
    BY <1>1, <1>2, <1>4, <1>5, <1>6, <1>7, <1>9, <2>2, WaitingRead DEF AnswerUnread
<1>10. CASE /\ Msg.result = "allowed" /\ status' = "CANSINGUP" /\ Reply("sign_up")
            /\ UNCHANGED <<fateVars, needKeepPlay, testing, aiSeat, lordSeat, callHistory>>
  <2>1. w = [a EXCEPT !.status = "CANSINGUP"]
    BY <1>1, <1>5, <1>10 DEF LobbyLink, To
  <2>2. w.status = "CANSINGUP" /\ IsRobot(w)'
    BY <1>3, <1>10, <2>1 DEF View, IsRobot
  <2>3. /\ isMatch' = isMatch /\ session' = session /\ owed' = owed
        /\ up' /\ delayed' = {} /\ toRobot' = Tail(toRobot)
    BY <1>1, <1>5, <1>10 DEF Reply, fateVars, lobbyVars, IInv, LineFits
  <2>4. session = "inited" =>
          /\ Tail(toRobot) = <<>> /\ owed = NoMsg
          /\ toServer' = <<Request("sign_up", 0, NoTurn)>>
          /\ \A i \in DOMAIN toServer' : toServer'[i].type = "sign_up"
    BY <1>1, <1>7, <1>10, FirstRequest DEF AnswerUnread, Msg
  <2>5. LineFits'
    <3>1. session = "none" => toServer' = <<>>
      BY <1>10 DEF Reply, IInv, LineFits
    <3>2. QED
      BY <1>6, <2>3, <2>4, <3>1 DEF LineFits
  <2>6. session = "inited" => Exchange(b)'
    BY <1>10, <2>3, <2>4 DEF Exchange, SigningUp
  <2>7. session = "inited" => Player(b)'
    BY <1>1, <1>7, <2>3, PlayerStays
  <2>8. Expected(b)'
    BY <1>1, <1>2, <1>6, <1>10, <2>3, <2>6, <2>7 DEF Reading, Expected, tableVars
  <2>9. "sign_up" \in Requests \ {"call", "takeout"}
    BY DEF Requests
  <2>10. QED
    BY <1>1, <1>2, <1>4, <1>10, <2>2, <2>5, <2>8, <2>9, LobbyRead
<1>11. QED
  BY <1>5, <1>8, <1>9, <1>10 DEF RecvQuerySignUpCondAck

(* RecvSignUpAck.                                                          *)
LEMMA SignAckRead == IInv /\ RecvSignUpAck => IInv'
<1> SUFFICES ASSUME IInv, RecvSignUpAck PROVE IInv'
  OBVIOUS
<1>1. up /\ toRobot # <<>> /\ Msg.type = "sign_ack" /\ UNCHANGED <<lobbyVars, tableVars>>
  BY DEF RecvSignUpAck, Receives
<1>2. PICK a, w, b : Reading(a, w, b)
  BY <1>1, ReadViews
<1>3. a.status = status /\ IsRobot(a) /\ a \in View
  BY <1>2 DEF Reading, IsRobot
<1>4. TagOf(Msg) = NoTurn
  BY <1>1 DEF TagOf, Notices
<1>5. status = "CANSINGUP" /\ LobbyLink(Msg, a, w, Context)
  BY <1>1, <1>2, LinkKinds DEF LobbyLink, GameLink, Ignored, Notices
<1>6. session \in {"none", "inited"}
  BY <1>2, <1>5, SessionOf
<1>7. session = "inited" => toServer = <<>> /\ owed = NoMsg
  BY <1>1, <1>2, <1>5 DEF Reading, Expected, Exchange, SigningUp
<1>8. CASE RefuseMessage
  BY <1>1, <1>8, RefusedRead
<1>9. CASE /\ Msg.result \in {"ok", "already"} /\ status' = "SIGNUPED" /\ Accept
           /\ UNCHANGED <<fateVars, needKeepPlay, testing, aiSeat, lordSeat, callHistory>>
  <2>1. w = [a EXCEPT !.status = "SIGNUPED"]
    BY <1>1, <1>5, <1>9 DEF LobbyLink, To
  <2>2. w.status = "SIGNUPED" /\ IsRobot(w)'
    BY <1>3, <1>9, <2>1 DEF View, IsRobot
  <2>3. QED
    BY <1>1, <1>2, <1>4, <1>5, <1>6, <1>7, <1>9, <2>2, WaitingRead
<1>10. QED
  BY <1>5, <1>8, <1>9 DEF RecvSignUpAck

(* A message that takes a robot without a request under way into a game.   *)
LEMMA EnteringRead ==
  ASSUME IInv, up, toRobot # <<>>, NEW a, NEW w, NEW b, Reading(a, w, b),
         status # "GAMMING", w.status = "GAMMING", IsRobot(w)', TagOf(Msg) = NoTurn,
         NEW type \in {"ready", "trust_cancel"}, Reply(type),
         Msg.type = "scene" => type = "ready",
         session = "inited" =>
           toServer = <<>> /\ (owed = NoMsg \/ (~isMatch /\ owed.type = "quick_ack")),
         UNCHANGED <<fateVars, testing, lobbyVars, tableVars>>
  PROVE  IInv'
<1>1. /\ status' = "GAMMING" /\ isMatch' = isMatch /\ session' = session /\ owed' = owed
      /\ up'
  BY DEF IsRobot, Reply, fateVars, lobbyVars
<1>2. session \in {"none", "inited"}
  <2>1. a.status = status /\ status \in Statuses
    BY LinkKinds
  <2>2. b.status \in {"GAMMING", "gone"}
    BY DEF Reading, Reach
  <2>3. a.status # "INIT"
    <3>1. w.status \in {"VERIFIED", "INIT", "gone"} \/ a.status # "INIT"
      BY DEF Reading, Link, LobbyLink, SceneLink, OverLink, View
    <3>2. QED
      BY <3>1
  <2>4. a.status = "VERIFIED" => FALSE
    <3>1. w.status \in {"VERIFIED", "KEEPPLAY", "INITGAME", "gone"} \/ a.status # "VERIFIED"
      BY DEF Reading, Link, LobbyLink, SceneLink, OverLink, View
    <3>2. QED
      BY <3>1
  <2>5. session # "rejoining"
    BY <2>2 DEF Reading, Expected, Returning
  <2>6. QED
    BY <2>1, <2>3, <2>4, <2>5, SessionOf DEF Statuses
<1>3. session = "inited" => \A i \in DOMAIN toServer' : toServer'[i].type = type
  BY <1>2, FirstRequest
<1>4. LineFits'
  <2>1. session = "none" => toServer' = <<>>
    BY DEF Reply, IInv, LineFits
  <2>2. QED
    BY <1>1, <1>2, <1>3, <2>1 DEF LineFits
<1>5. session = "inited" => Exchange(b)'
  BY <1>1, <1>3 DEF Exchange, GameRequests
<1>6. session = "inited" => Player(b)'
  BY <1>1, PlayerStays DEF Reading, Expected
<1>7. Expected(b)'
  BY <1>1, <1>2, <1>5, <1>6 DEF Reading, Expected, tableVars
<1>8. type \in Requests \ {"call", "takeout"}
  BY DEF Requests
<1>9. QED
  BY <1>4, <1>7, <1>8, LobbyRead

(* RecvKeepPlayAck.                                                        *)
LEMMA KeepAckRead == IInv /\ RecvKeepPlayAck => IInv'
<1> SUFFICES ASSUME IInv, RecvKeepPlayAck PROVE IInv'
  OBVIOUS
<1>1. up /\ toRobot # <<>> /\ Msg.type = "keep_ack" /\ UNCHANGED <<lobbyVars, tableVars>>
  BY DEF RecvKeepPlayAck, Receives
<1>2. PICK a, w, b : Reading(a, w, b)
  BY <1>1, ReadViews
<1>3. a.status = status /\ IsRobot(a) /\ a \in View
  BY <1>2 DEF Reading, IsRobot
<1>4. TagOf(Msg) = NoTurn
  BY <1>1 DEF TagOf, Notices
<1>5. status = "KEEPPLAY" /\ LobbyLink(Msg, a, w, Context)
  BY <1>1, <1>2, LinkKinds DEF LobbyLink, GameLink, Ignored, Notices
<1>6. w = [a EXCEPT !.status = "GAMMING", !.ai = Msg.seat, !.lordSeat = Msg.lord,
                    !.history = <<>>]
  BY <1>1, <1>5 DEF LobbyLink
<1>7. session = "inited" => toServer = <<>> /\ owed = NoMsg
  BY <1>2, <1>5 DEF Reading, Expected, Exchange
<1>8. CASE RefuseMessage
  BY <1>1, <1>8, RefusedRead
<1>9. CASE /\ status' = "GAMMING" /\ aiSeat' = Msg.seat /\ lordSeat' = Msg.lord
           /\ callHistory' = <<>> /\ Reply("trust_cancel")
           /\ UNCHANGED <<fateVars, needKeepPlay, testing>>
  <2>1. w.status = "GAMMING" /\ IsRobot(w)'
    BY <1>3, <1>6, <1>9 DEF View, IsRobot
  <2>2. QED
    BY <1>1, <1>2, <1>4, <1>5, <1>7, <1>9, <2>1, EnteringRead
<1>10. QED
  BY <1>5, <1>8, <1>9 DEF RecvKeepPlayAck

(* RecvEnterGameSceneNotify.                                               *)
LEMMA SceneRead == IInv /\ RecvEnterGameSceneNotify => IInv'
<1> SUFFICES ASSUME IInv, RecvEnterGameSceneNotify PROVE IInv'
  OBVIOUS
<1>1. up /\ toRobot # <<>> /\ Msg.type = "scene" /\ UNCHANGED <<lobbyVars, tableVars>>
  BY DEF RecvEnterGameSceneNotify, Receives
<1>2. PICK a, w, b : Reading(a, w, b)
  BY <1>1, ReadViews
<1>3. a.status = status /\ IsRobot(a)
  BY <1>2 DEF Reading, IsRobot
<1>4. TagOf(Msg) = NoTurn
  BY <1>1 DEF TagOf, Notices
<1>5. SceneLink(a, w)
  BY <1>1, <1>2, LinkKinds
<1>6. status \in {"SIGNUPED", "QUICKGAME", "GAMMING", "KEEPPLAY", "INITGAME"}
  BY <1>3, <1>5 DEF SceneLink
<1>7. status' = "GAMMING" /\ RbtResetData /\ Reply("ready") /\ UNCHANGED <<fateVars, needKeepPlay, testing>>
  BY <1>6 DEF RecvEnterGameSceneNotify
<1>8. w.status = "GAMMING" /\ IsRobot(w)'
  BY <1>3, <1>5, <1>7 DEF SceneLink, Cleared, IsRobot, RbtResetData
<1>9. CASE status = "GAMMING"
  BY <1>1, <1>2, <1>4, <1>7, <1>8, <1>9, GameRead
<1>10. CASE status # "GAMMING"
  <2>1. session = "inited" =>
          toServer = <<>> /\ (owed = NoMsg \/ (~isMatch /\ owed.type = "quick_ack"))
    BY <1>1, <1>2, <1>6, <1>10, FirstMessage DEF Reading, Expected, Exchange, Asked, AnswerOwed,
       AnswerUnread
  <2>2. QED
    BY <1>1, <1>2, <1>4, <1>7, <1>8, <1>10, <2>1, EnteringRead
<1>11. QED
  BY <1>9, <1>10

(* RecvGameStartNotify.                                                    *)
LEMMA StartRead == IInv /\ RecvGameStartNotify => IInv'
<1> SUFFICES ASSUME IInv, RecvGameStartNotify PROVE IInv'
  OBVIOUS
<1>1. up /\ toRobot # <<>> /\ Msg.type = "start" /\ UNCHANGED <<lobbyVars, tableVars>>
  BY DEF RecvGameStartNotify, Receives
<1>2. PICK a, w, b : Reading(a, w, b)
  BY <1>1, ReadViews
<1>3. IsRobot(a) /\ a \in View
  BY <1>2 DEF Reading
<1>4. TagOf(Msg) = NoTurn
  BY <1>1 DEF TagOf, Notices
<1>5. status = "GAMMING" /\ GameLink(Msg, a, w, Context)
  BY <1>1, <1>2, LinkKinds DEF LobbyLink, Ignored, Notices
<1>6. w = [a EXCEPT !.ai = Msg.seat]
  BY <1>1, <1>5 DEF GameLink
<1>7. aiSeat' = Msg.seat /\ Accept
      /\ UNCHANGED <<fateVars, status, needKeepPlay, testing, lordSeat, callHistory>>
  BY <1>5 DEF RecvGameStartNotify
<1>8. w.status = "GAMMING" /\ IsRobot(w)'
  BY <1>3, <1>5, <1>6, <1>7 DEF View, IsRobot
<1>9. QED
  BY <1>1, <1>2, <1>4, <1>5, <1>7, <1>8, GameRead

(* RecvInitHardCardNotify: the first caller has no call to beat.           *)
LEMMA DealRead == IInv /\ RecvInitHardCardNotify => IInv'
<1> SUFFICES ASSUME IInv, RecvInitHardCardNotify PROVE IInv'
  OBVIOUS
<1>1. up /\ toRobot # <<>> /\ Msg.type = "deal" /\ UNCHANGED <<lobbyVars, tableVars>>
  BY DEF RecvInitHardCardNotify, Receives
<1>2. Msg \in Message /\ Msg.type \in Ignored \ {"ready_ack"} /\ Msg.type \in Notices
      /\ Msg.type \in {"deal", "call"} /\ TagOf(Msg) = Msg.turn
  BY <1>1, FirstMessage DEF Ignored, Notices, TagOf
<1>3. CASE IgnoreNotice
  BY <1>1, <1>2, <1>3, IgnoredRead DEF IgnoreNotice
<1>4. CASE status = "GAMMING"
  <2>1. PICK a, w, b : Reading(a, w, b)
    BY <1>1, ReadViews
  <2>2. IsRobot(a) /\ a \in View /\ GameLink(Msg, a, w, Context)
    BY <1>2, <1>4, <2>1, LinkKinds DEF Reading
  <2>3. /\ w = [a EXCEPT !.lordSeat = NoSeat, !.history = <<>>]
        /\ a.ai = a.seat /\ (Msg.turn # NoTurn <=> Msg.header = a.seat)
        /\ Msg.turn # NoTurn /\ Context.sure => Context.calls = <<>>
    BY <1>1, <2>2 DEF GameLink
  <2>4. aiSeat = a.seat /\ aiSeat # NoSeat
    BY <2>2, <2>3 DEF IsRobot, View, Seats, NoSeat
  <2>5. /\ lordSeat' = NoSeat /\ callHistory' = <<>>
        /\ \/ Msg.header # aiSeat /\ Accept
           \/ /\ Msg.header = aiSeat
              /\ \E score \in {0, 2} : ReplyLater("call", score, Msg.turn)
        /\ UNCHANGED <<fateVars, status, needKeepPlay, testing, aiSeat>>
    BY <1>4, <2>4 DEF RecvInitHardCardNotify, IgnoreNotice
  <2>6. w.status = "GAMMING" /\ IsRobot(w)'
    BY <1>4, <2>2, <2>3, <2>5 DEF View, IsRobot
  <2>7. CASE Msg.header # aiSeat /\ Accept
    <3>1. TagOf(Msg) = NoTurn
      BY <1>2, <2>3, <2>4, <2>7
    <3>2. QED
      BY <1>1, <1>4, <2>1, <2>5, <2>6, <2>7, <3>1, GameRead
  <2>8. CASE /\ Msg.header = aiSeat
             /\ \E score \in {0, 2} : ReplyLater("call", score, Msg.turn)
    <3>1. PICK score \in {0, 2} : ReplyLater("call", score, Msg.turn)
      BY <2>8
    <3>2. Msg.turn # NoTurn
      BY <2>3, <2>4, <2>8
    <3>3. ~blind => LegalScore(score)
      <4>1. Current(Msg)
        BY <1>1, <1>2, <3>2, TailFacts DEF IInv, Typed, LineTyped, Tags, AllCurrent, Msg
      <4>2. step = "call"
        BY <1>1, <4>1 DEF Current
      <4>3. ~blind => calls = <<>>
        BY <2>3, <3>2, <4>2 DEF Context
      <4>4. DOMAIN (<<>>) = {}
        OBVIOUS
      <4>5. QED
        BY <4>3, <4>4 DEF LegalScore
    <3>4. score \in 0..3
      BY <3>1
    <3>5. QED
      BY <1>1, <1>2, <1>4, <2>1, <2>5, <2>6, <3>1, <3>2, <3>3, <3>4, TurnRead
  <2>9. QED
    BY <2>5, <2>7, <2>8
<1>5. QED
  BY <1>3, <1>4 DEF RecvInitHardCardNotify

(* The robot knows the call before its own and, if it is the third to      *)
(* call, the first one by its callHistory.                                 *)
LEMMA ChosenScoreIsLegal ==
  ASSUME IInv, step = "call", turn = mySeat, NEW score \in 0..3, NEW myScore \in {0, 2},
         calls = Append(callHistory, score)
  PROVE  LegalScore(ChosenScore(score, myScore))
<1>1. /\ callHistory \in Seq(0..3) /\ mySeat \in 0..2
      /\ mySeat = Len(calls)
      /\ turn = 2 => calls[2] = 0 \/ calls[2] > calls[1]
  BY DEF IInv, Typed, RobotTyped, ServerTyped, TableFits, Seats
<1>2. /\ Len(callHistory) \in Nat /\ Len(calls) = Len(callHistory) + 1
      /\ calls[Len(callHistory) + 1] = score
      /\ \A i \in 1..Len(callHistory) : calls[i] = callHistory[i] /\ callHistory[i] \in 0..3
      /\ DOMAIN calls = 1..(Len(callHistory) + 1) /\ DOMAIN callHistory = 1..Len(callHistory)
  BY <1>1
<1>3. ChosenScore(score, myScore) = 0 \/ (ChosenScore(score, myScore) = 2 /\ score < 2
                                          /\ (score = 0 => ~(CurScore >= 2)))
  BY DEF ChosenScore
<1>4. SUFFICES ASSUME ChosenScore(score, myScore) = 2, score < 2, score = 0 => ~(CurScore >= 2)
               PROVE  \A i \in DOMAIN calls : 2 > calls[i]
  BY <1>3 DEF LegalScore
<1>5. CASE Len(callHistory) = 0
  <2>1. \A i \in DOMAIN calls : i = 1
    BY <1>2, <1>5
  <2>2. QED
    BY <1>2, <1>4, <1>5, <2>1
<1>6. CASE Len(callHistory) = 1
  <2>1. /\ calls[1] = callHistory[1] /\ calls[2] = score /\ callHistory[1] \in 0..3
        /\ DOMAIN callHistory = {1} /\ \A i \in DOMAIN calls : i = 1 \/ i = 2
    BY <1>2, <1>6
  <2>2. score = 0 \/ score > callHistory[1]
    BY <1>1, <1>2, <1>6, <2>1
  <2>3. CASE score = 0
    <3>1. CASE callHistory[1] > 0
      <4>1. {i \in DOMAIN callHistory : callHistory[i] > 0} = {1}
        BY <2>1, <3>1
      <4>2. (CHOOSE i \in {1} : \A j \in {1} : j <= i) = 1
        OBVIOUS
      <4>3. CurScore = callHistory[1]
        BY <4>1, <4>2 DEF CurScore
      <4>4. QED
        BY <1>4, <2>1, <2>3, <4>3
    <3>2. CASE callHistory[1] = 0
      BY <1>4, <2>1, <2>3, <3>2
    <3>3. QED
      BY <2>1, <3>1, <3>2
  <2>4. CASE score > callHistory[1]
    BY <1>4, <2>1, <2>4
  <2>5. QED
    BY <2>2, <2>3, <2>4
<1>7. QED
  BY <1>1, <1>2, <1>5, <1>6

(* RecvUserCallScoreNotify.                                                *)
LEMMA CallRead == IInv /\ RecvUserCallScoreNotify => IInv'
<1> SUFFICES ASSUME IInv, RecvUserCallScoreNotify PROVE IInv'
  OBVIOUS
<1>1. up /\ toRobot # <<>> /\ Msg.type = "call" /\ UNCHANGED <<lobbyVars, tableVars>>
  BY DEF RecvUserCallScoreNotify, Receives
<1>2. /\ Msg \in Message /\ Msg.type \in Ignored \ {"ready_ack"} /\ Msg.type \in Notices
      /\ Msg.type \in {"deal", "call"} /\ TagOf(Msg) = Msg.turn
  BY <1>1, FirstMessage DEF Ignored, Notices, TagOf
<1>3. CASE IgnoreNotice
  BY <1>1, <1>2, <1>3, IgnoredRead DEF IgnoreNotice
<1>4. CASE status = "GAMMING"
  <2>1. PICK a, w, b : Reading(a, w, b)
    BY <1>1, ReadViews
  <2>2. IsRobot(a) /\ a \in View /\ GameLink(Msg, a, w, Context)
    BY <1>2, <1>4, <2>1, LinkKinds DEF Reading
  <2>3. /\ w = IF Msg.next \in {NoSeat, a.ai} THEN a
               ELSE [a EXCEPT !.history = Append(a.history, Msg.score)]
        /\ a.ai = a.seat /\ (Msg.turn # NoTurn <=> Msg.next = a.seat)
        /\ Msg.turn # NoTurn /\ Context.sure => Append(a.history, Msg.score) = Context.calls
    BY <1>1, <2>2 DEF GameLink
  <2>4. aiSeat = a.seat /\ aiSeat # NoSeat /\ a.history = callHistory /\ a.ai = aiSeat
    BY <2>2, <2>3 DEF IsRobot, View, Seats, NoSeat
  <2>5. /\ \/ Msg.next = NoSeat /\ Accept /\ UNCHANGED callHistory
           \/ /\ Msg.next \notin {NoSeat, aiSeat}
              /\ Accept
              /\ callHistory' = Append(callHistory, Msg.score)
           \/ /\ Msg.next # NoSeat /\ Msg.next = aiSeat
              /\ \E myScore \in {0, 2} :
                   ReplyLater("call", ChosenScore(Msg.score, myScore), Msg.turn)
              /\ UNCHANGED callHistory
        /\ UNCHANGED <<fateVars, status, needKeepPlay, testing, aiSeat, lordSeat>>
    BY <1>4 DEF RecvUserCallScoreNotify, IgnoreNotice
  <2>6. w.status = "GAMMING" /\ IsRobot(w)'
    <3>1. CASE Msg.next \in {NoSeat, aiSeat}
      <4>1. w = a /\ callHistory' = callHistory
        BY <2>3, <2>4, <2>5, <3>1
      <4>2. QED
        BY <1>4, <2>2, <2>5, <4>1 DEF IsRobot
    <3>2. CASE Msg.next \notin {NoSeat, aiSeat}
      <4>1. /\ w = [a EXCEPT !.history = Append(callHistory, Msg.score)]
            /\ callHistory' = Append(callHistory, Msg.score)
        BY <2>3, <2>4, <2>5, <3>2
      <4>2. QED
        BY <1>4, <2>2, <2>5, <4>1 DEF IsRobot, View
    <3>3. QED
      BY <3>1, <3>2
  <2>7. CASE Msg.next # aiSeat /\ Accept
    <3>1. TagOf(Msg) = NoTurn
      BY <1>2, <2>3, <2>4, <2>7
    <3>2. QED
      BY <1>1, <1>4, <2>1, <2>5, <2>6, <2>7, <3>1, GameRead
  <2>8. CASE /\ Msg.next = aiSeat
             /\ \E myScore \in {0, 2} :
                  ReplyLater("call", ChosenScore(Msg.score, myScore), Msg.turn)
    <3>1. PICK myScore \in {0, 2} :
            ReplyLater("call", ChosenScore(Msg.score, myScore), Msg.turn)
      BY <2>8
    <3> DEFINE score == ChosenScore(Msg.score, myScore)
    <3>2. Msg.turn # NoTurn
      BY <2>3, <2>4, <2>8
    <3>3. ~blind => LegalScore(score)
      <4>1. Current(Msg)
        BY <1>1, <1>2, <3>2, TailFacts DEF IInv, Typed, LineTyped, Tags, AllCurrent, Msg
      <4>2. step = "call" /\ turn = mySeat
        BY <1>1, <4>1 DEF Current
      <4>3. ~blind => calls = Append(callHistory, Msg.score)
        BY <2>3, <2>4, <3>2, <4>2 DEF Context
      <4>4. Msg.score \in 0..3
        BY <1>1, <1>2, MessageFields
      <4>5. QED
        BY <4>2, <4>3, <4>4, ChosenScoreIsLegal
    <3>4. score \in 0..3
      BY DEF ChosenScore
    <3>5. ReplyLater("call", score, Msg.turn)
      BY <3>1
    <3> HIDE DEF score
    <3>6. QED
      BY <1>1, <1>2, <1>4, <2>1, <2>5, <2>6, <3>2, <3>3, <3>4, <3>5, TurnRead
  <2>9. QED
    BY <2>4, <2>5, <2>7, <2>8
<1>5. QED
  BY <1>3, <1>4 DEF RecvUserCallScoreNotify

(* RecvGetLordNotify.                                                      *)
LEMMA LordRead == IInv /\ RecvGetLordNotify => IInv'
<1> SUFFICES ASSUME IInv, RecvGetLordNotify PROVE IInv'
  OBVIOUS
<1>1. up /\ toRobot # <<>> /\ Msg.type = "lord" /\ UNCHANGED <<lobbyVars, tableVars>>
  BY DEF RecvGetLordNotify, Receives
<1>2. Msg.type \in Ignored \ {"ready_ack"} /\ TagOf(Msg) = NoTurn
  BY <1>1 DEF Ignored, Notices, TagOf
<1>3. CASE IgnoreNotice
  BY <1>1, <1>2, <1>3, IgnoredRead DEF IgnoreNotice
<1>4. CASE /\ status = "GAMMING" /\ lordSeat' = Msg.seat /\ Accept
           /\ UNCHANGED <<fateVars, status, needKeepPlay, testing, aiSeat, callHistory>>
  <2>1. PICK a, w, b : Reading(a, w, b)
    BY <1>1, ReadViews
  <2>2. IsRobot(a) /\ a \in View /\ GameLink(Msg, a, w, Context)
    BY <1>2, <1>4, <2>1, LinkKinds DEF Reading
  <2>3. w = [a EXCEPT !.lordSeat = Msg.seat]
    BY <1>1, <2>2 DEF GameLink
  <2>4. w.status = "GAMMING" /\ IsRobot(w)'
    BY <1>4, <2>2, <2>3 DEF View, IsRobot
  <2>5. QED
    BY <1>1, <1>2, <1>4, <2>1, <2>4, GameRead
<1>5. QED
  BY <1>3, <1>4 DEF RecvGetLordNotify

(* A notice that only tells whether the robot is to play.                  *)
LEMMA PlayNoticeRead ==
  ASSUME IInv, up, toRobot # <<>>, status = "GAMMING", Msg.type \in {"base", "takeout"},
         NEW mine \in BOOLEAN,
         mine <=> IF Msg.type = "base" THEN lordSeat = aiSeat ELSE Msg.next = aiSeat,
         \/ ~mine /\ Accept
         \/ mine /\ ReplyLater("takeout", 0, Msg.turn),
         UNCHANGED <<fateVars, robotVars, lobbyVars, tableVars>>
  PROVE  IInv'
<1>1. PICK a, w, b : Reading(a, w, b)
  BY ReadViews
<1>2. Msg.type \in Ignored \ {"ready_ack"} /\ Msg.type \in Notices /\ TagOf(Msg) = Msg.turn
  BY DEF Ignored, Notices, TagOf
<1>3. IsRobot(a) /\ GameLink(Msg, a, w, Context)
  BY <1>1, <1>2, LinkKinds DEF Reading
<1>4. w = a /\ a.ai = a.seat /\ (Msg.turn # NoTurn <=> mine)
  BY <1>3 DEF GameLink, IsRobot
<1>5. w.status = "GAMMING" /\ IsRobot(w)' /\ UNCHANGED testing
  BY <1>3, <1>4 DEF IsRobot, robotVars
<1>6. CASE ~mine /\ Accept
  <2>1. TagOf(Msg) = NoTurn /\ Msg.type # "scene"
    BY <1>2, <1>4, <1>6
  <2>2. QED
    BY <1>1, <1>5, <1>6, <2>1, GameRead
<1>7. CASE mine /\ ReplyLater("takeout", 0, Msg.turn)
  <2>1. Msg.turn # NoTurn
    BY <1>4, <1>7
  <2>2. 0 \in 0..3 /\ "takeout" = IF Msg.type \in {"deal", "call"} THEN "call" ELSE "takeout"
    OBVIOUS
  <2>3. QED
    BY <1>1, <1>2, <1>5, <1>7, <2>1, <2>2, TurnRead
<1>8. QED
  BY <1>6, <1>7

(* RecvGetBaseCardNotify.                                                  *)
LEMMA BaseRead == IInv /\ RecvGetBaseCardNotify => IInv'
<1> SUFFICES ASSUME IInv, RecvGetBaseCardNotify PROVE IInv'
  OBVIOUS
<1>1. up /\ toRobot # <<>> /\ Msg.type = "base" /\ UNCHANGED <<lobbyVars, tableVars>>
  BY DEF RecvGetBaseCardNotify, Receives
<1>2. CASE IgnoreNotice
  BY <1>1, <1>2, IgnoredRead DEF IgnoreNotice, Ignored, Notices
<1>3. CASE /\ status = "GAMMING"
           /\ \/ lordSeat # aiSeat /\ Accept
              \/ lordSeat = aiSeat /\ ReplyLater("takeout", 0, Msg.turn)
           /\ UNCHANGED <<fateVars, robotVars>>
  <2> DEFINE mine == lordSeat = aiSeat
  <2>1. /\ mine \in BOOLEAN
        /\ mine <=> IF Msg.type = "base" THEN lordSeat = aiSeat ELSE Msg.next = aiSeat
        /\ \/ ~mine /\ Accept
           \/ mine /\ ReplyLater("takeout", 0, Msg.turn)
    BY <1>1, <1>3
  <2> HIDE DEF mine
  <2>2. QED
    BY <1>1, <1>3, <2>1, PlayNoticeRead
<1>4. QED
  BY <1>2, <1>3 DEF RecvGetBaseCardNotify

(* RecvGetTakeOutCardNotify.                                               *)
LEMMA TakeOutRead == IInv /\ RecvGetTakeOutCardNotify => IInv'
<1> SUFFICES ASSUME IInv, RecvGetTakeOutCardNotify PROVE IInv'
  OBVIOUS
<1>1. up /\ toRobot # <<>> /\ Msg.type = "takeout" /\ UNCHANGED <<lobbyVars, tableVars>>
  BY DEF RecvGetTakeOutCardNotify, Receives
<1>2. CASE IgnoreNotice
  BY <1>1, <1>2, IgnoredRead DEF IgnoreNotice, Ignored, Notices
<1>3. CASE /\ status = "GAMMING"
           /\ \/ Msg.next # aiSeat /\ Accept
              \/ Msg.next = aiSeat /\ ReplyLater("takeout", 0, Msg.turn)
           /\ UNCHANGED <<fateVars, robotVars>>
  <2> DEFINE mine == Msg.next = aiSeat
  <2>1. /\ mine \in BOOLEAN
        /\ mine <=> IF Msg.type = "base" THEN lordSeat = aiSeat ELSE Msg.next = aiSeat
        /\ \/ ~mine /\ Accept
           \/ mine /\ ReplyLater("takeout", 0, Msg.turn)
    BY <1>1, <1>3
  <2> HIDE DEF mine
  <2>2. QED
    BY <1>1, <1>3, <2>1, PlayNoticeRead
<1>4. QED
  BY <1>2, <1>3 DEF RecvGetTakeOutCardNotify

(* RecvGetTrustNotify.                                                     *)
LEMMA TrustRead == IInv /\ RecvGetTrustNotify => IInv'
<1> SUFFICES ASSUME IInv, RecvGetTrustNotify PROVE IInv'
  OBVIOUS
<1>1. up /\ toRobot # <<>> /\ Msg.type = "trust" /\ UNCHANGED <<lobbyVars, tableVars>>
  BY DEF RecvGetTrustNotify, Receives
<1>2. Msg.type \in Ignored \ {"ready_ack"} /\ TagOf(Msg) = NoTurn
  BY <1>1 DEF Ignored, Notices, TagOf
<1>3. CASE IgnoreNotice
  BY <1>1, <1>2, <1>3, IgnoredRead DEF IgnoreNotice
<1>4. CASE /\ status = "GAMMING" /\ (Accept \/ Reply("trust_cancel"))
           /\ UNCHANGED <<fateVars, robotVars>>
  <2>1. PICK a, w, b : Reading(a, w, b)
    BY <1>1, ReadViews
  <2>2. IsRobot(a) /\ GameLink(Msg, a, w, Context)
    BY <1>2, <1>4, <2>1, LinkKinds DEF Reading
  <2>3. w = a
    BY <1>1, <2>2 DEF GameLink
  <2>4. w.status = "GAMMING" /\ IsRobot(w)' /\ UNCHANGED testing
    BY <1>4, <2>2, <2>3 DEF IsRobot, robotVars
  <2>5. QED
    BY <1>1, <1>2, <1>4, <2>1, <2>4, GameRead
<1>5. QED
  BY <1>3, <1>4 DEF RecvGetTrustNotify

(* RecvReadyForGameAck.                                                    *)
LEMMA ReadyAckRead == IInv /\ RecvReadyForGameAck => IInv'
<1> SUFFICES ASSUME IInv, RecvReadyForGameAck PROVE IInv'
  OBVIOUS
<1>1. /\ up /\ toRobot # <<>> /\ Msg.type = "ready_ack" /\ Accept
      /\ UNCHANGED <<fateVars, robotVars, lobbyVars, tableVars>>
  BY DEF RecvReadyForGameAck, Receives
<1>2. Msg.type \in Ignored /\ TagOf(Msg) = NoTurn
  BY <1>1 DEF Ignored, Notices, TagOf
<1>3. CASE status # "GAMMING"
  BY <1>1, <1>2, <1>3, IgnoredRead
<1>4. CASE status = "GAMMING"
  <2>1. PICK a, w, b : Reading(a, w, b)
    BY <1>1, ReadViews
  <2>2. IsRobot(a) /\ w = a
    BY <1>1, <2>1, LinkKinds DEF Reading
  <2>3. w.status = "GAMMING" /\ IsRobot(w)' /\ UNCHANGED testing
    BY <1>1, <1>4, <2>2 DEF IsRobot, robotVars
  <2>4. QED
    BY <1>1, <1>2, <1>4, <2>1, <2>3, GameRead
<1>5. QED
  BY <1>3, <1>4

(* RecvCallScoreAck, RecvTakeOutCardAck, RecvTrustCancelAck.               *)
LEMMA GameAckRead ==
  ASSUME IInv, NEW type \in {"call_ack", "takeout_ack", "cancel_ack"}, RecvGameAck(type)
  PROVE  IInv'
<1>1. up /\ toRobot # <<>> /\ Msg.type = type /\ UNCHANGED <<lobbyVars, tableVars>>
  BY DEF RecvGameAck, Receives
<1>2. PICK a, w, b : Reading(a, w, b)
  BY <1>1, ReadViews
<1>3. status = "GAMMING" /\ GameLink(Msg, a, w, Context) /\ IsRobot(a)
  BY <1>1, <1>2, LinkKinds DEF LobbyLink, Ignored, Notices, Reading
<1>4. TagOf(Msg) = NoTurn
  BY <1>1 DEF TagOf, Notices
<1>5. w = a
  BY <1>1, <1>3 DEF GameLink
<1>6. Accept /\ UNCHANGED <<fateVars, robotVars>>
  BY <1>3 DEF RecvGameAck
<1>7. w.status = "GAMMING" /\ IsRobot(w)' /\ UNCHANGED testing
  BY <1>3, <1>5, <1>6 DEF IsRobot, robotVars
<1>8. QED
  BY <1>1, <1>2, <1>3, <1>4, <1>6, <1>7, GameRead

(* RecvGetGameResultNotify: the end of a game of a match.                  *)
LEMMA ResultRead == IInv /\ RecvGetGameResultNotify => IInv'
<1> SUFFICES ASSUME IInv, RecvGetGameResultNotify PROVE IInv'
  OBVIOUS
<1>1. /\ up /\ toRobot # <<>> /\ Msg.type = "result"
      /\ UNCHANGED <<fateVars, needKeepPlay, testing, lobbyVars, tableVars>>
  BY DEF RecvGetGameResultNotify, Receives
<1>2. CASE ~isMatch /\ LeaveGame
  <2>1. retired' \in BOOLEAN /\ isMatch' = isMatch
    BY <1>1 DEF fateVars, IInv, Typed, RobotTyped
  <2>2. QED
    BY <1>1, <1>2, <2>1, ClosingRead DEF LeaveGame
<1>3. CASE isMatch /\ RbtResetData /\ status' = "GAMMING" /\ Accept
  <2>1. PICK a, w, b : Reading(a, w, b)
    BY <1>1, ReadViews
  <2>2. Context.match
    BY <1>3 DEF Context
  <2>3. IsRobot(a) /\ a.status = "GAMMING" /\ Cleared(a, w)
    BY <1>1, <2>1, <2>2, LinkKinds DEF OverLink, Reading
  <2>4. status = "GAMMING" /\ w.status = "GAMMING" /\ IsRobot(w)'
    BY <1>1, <1>3, <2>3 DEF IsRobot, Cleared, RbtResetData
  <2>5. TagOf(Msg) = NoTurn
    BY <1>1 DEF TagOf, Notices
  <2>6. QED
    BY <1>1, <1>3, <2>1, <2>4, <2>5, GameRead
<1>4. QED
  BY <1>2, <1>3 DEF RecvGetGameResultNotify

(* RecvGetGameOverNotify, RecvGetCompetitionOverNotify.                    *)
LEMMA OverRead ==
  ASSUME IInv, NEW type, RecvOverNotify(type)
  PROVE  IInv'
<1>1. retired' \in BOOLEAN /\ isMatch' = isMatch
  BY DEF RecvOverNotify, fateVars, IInv, Typed, RobotTyped
<1>2. QED
  BY <1>1, ClosingRead DEF RecvOverNotify, LeaveGame

(* Every handler keeps the invariant.                                      *)
LEMMA RecvKeeps == IInv /\ Recv => IInv'
<1>1. IInv /\ RecvGameAck("call_ack") => IInv'
  BY GameAckRead
<1>2. IInv /\ RecvGameAck("takeout_ack") => IInv'
  BY GameAckRead
<1>3. IInv /\ RecvGameAck("cancel_ack") => IInv'
  BY GameAckRead
<1>4. IInv /\ (RecvOverNotify("game_over") \/ RecvOverNotify("match_over")) => IInv'
  BY OverRead
<1>5. QED
  BY <1>1, <1>2, <1>3, <1>4, VerifyAckRead, InitGameAckRead, QuickAckRead, CondAckRead, SignAckRead,
     KeepAckRead, SceneRead, StartRead, DealRead, CallRead, LordRead, BaseRead, TakeOutRead,
     TrustRead, ReadyAckRead, ResultRead
     DEF Recv, RecvCallScoreAck, RecvTakeOutCardAck, RecvTrustCancelAck,
         RecvGetGameOverNotify, RecvGetCompetitionOverNotify

-----------------------------------------------------------------------------
(* The robot without a message                                             *)

(* The requests of an extended line.                                       *)
LEMMA AppendHolds ==
  ASSUME NEW S, NEW q \in Seq(S), NEW m \in S, NEW type
  PROVE  Holds(q, type) => Holds(Append(q, m), type)
BY AppendFacts DEF Holds

(* DelaySendMsgTimer: the answer of the turn moves from the timer to the   *)
(* line.                                                                   *)
LEMMA TimerKeeps == IInv /\ DelaySendMsgTimer => IInv'
<1> SUFFICES ASSUME IInv, DelaySendMsgTimer PROVE IInv'
  OBVIOUS
<1>1. PICK r \in delayed :
        /\ delayed' = delayed \ {r}
        /\ toServer' = IF session = "none" THEN toServer ELSE Append(toServer, r)
        /\ UNCHANGED <<isMatch, retired, robotVars, up, toRobot, failed, lobbyVars, tableVars>>
  BY DEF DelaySendMsgTimer
<1>2. /\ r \in RequestSet /\ r.type \in {"call", "takeout"} /\ r.turn # NoTurn
      /\ TagOf(r) = r.turn /\ Current(r) /\ toServer \in Seq(RequestSet)
  BY <1>1 DEF IInv, Typed, LineTyped, RequestSet, Requests, TagOf, Notices, Tags, Current
<1>3. delayed' = {} /\ Untagged(toRobot) /\ Untagged(toServer) /\ up /\ status = "GAMMING"
  BY <1>1 DEF IInv, Tags, LineFits
<1>4. CASE session = "none"
  <2>1. toServer' = toServer
    BY <1>1, <1>4
  <2>2. ~(~excused /\ (turn = mySeat \/ step = "scene"))
    BY <1>4 DEF IInv, TableFits
  <2>3. Typed' /\ TableFits' /\ LineFits'
    BY <1>1, <1>3, <2>1 DEF IInv, Typed, RobotTyped, LineTyped, ServerTyped, TableFits, InGame,
         Rejoining, LineFits, OnlyRequest, lobbyVars, tableVars, robotVars
  <2>4. Tags'
    BY <1>1, <1>3, <2>1 DEF IInv, Tags, AllCurrent, Current, TaggedOnce, Untagged, tableVars
  <2>5. Waits' /\ CallIsLegal' /\ (failed = NoFail)'
    BY <1>1, <1>3, <2>2 DEF IInv, Waits, CallIsLegal, CallsAreLegal, tableVars
  <2>6. Views'
    <3>1. Context' = Context
      BY <1>1 DEF Context, tableVars
    <3>2. PICK a, b : Trace(toRobot, a, b, Context) /\ IsRobot(a) /\ Expected(b)
      BY <1>3 DEF IInv, Views
    <3>3. Trace(toRobot', a, b, Context') /\ IsRobot(a)' /\ Expected(b)'
      BY <1>1, <1>4, <3>1, <3>2 DEF IsRobot, Expected, robotVars, lobbyVars
    <3>4. QED
      BY <3>3 DEF Views
  <2>7. QED
    BY <2>3, <2>4, <2>5, <2>6 DEF IInv
<1>5. CASE session # "none"
  <2> DEFINE q == Append(toServer, r)
  <2>1. /\ toServer' = q /\ q \in Seq(RequestSet)
        /\ \A j \in DOMAIN q : (j \in DOMAIN toServer /\ q[j] = toServer[j]) \/ q[j] = r
    BY <1>1, <1>2, <1>5, AppendFacts
  <2>2. /\ TaggedOnce(q) /\ ~Untagged(q)
        /\ AllCurrent(toServer) => AllCurrent(q)
        /\ \A type : Holds(toServer, type) => Holds(q, type)
    BY <1>2, <1>3, AppendTags, AppendHolds
  <2> HIDE DEF q
  <2>3. PICK a, b : Trace(toRobot, a, b, Context) /\ IsRobot(a) /\ Expected(b)
    BY <1>3 DEF IInv, Views
  <2>4. session = "inited" /\ Exchange(b) /\ Player(b) /\ b.seat = mySeat
    BY <1>3, <1>5, <2>3 DEF Expected, Opening, Verifying, Returning, IInv, Typed, ServerTyped,
                            Sessions
  <2>5. Typed' /\ TableFits'
    <3>1. RobotTyped' /\ ServerTyped'
      BY <1>1 DEF IInv, Typed, RobotTyped, ServerTyped, lobbyVars, tableVars, robotVars
    <3>2. LineTyped'
      BY <1>1, <1>3, <2>1 DEF IInv, Typed, LineTyped
    <3>3. TableFits'
      BY <1>1 DEF IInv, TableFits, InGame, Rejoining, lobbyVars, tableVars
    <3>4. QED
      BY <3>1, <3>2, <3>3 DEF Typed
  <2>6. LineFits'
    <3>1. \A i \in DOMAIN q : q[i].type \notin {"verify", "init_game", "keep"}
      BY <1>2, <2>1, <2>4 DEF IInv, LineFits
    <3>2. up' /\ session' = "inited" /\ delayed' = {} /\ toServer' = q
      BY <1>1, <1>3, <2>1, <2>4 DEF lobbyVars
    <3>3. QED
      BY <3>1, <3>2 DEF LineFits
  <2>7. Tags'
    <3>1. \A item : Current(item)' <=> Current(item)
      BY <1>1 DEF Current, tableVars
    <3>2. AllCurrent(toRobot)' /\ AllCurrent(toServer)'
      <4>1. AllCurrent(q) /\ AllCurrent(toRobot)
        BY <2>2 DEF IInv, Tags
      <4>2. QED
        BY <1>1, <2>1, <3>1, <4>1 DEF AllCurrent
    <3>3. \A i \in DOMAIN q : q[i].type \in {"call", "takeout"} => q[i].turn # NoTurn
      BY <1>2, <2>1 DEF IInv, Tags
    <3>4. TaggedOnce(toRobot)' /\ Untagged(toRobot)' /\ TaggedOnce(toServer)'
      BY <1>1, <1>3, <2>1, <2>2 DEF IInv, Tags
    <3>5. QED
      BY <1>3, <2>1, <3>2, <3>3, <3>4 DEF Tags
  <2>8. Waits' /\ CallIsLegal' /\ (failed = NoFail)'
    <3>1. Waits'
      BY <1>1, <2>1, <2>2 DEF IInv, Waits, tableVars
    <3>2. CallIsLegal' /\ (failed = NoFail)'
      BY <1>1, <1>3 DEF IInv, CallIsLegal, CallsAreLegal
    <3>3. QED
      BY <3>1, <3>2
  <2>9. Views'
    <3>1. Context' = Context
      BY <1>1 DEF Context, tableVars
    <3>2. Exchange(b)'
      <4>1. \A i \in DOMAIN q : q[i].type \in GameRequests
        BY <1>2, <1>3, <2>1, <2>4 DEF Exchange, GameRequests
      <4>2. status' = "GAMMING" /\ owed' = owed /\ isMatch' = isMatch /\ toServer' = q
        BY <1>1, <1>3, <2>1 DEF robotVars, lobbyVars
      <4>3. QED
        BY <1>3, <2>4, <4>1, <4>2 DEF Exchange
    <3>3. Player(b)'
      BY <1>1, <2>4, PlayerStays
    <3>4. session' = "inited" /\ status' = "GAMMING" /\ mySeat' = mySeat
      BY <1>1, <1>3, <2>4 DEF lobbyVars, tableVars, robotVars
    <3>5. Expected(b)'
      BY <2>4, <3>2, <3>3, <3>4 DEF Expected
    <3>6. Trace(toRobot', a, b, Context') /\ IsRobot(a)'
      BY <1>1, <2>3, <3>1 DEF IsRobot, robotVars
    <3>7. QED
      BY <3>5, <3>6 DEF Views
  <2>10. QED
    BY <2>5, <2>6, <2>7, <2>8, <2>9 DEF IInv
<1>6. QED
  BY <1>4, <1>5

(* ConnectionLost.                                                         *)
LEMMA LossKeeps == IInv /\ ConnectionLost => IInv'
<1> SUFFICES ASSUME IInv, ConnectionLost PROVE IInv'
  OBVIOUS
<1>1. retired' \in BOOLEAN /\ isMatch' = isMatch
  BY DEF ConnectionLost, fateVars, IInv, Typed, RobotTyped
<1>2. QED
  BY <1>1, ClosingRead DEF ConnectionLost, robotVars

(* AddRobot and ConnectEvent: a new connection, with nothing under way.    *)
LEMMA ConnectKeeps ==
  ASSUME IInv, NEW test \in BOOLEAN, Connect(test)
  PROVE  IInv'
<1> DEFINE r == Request("verify", 0, NoTurn)
<1>1. /\ ~up /\ session = "none" /\ up' = TRUE /\ status' = "INIT" /\ needKeepPlay' = FALSE
      /\ testing' = test /\ aiSeat' = NoSeat /\ lordSeat' = NoSeat /\ callHistory' = <<>>
      /\ session' = "open" /\ toServer' = <<r>>
      /\ UNCHANGED <<isMatch, retired, toRobot, delayed, failed, owed, place, tableVars>>
  BY DEF Connect, RbtResetData, fateVars
<1>2. toRobot = <<>> /\ delayed = {} /\ owed = NoMsg /\ <<>> \in Seq(0..3)
  BY <1>1 DEF IInv, LineFits, TableFits
<1>3. /\ r \in RequestSet /\ TagOf(r) = NoTurn /\ r.type = "verify"
      /\ DOMAIN <<r>> = {1} /\ <<r>>[1] = r /\ <<r>> # <<>> /\ <<r>> \in Seq(RequestSet)
  <2>1. r \in RequestSet /\ TagOf(r) = NoTurn /\ r.type = "verify"
    BY SessionAssumption DEF Request, RequestSet, Requests, TagOf, Notices, NoTurn
  <2> HIDE DEF r
  <2>2. QED
    BY <2>1
<1>4. PICK v \in View :
        /\ v.status = "INIT" /\ v.keep = FALSE /\ v.ai = NoSeat /\ v.lordSeat = NoSeat
        /\ v.history = <<>> /\ v.seat = mySeat
  <2> DEFINE x == [status |-> "INIT", keep |-> FALSE, ai |-> NoSeat, lordSeat |-> NoSeat,
                   history |-> <<>>, seat |-> mySeat]
  <2>1. x \in View
    BY <1>2 DEF View, Statuses, IInv, Typed, ServerTyped
  <2>2. QED
    BY <2>1
<1>5. mySeat' = mySeat
  BY <1>1 DEF tableVars
<1>6. \A i \in DOMAIN toServer' : toServer'[i] = r
  BY <1>1, <1>3
<1>7. RobotTyped'
  BY <1>1, <1>2 DEF IInv, Typed, RobotTyped, Statuses
<1>8. LineTyped'
  BY <1>1, <1>3 DEF IInv, Typed, LineTyped
<1>9. ServerTyped'
  BY <1>1 DEF IInv, Typed, ServerTyped, Sessions, tableVars
<1>10. TableFits'
  BY <1>1, <1>2 DEF IInv, TableFits, InGame, Rejoining, tableVars
<1>11. LineFits'
  BY <1>1, <1>2 DEF LineFits, OnlyRequest
<1>12. Tags'
  <2>1. Untagged(toRobot) /\ TaggedOnce(toRobot)
    BY <1>2 DEF Untagged, TaggedOnce
  <2>2. Untagged(toServer') /\ TaggedOnce(toServer')
    BY <1>1, <1>3, <1>6 DEF Untagged, TaggedOnce
  <2>3. AllCurrent(toRobot)' /\ AllCurrent(toServer)'
    BY <1>1, <2>1, <2>2 DEF AllCurrent, Untagged
  <2>4. QED
    BY <1>1, <1>2, <1>3, <1>6, <2>1, <2>2, <2>3 DEF Tags
<1>13. Waits' /\ CallIsLegal' /\ (failed = NoFail)'
  <2>1. ~(~excused /\ (turn = mySeat \/ step = "scene"))
    BY <1>1 DEF IInv, TableFits
  <2>2. QED
    BY <1>1, <1>2, <2>1 DEF IInv, Waits, CallIsLegal, CallsAreLegal, tableVars
<1>14. Views'
  <2>1. Trace(<<>>, v, v, Context')
    BY <1>4, EmptyTrace
  <2>2. Trace(toRobot', v, v, Context')
    BY <1>1, <1>2, <2>1
  <2>3. IsRobot(v)'
    BY <1>1, <1>4 DEF IsRobot
  <2>4. Expected(v)'
    <3>1. Opening(v)'
      BY <1>1, <1>2, <1>3 DEF Opening
    <3>2. QED
      BY <1>1, <1>4, <1>5, <3>1 DEF Expected
  <2>5. QED
    BY <2>2, <2>3, <2>4 DEF Views
<1>15. QED
  BY <1>7, <1>8, <1>9, <1>10, <1>11, <1>12, <1>13, <1>14 DEF IInv, Typed
=============================================================================
