------------------------- MODULE RobotSessionProofs -------------------------
(***************************************************************************)
(* The steps of the lobby and of the table keep IInv; what follows from it *)
(* are the theorems, for every number of games and turns.                  *)
(***************************************************************************)
EXTENDS SessionRobotProofs

-----------------------------------------------------------------------------
(* The lobby answers                                                       *)

(* The robot and what it is expected to become.                            *)
LEMMA RobotViews ==
  ASSUME IInv, up
  PROVE  \E a, b \in View :
           /\ Trace(toRobot, a, b, Context) /\ IsRobot(a) /\ Expected(b)
           /\ a.status = status /\ b.status \in Reach(status)
           /\ toRobot = <<>> => a = b
<1>1. PICK a, b : Trace(toRobot, a, b, Context) /\ IsRobot(a) /\ Expected(b)
  BY DEF IInv, Views
<1>2. a \in View /\ b \in View /\ b.status \in Reach(a.status) /\ a.status = status
  BY <1>1, TraceEnds DEF IInv, Typed, LineTyped, IsRobot
<1>3. ASSUME toRobot = <<>> PROVE a = b
  <2>1. Trace(<<>>, a, b, Context)
    BY <1>1, <1>3
  <2>2. QED
    BY <2>1, EmptyTrace
<1>4. QED
  BY <1>1, <1>2, <1>3

(* The first request tells how far the session is.                         *)
LEMMA FirstAsked ==
  ASSUME IInv, toServer # <<>>
  PROVE  /\ Head(toServer) \in RequestSet /\ toServer \in Seq(RequestSet)
         /\ Tail(toServer) \in Seq(RequestSet)
         /\ 1 \in DOMAIN toServer /\ toServer[1] = Head(toServer)
         /\ Head(toServer).type = "verify" => session = "open" /\ Tail(toServer) = <<>>
         /\ Head(toServer).type = "init_game" =>
              session \in {"verified", "returning"} /\ Tail(toServer) = <<>>
         /\ Head(toServer).type = "keep" => session = "rejoining" /\ Tail(toServer) = <<>>
         /\ Head(toServer).type \in {"cond", "quick", "sign_up"} \cup GameRequests => session = "inited"
         /\ Head(toServer).type \notin {"call", "takeout"} => TagOf(Head(toServer)) = NoTurn
<1>1. /\ Head(toServer) \in RequestSet /\ toServer \in Seq(RequestSet)
      /\ Tail(toServer) \in Seq(RequestSet)
      /\ 1 \in DOMAIN toServer /\ toServer[1] = Head(toServer)
  BY TailFacts DEF IInv, Typed, LineTyped
<1>2. ASSUME NEW type, toServer = <<Request(type, 0, NoTurn)>>
      PROVE  Head(toServer).type = type /\ Tail(toServer) = <<>>
  <2>1. \A x : Head(<<x>>) = x /\ Tail(<<x>>) = <<>>
    OBVIOUS
  <2>2. QED
    BY <1>2, <2>1 DEF Request
<1>3. /\ session # "none"
      /\ session = "open" => Head(toServer).type = "verify" /\ Tail(toServer) = <<>>
      /\ session \in {"verified", "returning"} =>
           Head(toServer).type = "init_game" /\ Tail(toServer) = <<>>
      /\ session = "rejoining" => Head(toServer).type = "keep" /\ Tail(toServer) = <<>>
      /\ session = "inited" => Head(toServer).type \notin {"verify", "init_game", "keep"}
  BY <1>1, <1>2 DEF IInv, LineFits, OnlyRequest
<1>4. session \in {"none", "open", "verified", "returning", "inited", "rejoining"}
  BY DEF IInv, Typed, ServerTyped, Sessions
<1>5. Head(toServer).type \in Requests
  BY <1>1 DEF RequestSet
<1>6. QED
  BY <1>1, <1>3, <1>4, <1>5 DEF GameRequests, TagOf, Notices, Requests

(* The server sends nothing that tells a turn, and may have read a request *)
(* that answers none.                                                      *)
LEMMA PlainSend ==
  ASSUME IInv, NEW m \in Message, TagOf(m) = NoTurn, toRobot' \in {toRobot, Append(toRobot, m)},
         \/ toServer' = toServer
         \/ /\ toServer # <<>> /\ toServer' = Tail(toServer) /\ TagOf(Head(toServer)) = NoTurn
            /\ step = "scene" => Head(toServer).type # "ready",
         UNCHANGED <<up, delayed, step, turn, turnNo, mySeat, calls>>,
         excused => excused', ~blind' /\ step = "call" => ~blind
  PROVE  LineTyped' /\ Tags' /\ Waits' /\ CallIsLegal'
<1>1. toRobot \in Seq(Message) /\ toServer \in Seq(RequestSet)
  BY DEF IInv, Typed, LineTyped
<1>2. /\ toRobot' \in Seq(Message)
      /\ Untagged(toRobot') <=> Untagged(toRobot)
      /\ TaggedOnce(toRobot) => TaggedOnce(toRobot')
      /\ AllCurrent(toRobot) => AllCurrent(toRobot')
      /\ Holds(toRobot, "scene") => Holds(toRobot', "scene")
  <2>1. CASE toRobot' = toRobot
    BY <1>1, <2>1
  <2>2. CASE toRobot' = Append(toRobot, m)
    <3> DEFINE q == Append(toRobot, m)
    <3>1. /\ q \in Seq(Message)
          /\ Untagged(q) <=> Untagged(toRobot)
          /\ TaggedOnce(toRobot) => TaggedOnce(q)
          /\ AllCurrent(toRobot) => AllCurrent(q)
          /\ Holds(toRobot, "scene") => Holds(q, "scene")
      BY <1>1, AppendFacts, AppendTags, AppendHolds
    <3> HIDE DEF q
    <3>2. toRobot' = q
      BY <2>2 DEF q
    <3>3. QED
      BY <3>1, <3>2
  <2>3. QED
    BY <2>1, <2>2
<1>3. /\ toServer' \in Seq(RequestSet)
      /\ Untagged(toServer') <=> Untagged(toServer)
      /\ TaggedOnce(toServer) => TaggedOnce(toServer')
      /\ AllCurrent(toServer) => AllCurrent(toServer')
      /\ step = "scene" /\ Holds(toServer, "ready") => Holds(toServer', "ready")
      /\ \A i \in DOMAIN toServer' : \E j \in DOMAIN toServer : toServer'[i] = toServer[j]
  <2>1. CASE toServer' = toServer
    BY <1>1, <2>1
  <2>2. CASE /\ toServer # <<>> /\ toServer' = Tail(toServer) /\ TagOf(Head(toServer)) = NoTurn
             /\ step = "scene" => Head(toServer).type # "ready"
    <3> DEFINE q == Tail(toServer)
    <3>1. /\ q \in Seq(RequestSet)
          /\ Untagged(q) <=> Untagged(toServer)
          /\ TaggedOnce(toServer) => TaggedOnce(q)
          /\ AllCurrent(toServer) => AllCurrent(q)
          /\ \A i \in DOMAIN q : i + 1 \in DOMAIN toServer /\ q[i] = toServer[i + 1]
      BY <1>1, <2>2, TailFacts, TailTags
    <3>2. ASSUME step = "scene", Holds(toServer, "ready") PROVE Holds(q, "ready")
      <4>1. PICK i \in DOMAIN toServer : toServer[i].type = "ready"
        BY <3>2 DEF Holds
      <4>2. i # 1
        BY <1>1, <2>2, <3>2, <4>1, TailFacts
      <4>3. i - 1 \in DOMAIN q /\ q[i - 1] = toServer[i]
        BY <1>1, <2>2, <4>2, TailFacts
      <4>4. QED
        BY <4>1, <4>3 DEF Holds
    <3> HIDE DEF q
    <3>3. toServer' = q
      BY <2>2 DEF q
    <3>4. QED
      BY <3>1, <3>2, <3>3
  <2>3. QED
    BY <2>1, <2>2
<1>4. \A item : Current(item)' <=> Current(item)
  BY DEF Current
<1>5. LineTyped'
  BY <1>2, <1>3 DEF IInv, Typed, LineTyped
<1>6. Tags'
  <2>1. AllCurrent(toRobot)' /\ AllCurrent(toServer)'
    BY <1>2, <1>3, <1>4 DEF IInv, Tags, AllCurrent
  <2>2. \A r \in delayed' : Current(r)'
    BY <1>4 DEF IInv, Tags
  <2>3. \A i \in DOMAIN toServer' :
          toServer'[i].type \in {"call", "takeout"} => toServer'[i].turn # NoTurn
    BY <1>3 DEF IInv, Tags
  <2>4. /\ TaggedOnce(toRobot)' /\ TaggedOnce(toServer)' /\ (\A x, s \in delayed : x = s)'
        /\ (Untagged(toRobot) \/ (delayed = {} /\ Untagged(toServer)))'
        /\ (delayed = {} \/ Untagged(toServer))'
    BY <1>2, <1>3 DEF IInv, Tags
  <2>5. QED
    BY <2>1, <2>2, <2>3, <2>4 DEF Tags
<1>7. Waits'
  BY <1>2, <1>3 DEF IInv, Waits
<1>8. CallIsLegal'
  BY DEF IInv, CallIsLegal, CallsAreLegal, LegalAnswer, LegalScore, MyTurn
<1>9. QED
  BY <1>5, <1>6, <1>7, <1>8

(* The server sends one message to a robot that will be in view b.         *)
LEMMA SendViews ==
  ASSUME IInv, NEW a \in View, NEW b \in View, Trace(toRobot, a, b, Context), IsRobot(a),
         UNCHANGED <<isMatch, robotVars>>,
         \/ Untagged(toRobot)
         \/ (excused => excused') /\ (Context'.sure => Context.sure) /\ calls' = calls,
         NEW m \in Message, toRobot' = toRobot \o <<m>>, NEW c \in View,
         Link(m, b, c, Context'), Expected(c)'
  PROVE  Views'
<1>1. toRobot \in Seq(Message) /\ toRobot' = Append(toRobot, m)
  BY AppendIsConcat DEF IInv, Typed, LineTyped
<1>2. /\ Context'.match = Context.match
      /\ \/ Untagged(toRobot)
         \/ /\ Context'.heard => Context.heard
            /\ Context'.sure => Context.sure
            /\ Context'.calls = Context.calls
  BY DEF Context, IInv, Typed, ServerTyped
<1> DEFINE l == Context'
<1>3. Trace(toRobot, a, b, l)
  BY <1>1, <1>2, ContextTrace
<1>4. Link(m, b, c, l)
  OBVIOUS
<1> HIDE DEF l
<1>5. Trace(Append(toRobot, m), a, c, l)
  BY <1>1, <1>3, <1>4, SendTrace
<1>6. Trace(toRobot', a, c, Context')
  BY <1>1, <1>5 DEF l
<1>7. IsRobot(a)'
  BY DEF IsRobot, robotVars
<1>8. QED
  BY <1>6, <1>7 DEF Views

(* A step of the server with its parts of the invariant.                   *)
LEMMA ServerStep ==
  ASSUME IInv, UNCHANGED serverOnly, ServerTyped', TableFits', LineFits', Views',
         LineTyped' /\ Tags' /\ Waits' /\ CallIsLegal'
  PROVE  IInv'
<1>1. RobotTyped' /\ (failed = NoFail)'
  BY DEF IInv, Typed, RobotTyped, serverOnly, fateVars, robotVars
<1>2. QED
  BY <1>1 DEF IInv, Typed

(* A single message.                                                       *)
LEMMA OneMessage ==
  ASSUME NEW m
  PROVE  /\ <<>> \o <<m>> = <<m>> /\ <<m>> # <<>> /\ Head(<<m>>) = m /\ Tail(<<m>>) = <<>>
         /\ Append(<<>>, m) = <<m>>
         /\ DOMAIN <<m>> = {1} /\ <<m>>[1] = m
OBVIOUS

(* VERIFY.                                                                 *)
LEMMA ServeVerifyKeeps == IInv /\ ServeVerify => IInv'
<1> SUFFICES ASSUME IInv, ServeVerify PROVE IInv'
  OBVIOUS
<1>1. /\ toServer # <<>> /\ Head(toServer).type = "verify" /\ toServer' = Tail(toServer)
      /\ UNCHANGED serverOnly /\ UNCHANGED <<owed, place, tableVars>>
      /\ UNCHANGED <<isMatch, robotVars, up, delayed>>
  BY DEF ServeVerify, Requested, serverOnly, fateVars
<1>2. session = "open" /\ toServer' = <<>> /\ TagOf(Head(toServer)) = NoTurn
  BY <1>1, FirstAsked
<1>3. InGame \in BOOLEAN /\ (InGame' <=> InGame)
  BY <1>1 DEF InGame, tableVars
<1>4. PICK ok \in BOOLEAN, game \in BOOLEAN :
        /\ ok => game = InGame
        /\ Push(<<[type |-> "verify_ack", ok |-> ok, game |-> game]>>)
        /\ session' = IF ~ok THEN session ELSE IF game THEN "returning" ELSE "verified"
  <2>1. CASE /\ Push(<<[type |-> "verify_ack", ok |-> TRUE, game |-> InGame]>>)
             /\ session' = IF InGame THEN "returning" ELSE "verified"
    BY <1>3, <2>1
  <2>2. CASE /\ Push(<<[type |-> "verify_ack", ok |-> FALSE, game |-> FALSE]>>)
             /\ UNCHANGED session
    BY <2>2
  <2>3. QED
    BY <2>1, <2>2 DEF ServeVerify
<1>5. PICK m \in Message : /\ m = [type |-> "verify_ack", ok |-> ok, game |-> game]
                           /\ m.type = "verify_ack" /\ m.ok = ok /\ m.game = game
                           /\ TagOf(m) = NoTurn
  <2> DEFINE x == [type |-> "verify_ack", ok |-> ok, game |-> game]
  <2>1. x \in Message
    BY DEF Message
  <2>2. x.type = "verify_ack" /\ x.ok = ok /\ x.game = game
    OBVIOUS
  <2>3. TagOf(x) = NoTurn
    BY <2>2 DEF TagOf, Notices
  <2>4. QED
    BY <2>1, <2>2, <2>3
<1>6. toRobot' = IF up THEN toRobot \o <<m>> ELSE toRobot
  BY <1>2, <1>4, <1>5 DEF Push
<1>7. LineTyped' /\ Tags' /\ Waits' /\ CallIsLegal'
  <2>1. toRobot' \in {toRobot, Append(toRobot, m)}
    BY <1>6, AppendIsConcat DEF IInv, Typed, LineTyped
  <2>2. UNCHANGED <<step, turn, turnNo, mySeat, calls, excused, blind>>
    BY <1>1 DEF tableVars
  <2>3. QED
    BY <1>1, <1>2, <1>5, <2>1, <2>2, PlainSend
<1>8. ServerTyped' /\ TableFits'
  BY <1>1, <1>2, <1>4, <1>3 DEF IInv, Typed, ServerTyped, TableFits, InGame, Rejoining, Sessions, tableVars
<1>9. LineFits'
  BY <1>1, <1>2, <1>4, <1>6 DEF IInv, LineFits, OnlyRequest, robotVars
<1>10. Views'
  <2>1. CASE ~up
    BY <1>1, <2>1 DEF Views
  <2>2. CASE up
    <3>1. PICK a, b \in View :
            /\ Trace(toRobot, a, b, Context) /\ IsRobot(a) /\ Expected(b)
            /\ a.status = status
            /\ toRobot = <<>> => a = b
      BY <2>2, RobotViews
    <3>2. /\ b.seat = mySeat /\ status = "INIT" /\ needKeepPlay = FALSE /\ toRobot = <<>>
          /\ b.status = "INIT" /\ b.keep = FALSE
      BY <1>1, <1>2, <3>1 DEF Expected, Opening, IsRobot
    <3>3. toRobot' = <<m>> /\ toRobot' # <<>> /\ Head(toRobot') = m /\ Tail(toRobot') = <<>>
      BY <1>6, <2>2, <3>2, OneMessage
    <3>4. PICK c \in View :
            IF ok THEN c = [b EXCEPT !.status = "VERIFIED", !.keep = game]
                  ELSE c = [b EXCEPT !.status = "gone"]
      BY <1>3 DEF View, Statuses
    <3>5. c.seat = b.seat /\ LobbyLink(m, b, c, Context') /\ Link(m, b, c, Context')
      BY <1>3, <1>5, <3>2, <3>4 DEF View, LobbyLink, Link
    <3>6. Expected(c)'
      <4>1. status' = "INIT" /\ needKeepPlay' = FALSE /\ mySeat' = mySeat
        BY <1>1, <3>2 DEF robotVars, tableVars
      <4>2. ok => c.status = "VERIFIED" /\ c.keep = game
        BY <3>4 DEF View
      <4>3. ~ok => c.status = "gone"
        BY <3>4 DEF View
      <4>4. CASE ok
        BY <1>2, <1>4, <1>3, <1>5, <3>2, <3>3, <3>5, <4>1, <4>2, <4>4 DEF Expected, Verifying
      <4>5. CASE ~ok
        BY <1>2, <1>4, <3>2, <3>3, <3>5, <4>1, <4>3, <4>5 DEF Expected, Opening
      <4>6. QED
        BY <4>4, <4>5
    <3>7. (excused => excused') /\ (Context'.sure => Context.sure) /\ calls' = calls
      BY <1>1 DEF Context, tableVars
    <3>8. toRobot' = toRobot \o <<m>>
      BY <1>6, <2>2
    <3>9. QED
      BY <1>1, <3>1, <3>5, <3>6, <3>7, <3>8, SendViews
  <2>3. QED
    BY <2>1, <2>2
<1>11. QED
  BY <1>1, <1>7, <1>8, <1>9, <1>10, ServerStep

(* INIT_GAME.                                                              *)
LEMMA ServeInitGameKeeps == IInv /\ ServeInitGame => IInv'
<1> SUFFICES ASSUME IInv, ServeInitGame PROVE IInv'
  OBVIOUS
<1>1. /\ toServer # <<>> /\ Head(toServer).type = "init_game" /\ toServer' = Tail(toServer)
      /\ UNCHANGED serverOnly /\ UNCHANGED <<owed, place, tableVars>>
      /\ UNCHANGED <<isMatch, robotVars, up, delayed>>
  BY DEF ServeInitGame, Requested, serverOnly, fateVars
<1>2. /\ session \in {"verified", "returning"} /\ toServer' = <<>>
      /\ TagOf(Head(toServer)) = NoTurn /\ owed = NoMsg
  BY <1>1, FirstAsked DEF IInv, TableFits
<1>3. PICK ok \in BOOLEAN :
        /\ Push(<<[type |-> "init_ack", ok |-> ok]>>)
        /\ session' = IF ~ok THEN session
                      ELSE IF session = "returning" THEN "rejoining" ELSE "inited"
  BY DEF ServeInitGame
<1>4. PICK m \in Message : /\ m = [type |-> "init_ack", ok |-> ok]
                           /\ m.type = "init_ack" /\ m.ok = ok /\ TagOf(m) = NoTurn
  <2> DEFINE x == [type |-> "init_ack", ok |-> ok]
  <2>1. x \in Message
    BY DEF Message
  <2>2. x.type = "init_ack" /\ x.ok = ok
    OBVIOUS
  <2>3. TagOf(x) = NoTurn
    BY <2>2 DEF TagOf, Notices
  <2>4. QED
    BY <2>1, <2>2, <2>3
<1>5. toRobot' = IF up THEN toRobot \o <<m>> ELSE toRobot
  BY <1>2, <1>3, <1>4 DEF Push
<1>6. LineTyped' /\ Tags' /\ Waits' /\ CallIsLegal'
  <2>1. toRobot' \in {toRobot, Append(toRobot, m)}
    BY <1>5, AppendIsConcat DEF IInv, Typed, LineTyped
  <2>2. UNCHANGED <<step, turn, turnNo, mySeat, calls, excused, blind>>
    BY <1>1 DEF tableVars
  <2>3. QED
    BY <1>1, <1>2, <1>4, <2>1, <2>2, PlainSend
<1>7. ServerTyped' /\ TableFits'
  BY <1>1, <1>2, <1>3 DEF IInv, Typed, ServerTyped, TableFits, InGame, Rejoining, Sessions, tableVars
<1>8. LineFits'
  <2>1. \A i \in DOMAIN toServer' : FALSE
    BY <1>2
  <2>2. QED
    BY <1>1, <1>2, <1>3, <1>5, <2>1 DEF IInv, LineFits, OnlyRequest, robotVars
<1>9. Views'
  <2>1. CASE ~up
    BY <1>1, <2>1 DEF Views
  <2>2. CASE up
    <3>1. PICK a, b \in View :
            /\ Trace(toRobot, a, b, Context) /\ IsRobot(a) /\ Expected(b)
            /\ a.status = status
            /\ toRobot = <<>> => a = b
      BY <2>2, RobotViews
    <3>2. /\ b.seat = mySeat /\ status = "VERIFIED" /\ toRobot = <<>>
          /\ needKeepPlay \in BOOLEAN /\ (needKeepPlay <=> session = "returning")
      BY <1>1, <1>2, <3>1 DEF Expected, Verifying, IInv, Typed, RobotTyped
    <3>3. b.status = "VERIFIED" /\ b.keep = needKeepPlay
      BY <3>1, <3>2 DEF IsRobot
    <3>4. toRobot' = <<m>> /\ toRobot' # <<>> /\ Head(toRobot') = m /\ Tail(toRobot') = <<>>
      BY <1>5, <2>2, <3>2, OneMessage
    <3>5. PICK c \in View :
            IF ok THEN c = [b EXCEPT !.status = IF b.keep THEN "KEEPPLAY" ELSE "INITGAME",
                                     !.keep = FALSE]
                  ELSE c = [b EXCEPT !.status = "gone"]
      <4>1. [b EXCEPT !.status = "gone"] \in View
        BY DEF View
      <4>2. [b EXCEPT !.status = IF b.keep THEN "KEEPPLAY" ELSE "INITGAME",
                      !.keep = FALSE] \in View
        BY DEF View, Statuses
      <4>3. QED
        BY <4>1, <4>2
    <3>6. c.seat = b.seat /\ LobbyLink(m, b, c, Context') /\ Link(m, b, c, Context')
      BY <1>4, <3>3, <3>5 DEF View, LobbyLink, Link
    <3>7. Expected(c)'
      <4>1. /\ status' = "VERIFIED" /\ needKeepPlay' = needKeepPlay /\ mySeat' = mySeat
            /\ isMatch' = isMatch /\ owed' = NoMsg
        BY <1>1, <1>2, <3>2 DEF robotVars, tableVars
      <4>2. /\ ok => c.status = IF needKeepPlay THEN "KEEPPLAY" ELSE "INITGAME"
            /\ ~ok => c.status = "gone"
        BY <3>3, <3>5 DEF View
      <4>3. CASE ~ok
        BY <1>2, <1>3, <3>2, <3>4, <3>6, <4>1, <4>2, <4>3 DEF Expected, Verifying
      <4>4. CASE ok /\ session = "returning"
        BY <1>2, <1>3, <3>2, <3>6, <4>1, <4>2, <4>4 DEF Expected, Returning
      <4>5. CASE ok /\ session # "returning"
        <5>1. session' = "inited" /\ ~needKeepPlay' /\ c.status = "INITGAME"
          BY <1>3, <3>2, <4>1, <4>2, <4>5
        <5>2. Exchange(c)'
          <6>1. OnlyOver(Tail(toRobot'))
            BY <3>4 DEF OnlyOver
          <6>2. InitUnread(c)'
            BY <1>2, <1>4, <3>4, <4>1, <5>1, <6>1 DEF InitUnread
          <6>3. QED
            BY <4>1, <6>2 DEF Exchange
        <5>3. Player(c)'
          <6>1. ~InGame /\ (~isMatch => place = "none")
            BY <1>2, <4>5 DEF IInv, TableFits, InGame, Typed, ServerTyped, Places
          <6>2. QED
            BY <1>1, <4>1, <5>1, <6>1 DEF Player, InGame, tableVars
        <5>4. QED
          BY <3>2, <3>6, <4>1, <5>1, <5>2, <5>3 DEF Expected
      <4>6. QED
        BY <4>3, <4>4, <4>5
    <3>8. (excused => excused') /\ (Context'.sure => Context.sure) /\ calls' = calls
      BY <1>1 DEF Context, tableVars
    <3>9. toRobot' = toRobot \o <<m>>
      BY <1>5, <2>2
    <3>10. QED
      BY <1>1, <3>1, <3>6, <3>7, <3>8, <3>9, SendViews
  <2>3. QED
    BY <2>1, <2>2
<1>10. QED
  BY <1>1, <1>6, <1>7, <1>8, <1>9, ServerStep

(* What a request of the lobby says of the robot.                          *)
LEMMA LobbyAsked ==
  ASSUME IInv, up, toServer # <<>>, Head(toServer).type \in {"cond", "quick", "sign_up"},
         NEW a \in View, NEW b \in View, IsRobot(a), Expected(b), toRobot = <<>> => a = b
  PROVE  /\ toServer = <<Head(toServer)>> /\ b.seat = mySeat
         /\ Exchange(b) /\ Player(b)
         /\ Head(toServer).type \in {"cond", "quick"} =>
              /\ status = "INITGAME" /\ Asked(b)
              /\ Head(toServer).type = "cond" <=> isMatch
         /\ Head(toServer).type = "sign_up" =>
              /\ status = "CANSINGUP" /\ toRobot = <<>> /\ b.status = "CANSINGUP"
<1>1. session = "inited" /\ toServer \in Seq(RequestSet)
      /\ 1 \in DOMAIN toServer /\ toServer[1] = Head(toServer)
  BY FirstAsked
<1>2. status # "INIT" /\ Exchange(b) /\ Player(b) /\ b.seat = mySeat
  BY <1>1 DEF Expected
<1>3. status \in Statuses
  BY DEF IInv, Typed, RobotTyped
<1>4. ASSUME NEW type, toServer = <<Request(type, 0, NoTurn)>>
      PROVE  Head(toServer).type = type /\ toServer = <<Head(toServer)>>
  <2>1. \A x : Head(<<x>>) = x
    OBVIOUS
  <2>2. QED
    BY <1>4, <2>1 DEF Request
<1>5. status \in {"INITGAME", "CANSINGUP"}
  BY <1>1, <1>2, <1>3 DEF Exchange, InitUnread, Statuses, GameRequests
<1>6. CASE status = "INITGAME"
  <2>1. Asked(b)
    BY <1>2, <1>6 DEF Exchange, AnswerOwed, AnswerUnread
  <2>2. toServer = <<Request(IF isMatch THEN "cond" ELSE "quick", 0, NoTurn)>>
    BY <2>1 DEF Asked
  <2>3. Head(toServer).type = (IF isMatch THEN "cond" ELSE "quick") /\ toServer = <<Head(toServer)>>
    BY <1>4, <2>2
  <2>4. QED
    BY <1>2, <1>6, <2>1, <2>3
<1>7. CASE status = "CANSINGUP"
  <2>1. toServer = <<Request("sign_up", 0, NoTurn)>> /\ toRobot = <<>>
    BY <1>2, <1>7 DEF Exchange, SigningUp
  <2>2. Head(toServer).type = "sign_up" /\ toServer = <<Head(toServer)>>
    BY <1>4, <2>1
  <2>3. QED
    BY <1>2, <1>7, <2>1, <2>2 DEF IsRobot
<1>8. QED
  BY <1>5, <1>6, <1>7

(* The lobby takes a request and will answer it.                           *)
LEMMA LobbyTakes ==
  ASSUME IInv, NEW type \in {"quick_ack", "cond_ack", "sign_ack"}, NEW result,
         [type |-> type, result |-> result] \in LobbyAnswer,
         toServer # <<>>, Head(toServer).type \in {"cond", "quick", "sign_up"},
         Answer(type, result), place' = place \/ (place = "none" /\ place' = "queued"),
         up => \A b \in View : /\ Exchange(b) /\ Player(b) /\ toServer' = <<>>
                               /\ toServer = <<Head(toServer)>>
                               /\ Head(toServer).type \in {"cond", "quick"} =>
                                    /\ status = "INITGAME" /\ Asked(b)
                                    /\ Head(toServer).type = "cond" <=> isMatch
                               /\ Head(toServer).type = "sign_up" =>
                                    /\ status = "CANSINGUP" /\ toRobot = <<>>
                                    /\ b.status = "CANSINGUP"
                               => Exchange(b)' /\ Player(b)'
  PROVE  IInv'
<1>1. /\ owed = NoMsg /\ owed' = [type |-> type, result |-> result]
      /\ toServer' = Tail(toServer)
      /\ UNCHANGED serverOnly /\ UNCHANGED <<session, tableVars>>
      /\ UNCHANGED <<isMatch, robotVars, up, delayed, toRobot>>
  BY DEF Answer, serverOnly, fateVars
<1>2. session = "inited" /\ TagOf(Head(toServer)) = NoTurn /\ toServer \in Seq(RequestSet)
  BY FirstAsked
<1>3. LineTyped' /\ Tags' /\ Waits' /\ CallIsLegal'
  <2>1. PICK m \in Message : TagOf(m) = NoTurn
    <3>1. [type |-> "ready_ack"] \in Message
      BY DEF Message
    <3>2. TagOf([type |-> "ready_ack"]) = NoTurn
      BY DEF TagOf, Notices
    <3>3. QED
      BY <3>1, <3>2
  <2>2. UNCHANGED <<step, turn, turnNo, mySeat, calls, excused, blind>>
    BY <1>1 DEF tableVars
  <2>3. QED
    BY <1>1, <1>2, <2>1, <2>2, PlainSend
<1>4. ServerTyped' /\ TableFits'
  <2>1. ServerTyped'
    BY <1>1 DEF IInv, Typed, ServerTyped, Places, tableVars
  <2>2. TableFits'
    BY <1>1, <1>2 DEF IInv, TableFits, InGame, Rejoining, tableVars
  <2>3. QED
    BY <2>1, <2>2
<1>5. LineFits'
  <2>1. \A i \in DOMAIN Tail(toServer) :
          i + 1 \in DOMAIN toServer /\ Tail(toServer)[i] = toServer[i + 1]
    BY <1>2, TailFacts
  <2>2. QED
    BY <1>1, <1>2, <2>1 DEF IInv, LineFits, robotVars
<1>6. Views'
  <2>1. CASE ~up
    BY <1>1, <2>1 DEF Views
  <2>2. CASE up
    <3>1. PICK a, b \in View :
            /\ Trace(toRobot, a, b, Context) /\ IsRobot(a) /\ Expected(b)
            /\ a.status = status
            /\ toRobot = <<>> => a = b
      BY <2>2, RobotViews
    <3>2. /\ toServer = <<Head(toServer)>> /\ b.seat = mySeat
          /\ Exchange(b) /\ Player(b)
          /\ Head(toServer).type \in {"cond", "quick"} =>
               /\ status = "INITGAME" /\ Asked(b)
               /\ Head(toServer).type = "cond" <=> isMatch
          /\ Head(toServer).type = "sign_up" =>
               /\ status = "CANSINGUP" /\ toRobot = <<>> /\ b.status = "CANSINGUP"
      BY <2>2, <3>1, LobbyAsked
    <3>3. toServer' = <<>>
      <4>1. \A x : Tail(<<x>>) = <<>>
        OBVIOUS
      <4>2. QED
        BY <1>1, <3>2, <4>1
    <3>4. Exchange(b)' /\ Player(b)'
      BY <2>2, <3>1, <3>2, <3>3
    <3>5. status # "INIT" /\ status' = status /\ session' = "inited" /\ mySeat' = mySeat
      BY <1>1, <1>2, <3>1 DEF Expected, robotVars, tableVars
    <3>6. Expected(b)'
      BY <3>2, <3>4, <3>5 DEF Expected
    <3>7. Context' = Context
      BY <1>1 DEF Context, tableVars
    <3>8. Trace(toRobot', a, b, Context') /\ IsRobot(a)'
      BY <1>1, <3>1, <3>7 DEF IsRobot, robotVars
    <3>9. QED
      BY <3>6, <3>8 DEF Views
  <2>3. QED
    BY <2>1, <2>2
<1>7. QED
  BY <1>1, <1>3, <1>4, <1>5, <1>6, ServerStep

(* A quick start, in a room.                                               *)
LEMMA ServeQuickKeeps == IInv /\ ServeQuick => IInv'
<1> SUFFICES ASSUME IInv, ServeQuick PROVE IInv'
  OBVIOUS
<1>1. toServer # <<>> /\ Head(toServer).type = "quick"
  BY DEF ServeQuick, Requested
<1>2. PICK result \in {"ok", "broke", "error"} :
        /\ Answer("quick_ack", result)
        /\ IF result = "ok" THEN place = "none" /\ place' = "queued" ELSE place' = place
  BY DEF ServeQuick
<1>3. /\ owed' = [type |-> "quick_ack", result |-> result]
      /\ UNCHANGED <<isMatch, robotVars, toRobot, tableVars>>
  BY <1>2 DEF Answer, serverOnly, fateVars
<1>4. owed' # NoMsg /\ owed'.type = "quick_ack" /\ owed'.result = result
  <2>1. [type |-> "quick_ack", result |-> result].type # NoMsg.type
    BY DEF NoMsg
  <2>2. QED
    BY <1>3, <2>1
<1>5. ASSUME NEW b \in View, status = "INITGAME", Asked(b), ~isMatch, Player(b), Exchange(b),
             toServer' = <<>>
      PROVE  Exchange(b)' /\ Player(b)'
  <2>1. b.status = "INITGAME" /\ toRobot' = <<>> /\ status' = "INITGAME" /\ ~isMatch'
    BY <1>3, <1>5 DEF Asked, robotVars
  <2>2. AnswerFree(toRobot')
    BY <2>1 DEF AnswerFree
  <2>3. AnswerOwed(b)'
    BY <1>4, <1>5, <2>1, <2>2 DEF AnswerOwed
  <2>4. Exchange(b)'
    BY <2>1, <2>3 DEF Exchange
  <2>5. owed = NoMsg /\ ~InGame
    BY <1>5, <2>1 DEF Player, Asked
  <2>6. place = "none"
    BY <1>5, <2>1, <2>5 DEF Player
  <2>7. place' = (IF result = "ok" THEN "queued" ELSE "none") /\ ~InGame'
    BY <1>2, <1>3, <2>5, <2>6 DEF InGame
  <2>8. Player(b)'
    BY <1>2, <1>4, <2>1, <2>7 DEF Player
  <2>9. QED
    BY <2>4, <2>8
<1>6. [type |-> "quick_ack", result |-> result] \in LobbyAnswer
  BY DEF LobbyAnswer
<1>7. place' = place \/ (place = "none" /\ place' = "queued")
  BY <1>2
<1>8. QED
  BY <1>1, <1>2, <1>5, <1>6, <1>7, LobbyTakes

(* The conditions of a sign-up, in a match.                                *)
LEMMA ServeCondKeeps == IInv /\ ServeCond => IInv'
<1> SUFFICES ASSUME IInv, ServeCond PROVE IInv'
  OBVIOUS
<1>1. toServer # <<>> /\ Head(toServer).type = "cond" /\ place' = place
  BY DEF ServeCond, Requested
<1>2. PICK result \in {"signed", "allowed", "refused"} :
        /\ Answer("cond_ack", result)
        /\ result = "signed" <=> place # "none"
  BY DEF ServeCond
<1>3. /\ owed' = [type |-> "cond_ack", result |-> result]
      /\ UNCHANGED <<isMatch, robotVars, toRobot, tableVars>>
  BY <1>2 DEF Answer, serverOnly, fateVars
<1>4. owed' # NoMsg /\ owed'.type = "cond_ack" /\ owed'.result = result
  <2>1. [type |-> "cond_ack", result |-> result].type # NoMsg.type
    BY DEF NoMsg
  <2>2. QED
    BY <1>3, <2>1
<1>5. ASSUME NEW b \in View, status = "INITGAME", Asked(b), isMatch, Player(b), Exchange(b),
             toServer' = <<>>
      PROVE  Exchange(b)' /\ Player(b)'
  <2>1. /\ (b.status = "INITGAME" /\ toRobot = <<>>) \/ b.status = "gone"
        /\ OnlyOver(toRobot) /\ toRobot' = toRobot /\ status' = "INITGAME" /\ isMatch'
    BY <1>3, <1>5 DEF Asked, robotVars
  <2>2. AnswerFree(toRobot') /\ OnlyOver(toRobot')
    BY <2>1 DEF AnswerFree, OnlyOver, LobbyAcks
  <2>3. AnswerOwed(b)'
    BY <1>4, <1>5, <2>1, <2>2 DEF AnswerOwed
  <2>4. Exchange(b)'
    BY <1>5, <2>1, <2>3 DEF Exchange
  <2>5. Player(b)'
    BY <1>1, <1>2, <1>3, <1>4, <1>5, <2>1 DEF Player, InGame, tableVars
  <2>6. QED
    BY <2>4, <2>5
<1>6. [type |-> "cond_ack", result |-> result] \in LobbyAnswer
  BY DEF LobbyAnswer
<1>7. QED
  BY <1>1, <1>2, <1>5, <1>6, LobbyTakes

(* A sign-up.                                                              *)
LEMMA ServeSignUpKeeps == IInv /\ ServeSignUp => IInv'
<1> SUFFICES ASSUME IInv, ServeSignUp PROVE IInv'
  OBVIOUS
<1>1. toServer # <<>> /\ Head(toServer).type = "sign_up"
  BY DEF ServeSignUp, Requested
<1>2. PICK result \in {"ok", "already", "error"} :
        /\ Answer("sign_ack", result)
        /\ \/ result = "already" /\ place # "none" /\ place' = place
           \/ result = "ok" /\ place = "none" /\ place' = "queued"
           \/ result = "error" /\ place = "none" /\ place' = place
  BY DEF ServeSignUp
<1>3. /\ owed = NoMsg /\ owed' = [type |-> "sign_ack", result |-> result]
      /\ UNCHANGED <<isMatch, robotVars, toRobot, tableVars>>
  BY <1>2 DEF Answer, serverOnly, fateVars
<1>4. owed' # NoMsg /\ owed'.type = "sign_ack" /\ owed'.result = result
  <2>1. [type |-> "sign_ack", result |-> result].type # NoMsg.type
    BY DEF NoMsg
  <2>2. QED
    BY <1>3, <2>1
<1>5. ASSUME NEW b \in View, status = "CANSINGUP", toRobot = <<>>, b.status = "CANSINGUP",
             Player(b), toServer' = <<>>
      PROVE  Exchange(b)' /\ Player(b)'
  <2>1. toRobot' = <<>> /\ status' = "CANSINGUP" /\ isMatch' = isMatch
    BY <1>3, <1>5 DEF robotVars
  <2>2. SigningUp(b)'
    BY <1>4, <1>5, <2>1 DEF SigningUp
  <2>3. Exchange(b)'
    BY <2>1, <2>2 DEF Exchange
  <2>4. isMatch /\ place = "none"
    BY <1>3, <1>5 DEF Player
  <2>5. Player(b)'
    BY <1>2, <1>4, <1>5, <2>1, <2>4 DEF Player
  <2>6. QED
    BY <2>3, <2>5
<1>6. [type |-> "sign_ack", result |-> result] \in LobbyAnswer
  BY DEF LobbyAnswer
<1>7. place' = place \/ (place = "none" /\ place' = "queued")
  BY <1>2
<1>8. QED
  BY <1>1, <1>2, <1>5, <1>6, <1>7, LobbyTakes

(* What an answer of the lobby finds, and makes of the robot.              *)
LEMMA AnswerLeads ==
  ASSUME IInv, up, owed # NoMsg, NEW a \in View, NEW b \in View, IsRobot(a), Expected(b),
         toRobot = <<>> => a = b, a.status = status, b.status \in Reach(status),
         owed' = NoMsg, toRobot' = Append(toRobot, owed),
         UNCHANGED <<isMatch, robotVars, toServer, place, tableVars>>
  PROVE  \E c \in View : c.seat = b.seat /\ Link(owed, b, c, Context') /\ Exchange(c)' /\ Player(c)'
<1>1. session = "inited" /\ owed \in LobbyAnswer /\ status \in Statuses /\ toRobot \in Seq(Message)
  BY DEF IInv, TableFits, Typed, RobotTyped, ServerTyped, LineTyped
<1>2. status # "INIT" /\ Exchange(b) /\ Player(b)
  BY <1>1 DEF Expected
<1>3. owed \in Message /\ TagOf(owed) = NoTurn /\ owed.type \in {"quick_ack", "cond_ack", "sign_ack"}
  BY <1>1 DEF Message, LobbyAnswer, TagOf, Notices
<1>4. Context'.match = isMatch
  BY DEF Context
<1>5. /\ toRobot' # <<>>
      /\ toRobot # <<>> => Head(toRobot') = Head(toRobot) /\ Tail(toRobot') = Append(Tail(toRobot), owed)
      /\ toRobot = <<>> => Head(toRobot') = owed /\ Tail(toRobot') = <<>>
  BY <1>1, <1>3, AppendFacts, OneMessage
<1>6. /\ owed.type = "quick_ack" => owed.result \in {"ok", "broke", "error"}
      /\ owed.type = "cond_ack" => owed.result \in {"signed", "allowed", "refused"}
      /\ owed.type = "sign_ack" => owed.result \in {"ok", "already", "error"}
  BY <1>3, MessageFields
<1>7. status' = status /\ isMatch' = isMatch /\ toServer' = toServer /\ InGame' = InGame
  BY DEF robotVars, InGame, tableVars
<1>8. ASSUME b.status = "GAMMING" => ~isMatch /\ owed.type = "quick_ack",
             b.status \in {"GAMMING", "gone"}, Exchange(b)'
      PROVE  \E c \in View : c.seat = b.seat /\ Link(owed, b, c, Context') /\ Exchange(c)' /\ Player(c)'
  <2>1. Link(owed, b, b, Context')
    BY <1>3, <1>4, <1>8 DEF Link, GameLink
  <2>2. Player(b)'
    BY <1>2, <1>8 DEF Player, InTune, tableVars
  <2>3. QED
    BY <1>8, <2>1, <2>2
<1>9. CASE status = "GAMMING"
  <2>1. /\ \A i \in DOMAIN toServer : toServer[i].type \in GameRequests
        /\ ~isMatch /\ owed.type = "quick_ack"
    BY <1>2, <1>9 DEF Exchange
  <2>2. b.status \in {"GAMMING", "gone"}
    BY <1>9 DEF Reach
  <2>3. Exchange(b)'
    BY <1>7, <1>9, <2>1 DEF Exchange
  <2>4. QED
    BY <1>8, <2>1, <2>2, <2>3
<1>10. CASE status = "CANSINGUP"
  <2>1. toServer = <<>> /\ toRobot = <<>> /\ owed.type = "sign_ack" /\ a = b
    BY <1>2, <1>10 DEF SigningUp, Exchange
  <2>2. b.status = "CANSINGUP"
    BY <1>10, <2>1
  <2>3. /\ isMatch
        /\ IF owed.result = "error" THEN place = "none" ELSE place = "queued"
    BY <1>2, <2>2 DEF Player
  <2>4. PICK c \in View : c = [b EXCEPT !.status = IF owed.result = "error" THEN "gone" ELSE "SIGNUPED"]
    BY DEF View, Statuses
  <2>5. c.seat = b.seat /\ c.status = IF owed.result = "error" THEN "gone" ELSE "SIGNUPED"
    BY <2>4 DEF View
  <2>6. Link(owed, b, c, Context')
    BY <1>3, <1>4, <2>1, <2>2, <2>3, <2>4, <2>5 DEF Link, LobbyLink, To
  <2>7. Exchange(c)'
    BY <1>7, <1>10, <2>1, <2>5 DEF Exchange, SigningUp
  <2>8. Player(c)'
    BY <1>7, <2>3, <2>5 DEF Player, InGame, tableVars
  <2>9. QED
    BY <2>5, <2>6, <2>7, <2>8
<1>11. CASE status = "INITGAME"
  <2>1. AnswerOwed(b)
    BY <1>2, <1>11 DEF Exchange, Asked, AnswerUnread
  <2>2. toServer = <<>> /\ AnswerFree(toRobot)
        /\ owed.type = IF isMatch THEN "cond_ack" ELSE "quick_ack"
    BY <2>1 DEF AnswerOwed
  <2>3. CASE b.status # "INITGAME"
    <3>1. b.status \in {"gone", "GAMMING"} /\ (b.status = "GAMMING" => ~isMatch)
      BY <2>1, <2>3 DEF AnswerOwed
    <3>2. toRobot # <<>>
      BY <1>11, <3>1
    <3>3. Head(toRobot).type \notin LobbyAcks \cup Ignored
      <4>1. Head(toRobot).type \notin LobbyAcks
        BY <2>2, <3>2, FirstMessage DEF Msg
      <4>2. Head(toRobot).type \notin Ignored
        BY <1>2, <1>11, <3>2 DEF Exchange
      <4>3. QED
        BY <4>1, <4>2
    <3>4. AnswerUnread(b)'
      BY <1>5, <1>7, <2>2, <2>3, <3>2, <3>3 DEF AnswerUnread, LobbyAcks
    <3>5. Exchange(b)'
      BY <1>5, <1>7, <1>11, <3>2, <3>3, <3>4 DEF Exchange
    <3>6. QED
      BY <1>8, <2>2, <3>1, <3>5
  <2>4. CASE b.status = "INITGAME"
    <3>1. toRobot = <<>>
      BY <2>1, <2>4 DEF AnswerOwed
    <3>2. ~InGame /\ (owed.result \in {"ok", "signed"} <=> place # "none")
      BY <1>2, <2>4 DEF Player
    <3> DEFINE st == CASE owed.result = "ok" -> "QUICKGAME"
                       [] owed.result = "signed" -> "SIGNUPED"
                       [] owed.result = "allowed" -> "CANSINGUP"
                       [] OTHER -> "gone"
    <3>3. PICK c \in View : c = [b EXCEPT !.status = st]
      BY <1>6, <2>2 DEF View, Statuses
    <3>4. c.seat = b.seat /\ c.status = st
      BY <3>3 DEF View
    <3>5. Link(owed, b, c, Context')
      BY <1>3, <1>4, <1>6, <2>2, <2>4, <3>3, <3>4 DEF Link, LobbyLink, To
    <3>6. AnswerUnread(c)'
      BY <1>5, <1>6, <1>7, <2>2, <3>1, <3>4 DEF AnswerUnread
    <3>7. Exchange(c)'
      BY <1>3, <1>5, <1>7, <1>11, <3>1, <3>6 DEF Exchange, Ignored, Notices
    <3>8. Player(c)'
      BY <1>6, <1>7, <2>2, <3>2, <3>4 DEF Player, InGame, tableVars
    <3>9. QED
      BY <3>4, <3>5, <3>7, <3>8
  <2>5. QED
    BY <2>3, <2>4
<1>12. QED
  BY <1>1, <1>2, <1>9, <1>10, <1>11 DEF Exchange, InitUnread, Statuses

(* The lobby answers.                                                      *)
LEMMA LobbyAnswersKeeps == IInv /\ LobbyAnswers => IInv'
<1> SUFFICES ASSUME IInv, LobbyAnswers PROVE IInv'
  OBVIOUS
<1>1. /\ owed # NoMsg /\ owed' = NoMsg /\ Push(<<owed>>)
      /\ UNCHANGED serverOnly /\ UNCHANGED <<toServer, session, place, tableVars>>
      /\ UNCHANGED <<isMatch, robotVars, up, delayed>>
  BY DEF LobbyAnswers, serverOnly, fateVars
<1>2. session = "inited" /\ owed \in Message /\ TagOf(owed) = NoTurn
  BY <1>1 DEF IInv, Typed, ServerTyped, TableFits, Message, LobbyAnswer, TagOf, Notices
<1>3. toRobot' = IF up THEN toRobot \o <<owed>> ELSE toRobot
  BY <1>1, <1>2 DEF Push
<1>4. toRobot \o <<owed>> = Append(toRobot, owed)
  BY <1>2, AppendIsConcat DEF IInv, Typed, LineTyped
<1>5. LineTyped' /\ Tags' /\ Waits' /\ CallIsLegal'
  <2>1. UNCHANGED <<step, turn, turnNo, mySeat, calls, excused, blind>>
    BY <1>1 DEF tableVars
  <2>2. QED
    BY <1>1, <1>2, <1>3, <1>4, <2>1, PlainSend
<1>6. ServerTyped' /\ TableFits' /\ LineFits'
  BY <1>1, <1>3 DEF IInv, Typed, ServerTyped, TableFits, InGame, Rejoining, LineFits, OnlyRequest,
                    tableVars, robotVars
<1>7. Views'
  <2>1. CASE ~up
    BY <1>1, <2>1 DEF Views
  <2>2. CASE up
    <3>1. PICK a, b \in View :
            /\ Trace(toRobot, a, b, Context) /\ IsRobot(a) /\ Expected(b)
            /\ a.status = status /\ b.status \in Reach(status)
            /\ toRobot = <<>> => a = b
      BY <2>2, RobotViews
    <3>2. toRobot' = Append(toRobot, owed)
      BY <1>3, <1>4, <2>2
    <3>3. PICK c \in View : /\ c.seat = b.seat /\ Link(owed, b, c, Context')
                            /\ Exchange(c)' /\ Player(c)'
      BY <1>1, <2>2, <3>1, <3>2, AnswerLeads
    <3>4. b.seat = mySeat /\ status # "INIT" /\ session' = "inited"
          /\ mySeat' = mySeat /\ status' = status
      BY <1>1, <1>2, <3>1 DEF Expected, robotVars, tableVars
    <3>5. Expected(c)'
      BY <3>3, <3>4 DEF Expected
    <3>6. (excused => excused') /\ (Context'.sure => Context.sure) /\ calls' = calls
      BY <1>1 DEF Context, tableVars
    <3>7. toRobot' = toRobot \o <<owed>>
      BY <1>3, <2>2
    <3>8. QED
      BY <1>1, <1>2, <3>1, <3>3, <3>5, <3>6, <3>7, SendViews
  <2>3. QED
    BY <2>1, <2>2
<1>8. QED
  BY <1>1, <1>5, <1>6, <1>7, ServerStep

(* The session ends: what is under way to the robot still tells what it    *)
(* told.                                                                   *)
LEMMA EndSessionKeeps ==
  ASSUME IInv, EndSession
  PROVE  IInv'
<1>1. /\ session' = "none" /\ toServer' = <<>> /\ owed' = NoMsg /\ excused' = TRUE
      /\ place' = (IF place = "queued" /\ ~isMatch THEN "none" ELSE place)
      /\ trusted' = (place = "table")
      /\ UNCHANGED serverOnly
      /\ UNCHANGED <<isMatch, robotVars, up, delayed, toRobot, step, mySeat, calls, lord, turn,
                     turnNo, blind, games>>
  BY DEF EndSession, serverOnly, fateVars
<1>2. /\ <<>> \in Seq(RequestSet) /\ DOMAIN (<<>>) = {}
  OBVIOUS
<1>3. LineTyped' /\ Waits' /\ CallIsLegal'
  BY <1>1, <1>2 DEF IInv, Typed, LineTyped, Waits, CallIsLegal, CallsAreLegal, LegalAnswer,
                    LegalScore, MyTurn
<1>4. Tags'
  <2>1. \A item : Current(item)' <=> Current(item)
    BY <1>1 DEF Current
  <2>2. AllCurrent(toServer)' /\ TaggedOnce(toServer)' /\ Untagged(toServer)'
    BY <1>1, <1>2 DEF AllCurrent, TaggedOnce, Untagged
  <2>3. AllCurrent(toRobot)' /\ \A r \in delayed' : Current(r)'
    BY <1>1, <2>1 DEF IInv, Tags, AllCurrent
  <2>4. TaggedOnce(toRobot)' /\ (Untagged(toRobot) \/ delayed = {})'
    BY <1>1 DEF IInv, Tags
  <2>5. QED
    BY <1>1, <1>2, <2>2, <2>3, <2>4 DEF IInv, Tags
<1>5. ServerTyped'
  BY <1>1 DEF IInv, Typed, ServerTyped, Sessions, Places
<1>6. TableFits'
  BY <1>1 DEF IInv, TableFits, InGame, Rejoining
<1>7. LineFits'
  BY <1>1 DEF IInv, LineFits, robotVars
<1>8. Views'
  <2>1. CASE ~up
    BY <1>1, <2>1 DEF Views
  <2>2. CASE up
    <3>1. PICK a, b \in View : Trace(toRobot, a, b, Context) /\ IsRobot(a)
      BY <2>2, RobotViews
    <3>2. /\ toRobot \in Seq(Message) /\ Context'.match = Context.match
          /\ Context'.heard = FALSE /\ Context'.sure = Context.sure /\ Context'.calls = Context.calls
      BY <1>1 DEF IInv, Typed, LineTyped, Context
    <3> DEFINE l == Context'
    <3>3. l.match = Context.match /\ ~l.heard /\ l.sure = Context.sure /\ l.calls = Context.calls
      BY <3>2
    <3> HIDE DEF l
    <3>4. Trace(toRobot, a, b, l)
      BY <3>1, <3>2, <3>3, ContextTrace
    <3>5. Trace(toRobot', a, b, Context') /\ IsRobot(a)' /\ Expected(b)'
      BY <1>1, <3>1, <3>4 DEF l, IsRobot, Expected, robotVars
    <3>6. QED
      BY <3>5 DEF Views
  <2>3. QED
    BY <2>1, <2>2
<1>9. QED
  BY <1>1, <1>3, <1>4, <1>5, <1>6, <1>7, <1>8, ServerStep

-----------------------------------------------------------------------------
(* The table answers                                                       *)

(* Only a robot in a game asks something of the table.                     *)
LEMMA GameAsked ==
  ASSUME IInv, up, toServer # <<>>, Head(toServer).type \in GameRequests,
         NEW b \in View, Expected(b), b.status \in Reach(status)
  PROVE  /\ session = "inited" /\ status = "GAMMING" /\ b.status \in {"GAMMING", "gone"}
         /\ b.seat = mySeat /\ Exchange(b) /\ Player(b)
<1>1. session = "inited" /\ 1 \in DOMAIN toServer /\ toServer[1] = Head(toServer)
  BY FirstAsked
<1>2. status # "INIT" /\ Exchange(b) /\ Player(b) /\ b.seat = mySeat
  BY <1>1 DEF Expected
<1>3. ASSUME NEW type, toServer = <<Request(type, 0, NoTurn)>>
      PROVE  Head(toServer).type = type
  <2>1. \A x : Head(<<x>>) = x
    OBVIOUS
  <2>2. QED
    BY <1>3, <2>1 DEF Request
<1>4. status \in Statuses /\ toServer # <<>>
  BY DEF IInv, Typed, RobotTyped
<1>5. status \notin {"VERIFIED", "SIGNUPED", "QUICKGAME", "KEEPPLAY"}
  BY <1>2 DEF Exchange, InitUnread
<1>6. status # "INITGAME"
  <2>1. ASSUME Asked(b) PROVE Head(toServer).type \in {"cond", "quick"}
    BY <1>3, <2>1 DEF Asked
  <2>2. QED
    BY <1>2, <2>1 DEF Exchange, AnswerOwed, AnswerUnread, GameRequests
<1>7. status # "CANSINGUP"
  <2>1. ASSUME SigningUp(b) PROVE Head(toServer).type = "sign_up"
    BY <1>3, <2>1 DEF SigningUp
  <2>2. QED
    BY <1>2, <2>1 DEF Exchange, GameRequests
<1>8. status = "GAMMING"
  BY <1>2, <1>4, <1>5, <1>6, <1>7 DEF Statuses
<1>9. QED
  BY <1>1, <1>2, <1>8 DEF Reach

(* A request that changes nothing of the game, and its answer.             *)
LEMMA AckKeeps ==
  ASSUME IInv, toServer # <<>>, Head(toServer).type \in GameRequests \ {"call", "takeout"},
         step = "scene" => Head(toServer).type # "ready",
         NEW m \in Message, m.type \in {"cancel_ack", "ready_ack"}, Notify(<<m>>),
         toServer' = Tail(toServer), trusted' \in BOOLEAN,
         UNCHANGED <<serverOnly, session, owed, place, step, mySeat, calls, lord, turn, turnNo,
                     excused, blind, games>>
  PROVE  IInv'
<1>1. UNCHANGED serverOnly /\ UNCHANGED <<isMatch, robotVars, up, delayed>>
  BY DEF serverOnly, fateVars
<1>2. /\ session = "inited" /\ TagOf(Head(toServer)) = NoTurn /\ TagOf(m) = NoTurn
      /\ toServer \in Seq(RequestSet)
  BY FirstAsked DEF TagOf, Notices
<1>3. toRobot' = IF up THEN toRobot \o <<m>> ELSE toRobot
  BY <1>2 DEF Notify
<1>4. toRobot \o <<m>> = Append(toRobot, m)
  BY AppendIsConcat DEF IInv, Typed, LineTyped
<1>5. LineTyped' /\ Tags' /\ Waits' /\ CallIsLegal'
  BY <1>1, <1>2, <1>3, <1>4, PlainSend
<1>6. \A i \in DOMAIN toServer' : i + 1 \in DOMAIN toServer /\ toServer'[i] = toServer[i + 1]
  BY <1>2, TailFacts
<1>7. ServerTyped' /\ TableFits'
  <2>1. isMatch' = isMatch
    BY <1>1
  <2>2. ServerTyped'
    BY DEF IInv, Typed, ServerTyped
  <2>3. TableFits'
    BY <2>1 DEF IInv, TableFits, InGame, Rejoining
  <2>4. QED
    BY <2>2, <2>3
<1>8. LineFits'
  BY <1>1, <1>2, <1>3, <1>6 DEF IInv, LineFits, robotVars
<1>9. Views'
  <2>1. CASE ~up
    BY <1>1, <2>1 DEF Views
  <2>2. CASE up
    <3>1. PICK a, b \in View :
            /\ Trace(toRobot, a, b, Context) /\ IsRobot(a) /\ Expected(b)
            /\ b.status \in Reach(status)
      BY <2>2, RobotViews
    <3>2. /\ status = "GAMMING" /\ b.status \in {"GAMMING", "gone"}
          /\ b.seat = mySeat /\ Exchange(b) /\ Player(b)
      BY <2>2, <3>1, GameAsked
    <3>3. Link(m, b, b, Context')
      BY <1>2, <3>2 DEF Link, GameLink
    <3>4. /\ status' = "GAMMING" /\ isMatch' = isMatch /\ owed' = owed /\ mySeat' = mySeat
          /\ session' = "inited"
      BY <1>1, <1>2, <3>2 DEF robotVars
    <3>5. Exchange(b)'
      BY <1>6, <3>2, <3>4 DEF Exchange
    <3>6. Player(b)'
      BY <3>2, <3>4 DEF Player, InTune, InGame
    <3>7. Expected(b)'
      BY <3>2, <3>4, <3>5, <3>6 DEF Expected
    <3>8. (excused => excused') /\ (Context'.sure => Context.sure) /\ calls' = calls
      BY DEF Context
    <3>9. toRobot' = toRobot \o <<m>>
      BY <1>3, <2>2
    <3>10. QED
      BY <1>1, <3>1, <3>3, <3>7, <3>8, <3>9, SendViews
  <2>3. QED
    BY <2>1, <2>2
<1>10. QED
  BY <1>1, <1>5, <1>7, <1>8, <1>9, ServerStep

(* TRUST_CANCEL.                                                           *)
LEMMA ServeTrustCancelKeeps == IInv /\ ServeTrustCancel => IInv'
<1> SUFFICES ASSUME IInv, ServeTrustCancel PROVE IInv'
  OBVIOUS
<1>1. /\ toServer # <<>> /\ Head(toServer).type = "trust_cancel"
      /\ toServer' = Tail(toServer) /\ trusted' = FALSE
      /\ Notify(<<[type |-> "cancel_ack", ok |-> TRUE]>>)
      /\ UNCHANGED <<serverOnly, session, owed, place, step, mySeat, calls, lord, turn, turnNo,
                     excused, blind, games>>
  BY DEF ServeTrustCancel, Requested, Ack
<1>2. PICK m \in Message : /\ m = [type |-> "cancel_ack", ok |-> TRUE]
                           /\ m.type = "cancel_ack"
  <2>1. [type |-> "cancel_ack", ok |-> TRUE] \in Message
    BY DEF Message
  <2>2. QED
    BY <2>1
<1>3. Head(toServer).type \in GameRequests \ {"call", "takeout"} /\ Head(toServer).type # "ready"
  BY <1>1 DEF GameRequests
<1>4. QED
  BY <1>1, <1>2, <1>3, AckKeeps

(* READY that comes too late.                                              *)
LEMMA LateReadyKeeps == IInv /\ ServeReady /\ step # "scene" => IInv'
<1> SUFFICES ASSUME IInv, ServeReady, step # "scene" PROVE IInv'
  OBVIOUS
<1>1. /\ toServer # <<>> /\ Head(toServer).type = "ready"
      /\ toServer' = Tail(toServer)
      /\ Notify(<<[type |-> "ready_ack"]>>)
      /\ UNCHANGED <<serverOnly, session, owed, place, step, mySeat, calls, lord, turn, turnNo,
                     excused, blind, games>>
      /\ trusted' = trusted
  BY DEF ServeReady, Requested
<1>2. PICK m \in Message : m = [type |-> "ready_ack"] /\ m.type = "ready_ack"
  <2>1. [type |-> "ready_ack"] \in Message
    BY DEF Message
  <2>2. QED
    BY <2>1
<1>3. Head(toServer).type \in GameRequests \ {"call", "takeout"} /\ trusted' \in BOOLEAN
  BY <1>1 DEF GameRequests, IInv, Typed, ServerTyped
<1>4. QED
  BY <1>1, <1>2, <1>3, AckKeeps

(* KEEP_PLAY: the robot is back in its game.                               *)
LEMMA ServeKeepKeeps == IInv /\ ServeKeep => IInv'
<1> SUFFICES ASSUME IInv, ServeKeep PROVE IInv'
  OBVIOUS
<1>1. /\ toServer # <<>> /\ Head(toServer).type = "keep" /\ toServer' = Tail(toServer)
      /\ session' = "inited" /\ excused' = TRUE /\ blind' = (step = "call")
      /\ Notify(<<[type |-> "keep_ack", ok |-> InGame, seat |-> mySeat, lord |-> lord]>>)
      /\ UNCHANGED serverOnly
      /\ UNCHANGED <<isMatch, robotVars, up, delayed, owed, place, step, mySeat, calls, lord, turn,
                     turnNo, trusted, games>>
  BY DEF ServeKeep, Requested, serverOnly, fateVars
<1>2. /\ session = "rejoining" /\ toServer' = <<>> /\ TagOf(Head(toServer)) = NoTurn
  BY <1>1, FirstAsked
<1>3. owed = NoMsg /\ InGame = TRUE
  BY <1>2 DEF IInv, TableFits, Rejoining, InGame
<1>4. PICK m \in Message : /\ m = [type |-> "keep_ack", ok |-> InGame, seat |-> mySeat, lord |-> lord]
                           /\ m.type = "keep_ack" /\ m.ok = TRUE /\ m.seat = mySeat /\ m.lord = lord
                           /\ TagOf(m) = NoTurn
  <2> DEFINE x == [type |-> "keep_ack", ok |-> TRUE, seat |-> mySeat, lord |-> lord]
  <2>1. x \in Message
    BY DEF Message, IInv, Typed, ServerTyped
  <2>2. TagOf(x) = NoTurn
    BY DEF TagOf, Notices
  <2>3. QED
    BY <1>3, <2>1, <2>2
<1>5. toRobot' = IF up THEN toRobot \o <<m>> ELSE toRobot
  BY <1>1, <1>2, <1>4 DEF Notify
<1>6. LineTyped' /\ Tags' /\ Waits' /\ CallIsLegal'
  <2>1. toRobot \o <<m>> = Append(toRobot, m)
    BY AppendIsConcat DEF IInv, Typed, LineTyped
  <2>2. QED
    BY <1>1, <1>2, <1>4, <1>5, <2>1, PlainSend
<1>7. ServerTyped' /\ TableFits'
  <2>1. ServerTyped'
    BY <1>1 DEF IInv, Typed, ServerTyped, Sessions
  <2>2. TableFits'
    BY <1>1, <1>3 DEF IInv, TableFits, InGame, Rejoining
  <2>3. QED
    BY <2>1, <2>2
<1>8. LineFits'
  <2>1. \A i \in DOMAIN toServer' : FALSE
    BY <1>2
  <2>2. QED
    BY <1>1, <1>5, <2>1 DEF IInv, LineFits, robotVars
<1>9. Views'
  <2>1. CASE ~up
    BY <1>1, <2>1 DEF Views
  <2>2. CASE up
    <3>1. PICK a, b \in View :
            /\ Trace(toRobot, a, b, Context) /\ IsRobot(a) /\ Expected(b)
      BY <2>2, RobotViews
    <3>2. /\ b.seat = mySeat /\ b.status = "KEEPPLAY" /\ status = "KEEPPLAY"
      BY <1>1, <1>2, <3>1 DEF Expected, Returning
    <3>3. PICK c \in View : c = [b EXCEPT !.status = "GAMMING", !.ai = m.seat, !.lordSeat = m.lord,
                                          !.history = <<>>]
      <4>1. /\ m.seat \in Seats \cup {NoSeat} /\ m.lord \in Seats \cup {NoSeat}
            /\ <<>> \in Seq(0..3)
        BY <1>4, MessageFields
      <4>2. QED
        BY <4>1 DEF View, Statuses
    <3>4. /\ c.seat = b.seat /\ c.status = "GAMMING" /\ c.ai = mySeat /\ c.lordSeat = lord
      BY <1>4, <3>3 DEF View
    <3>5. Link(m, b, c, Context')
      BY <1>4, <3>2, <3>3, <3>4 DEF Link, LobbyLink
    <3>6. status' = "KEEPPLAY" /\ owed' = NoMsg /\ mySeat' = mySeat
      BY <1>1, <1>3, <3>2 DEF robotVars
    <3>7. Exchange(c)'
      BY <1>2, <3>4, <3>6 DEF Exchange
    <3>8. Player(c)'
      BY <1>1, <1>3, <3>4 DEF Player, InTune, InGame
    <3>9. Expected(c)'
      BY <1>1, <3>2, <3>4, <3>6, <3>7, <3>8 DEF Expected
    <3>10. (excused => excused') /\ (Context'.sure => Context.sure) /\ calls' = calls
      BY <1>1 DEF Context
    <3>11. toRobot' = toRobot \o <<m>>
      BY <1>5, <2>2
    <3>12. QED
      BY <1>1, <3>1, <3>5, <3>9, <3>10, <3>11, SendViews
  <2>3. QED
    BY <2>1, <2>2
<1>10. QED
  BY <1>1, <1>6, <1>7, <1>8, <1>9, ServerStep

-----------------------------------------------------------------------------
(* The table moves                                                         *)

(* A move of the table, made while no turn is being told or answered.      *)
LEMMA MoveKeeps ==
  ASSUME IInv, UNCHANGED serverOnly, session' = session, ServerTyped', TableFits', Views',
         Untagged(toRobot), delayed = {}, Untagged(toServer'),
         \/ toServer' = toServer
         \/ session = "inited" /\ toServer # <<>> /\ toServer' = Tail(toServer),
         NEW p \in Seq(Message), Notify(p), TaggedOnce(p),
         \A i \in DOMAIN p : TagOf(p[i]) # NoTurn => Current(p[i])',
         turn' = mySeat' /\ step' \in {"call", "play"} /\ ~excused' => ~Untagged(p),
         step' = "scene" /\ ~excused' => Holds(p, "scene")
  PROVE  IInv'
<1>1. /\ UNCHANGED <<isMatch, robotVars, up, delayed>>
      /\ toRobot \in Seq(Message) /\ toServer \in Seq(RequestSet)
  BY DEF serverOnly, fateVars, IInv, Typed, LineTyped
<1>2. /\ toServer' \in Seq(RequestSet)
      /\ \A i \in DOMAIN toServer' : \E j \in DOMAIN toServer : toServer'[i] = toServer[j]
  <2>1. CASE toServer' = toServer
    BY <1>1, <2>1
  <2>2. CASE toServer # <<>> /\ toServer' = Tail(toServer)
    <3>1. /\ Tail(toServer) \in Seq(RequestSet)
          /\ \A i \in DOMAIN Tail(toServer) :
               i + 1 \in DOMAIN toServer /\ Tail(toServer)[i] = toServer[i + 1]
      BY <1>1, <2>2, TailFacts
    <3>2. QED
      BY <2>2, <3>1
  <2>3. QED
    BY <2>1, <2>2
<1> DEFINE r == toRobot \o p
<1>3. /\ r \in Seq(Message) /\ TaggedOnce(r)
      /\ ~Untagged(p) => ~Untagged(r)
      /\ \A i \in DOMAIN r : TagOf(r[i]) # NoTurn => \E j \in DOMAIN p : r[i] = p[j]
      /\ Holds(p, "scene") => Holds(r, "scene")
  <2>1. r \in Seq(Message)
    BY <1>1, ConcatFacts
  <2>2. /\ TaggedOnce(r)
        /\ ~Untagged(p) => ~Untagged(r)
        /\ \A i \in DOMAIN r : TagOf(r[i]) # NoTurn => \E j \in DOMAIN p : r[i] = p[j]
        /\ \A type : Holds(p, type) => Holds(r, type)
    BY <1>1, ConcatTags
  <2> HIDE DEF r
  <2>3. QED
    BY <2>1, <2>2
<1>4. toRobot' = IF up /\ session \in {"inited", "rejoining"} THEN r ELSE toRobot
  BY DEF Notify
<1> HIDE DEF r
<1>5. TaggedOnce(toRobot) /\ \A i \in DOMAIN toRobot : TagOf(toRobot[i]) = NoTurn
  BY DEF IInv, Tags, Untagged
<1>6. /\ toRobot' \in Seq(Message) /\ TaggedOnce(toRobot')
      /\ \A i \in DOMAIN toRobot' :
           TagOf(toRobot'[i]) # NoTurn => \E j \in DOMAIN p : toRobot'[i] = p[j]
  BY <1>1, <1>3, <1>4, <1>5
<1>7. LineTyped'
  BY <1>1, <1>2, <1>6 DEF IInv, Typed, LineTyped
<1>8. Tags'
  <2>1. AllCurrent(toRobot)'
    <3>1. ASSUME NEW i \in DOMAIN toRobot', TagOf(toRobot'[i]) # NoTurn
          PROVE  Current(toRobot[i])'
      <4>1. PICK j \in DOMAIN p : toRobot'[i] = p[j]
        BY <1>6, <3>1
      <4>2. Current(p[j])'
        BY <3>1, <4>1
      <4>3. QED
        BY <4>1, <4>2 DEF Current
    <3>2. QED
      BY <3>1 DEF AllCurrent
  <2>2. AllCurrent(toServer)' /\ TaggedOnce(toServer)'
    BY DEF AllCurrent, TaggedOnce, Untagged
  <2>3. \A i \in DOMAIN toServer' :
          toServer'[i].type \in {"call", "takeout"} => toServer'[i].turn # NoTurn
    BY <1>2 DEF IInv, Tags
  <2>4. QED
    BY <1>1, <1>6, <2>1, <2>2, <2>3 DEF Tags
<1>9. Waits'
  <2>1. ASSUME up', turn' = mySeat', step' \in {"call", "play"}, ~excused'
        PROVE  ~Untagged(toRobot')
    <3>1. session = "inited"
      BY <2>1 DEF TableFits
    <3>2. QED
      BY <1>1, <1>3, <1>4, <2>1, <3>1
  <2>2. ASSUME up', step' = "scene", ~excused' PROVE Holds(toRobot', "scene")
    <3>1. session = "inited"
      BY <2>2 DEF TableFits
    <3>2. QED
      BY <1>1, <1>3, <1>4, <2>2, <3>1
  <2>3. QED
    BY <2>1, <2>2 DEF Waits
<1>10. CallIsLegal'
  BY <1>1 DEF CallIsLegal, CallsAreLegal
<1>11. LineFits'
  BY <1>1, <1>2, <1>4 DEF IInv, LineFits, OnlyRequest, robotVars
<1>12. QED
  BY <1>7, <1>8, <1>9, <1>10, <1>11, ServerStep

(* A robot that is not in the game passes its messages over.               *)
LEMMA IgnoredTrace ==
  ASSUME NEW p \in Seq(Message), NEW b \in View, NEW k, b.status # "GAMMING",
         \A i \in DOMAIN p : p[i].type \in Ignored /\ (TagOf(p[i]) # NoTurn => ~k.heard)
  PROVE  Trace(p, b, b, k)
<1> DEFINE f == [i \in 1..(Len(p) + 1) |-> b]
<1>1. Len(p) \in Nat /\ DOMAIN p = 1..Len(p)
  OBVIOUS
<1>2. 1 \in 1..(Len(p) + 1) /\ Len(p) + 1 \in 1..(Len(p) + 1)
  BY <1>1
<1>3. \A i \in 1..Len(p) : i \in 1..(Len(p) + 1) /\ i + 1 \in 1..(Len(p) + 1)
  BY <1>1
<1>4. \A i \in 1..(Len(p) + 1) : f[i] = b
  OBVIOUS
<1> HIDE DEF f
<1>5. b.status \in Reach(b.status)
  BY ReachIsReflexive DEF View
<1>6. \A i \in 1..Len(p) : Link(p[i], f[i], f[i + 1], k)
  BY <1>1, <1>3, <1>4 DEF Link, Ignored, Notices
<1>7. QED
  BY <1>2, <1>4, <1>5, <1>6 DEF Trace, Leads

(* The views after a move of the table.                                    *)
LEMMA MoveViews ==
  ASSUME IInv, UNCHANGED serverOnly, session' = session, Untagged(toRobot),
         NEW p \in Seq(Message), Notify(p),
         session \notin {"none", "inited"} => mySeat' = mySeat /\ toServer' = toServer,
         session = "rejoining" =>
           \A i \in DOMAIN p : p[i].type \in Ignored /\ (TagOf(p[i]) # NoTurn => excused'),
         session = "inited" =>
           \A a, b \in View :
             /\ up /\ Trace(toRobot, a, b, Context) /\ IsRobot(a) /\ Expected(b)
             /\ a.status = status /\ b.status \in Reach(status)
             /\ toRobot = <<>> => a = b
             => \E c \in View : Trace(p, b, c, Context') /\ Expected(c)'
  PROVE  Views'
<1>1. /\ UNCHANGED <<isMatch, robotVars, up>>
      /\ toRobot \in Seq(Message)
      /\ session \in {"none", "open", "verified", "returning", "inited", "rejoining"}
  BY DEF serverOnly, fateVars, IInv, Typed, LineTyped, ServerTyped, Sessions
<1>2. CASE ~up
  BY <1>1, <1>2 DEF Views
<1>3. CASE up
  <2>1. PICK a, b \in View :
          /\ Trace(toRobot, a, b, Context) /\ IsRobot(a) /\ Expected(b)
          /\ a.status = status /\ b.status \in Reach(status)
          /\ toRobot = <<>> => a = b
    BY <1>3, RobotViews
  <2> DEFINE l == Context'
  <2>2. l.match = Context.match /\ (l.heard <=> ~excused')
    BY <1>1 DEF Context
  <2> HIDE DEF l
  <2>3. Trace(toRobot, a, b, l)
    BY <1>1, <2>1, <2>2, ContextTrace
  <2>4. IsRobot(a)'
    BY <1>1, <2>1 DEF IsRobot, robotVars
  <2>5. ASSUME NEW c \in View, Trace(p, b, c, l), Expected(c)', session \in {"inited", "rejoining"}
        PROVE  Views'
    <3>1. Trace(toRobot \o p, a, c, l)
      BY <1>1, <2>3, <2>5, ConcatTrace
    <3>2. toRobot' = toRobot \o p
      BY <1>3, <2>5 DEF Notify
    <3>3. Trace(toRobot', a, c, Context')
      BY <3>1, <3>2 DEF l
    <3>4. QED
      BY <2>4, <2>5, <3>3 DEF Views
  <2>6. CASE session = "inited"
    <3>1. PICK c \in View : Trace(p, b, c, Context') /\ Expected(c)'
      BY <1>3, <2>1, <2>6
    <3>2. QED
      BY <2>5, <2>6, <3>1 DEF l
  <2>7. CASE session = "rejoining"
    <3>1. b.seat = mySeat /\ Returning(b)
      BY <2>1, <2>7 DEF Expected
    <3>2. b.status # "GAMMING"
      BY <3>1 DEF Returning
    <3>3. Trace(p, b, b, l)
      BY <2>2, <2>7, <3>2, IgnoredTrace
    <3>4. Returning(b)'
      BY <1>1, <2>7, <3>1 DEF Returning, robotVars
    <3>5. Expected(b)'
      BY <2>7, <3>1, <3>4 DEF Expected
    <3>6. QED
      BY <2>5, <2>7, <3>3, <3>5
  <2>8. CASE session \in {"none", "open", "verified", "returning"}
    <3>1. toRobot' = toRobot
      BY <2>8 DEF Notify
    <3>2. Expected(b)'
      BY <1>1, <2>1, <2>8, <3>1 DEF Expected, Opening, Verifying, robotVars
    <3>3. Trace(toRobot', a, b, Context')
      BY <2>3, <3>1 DEF l
    <3>4. QED
      BY <2>4, <3>2, <3>3 DEF Views
  <2>9. QED
    BY <1>1, <2>6, <2>7, <2>8
<1>4. QED
  BY <1>2, <1>3

(* The exchange with the lobby goes on behind a move of the table.         *)
LEMMA ExchangeGoesOn ==
  ASSUME IInv, NEW a \in View, NEW b \in View, NEW c \in View,
         Trace(toRobot, a, b, Context), IsRobot(a), Exchange(b), status # "INIT",
         a.status = status, b.status \in Reach(status), toRobot = <<>> => a = b,
         b.status \notin {"CANSINGUP", "gone"}, c.status \in {"GAMMING", "gone"},
         NEW p \in Seq(Message), p # <<>>, AnswerFree(p),
         b.status = "GAMMING" \/ Head(p).type \notin Ignored,
         b.status = "INITGAME" =>
           \/ isMatch /\ c.status = "gone" /\ OnlyOver(p)
           \/ ~isMatch /\ owed # NoMsg /\ c.status = "GAMMING",
         toRobot' = toRobot \o p,
         \/ toServer' = toServer
         \/ b.status = "GAMMING" /\ toServer # <<>> /\ toServer' = Tail(toServer),
         UNCHANGED <<isMatch, robotVars, owed>>
  PROVE  Exchange(c)'
<1>1. toRobot \in Seq(Message) /\ toServer \in Seq(RequestSet) /\ status' = status
      /\ needKeepPlay' = needKeepPlay /\ status \in Statuses /\ isMatch \in BOOLEAN
  BY DEF IInv, Typed, LineTyped, RobotTyped, robotVars
<1>2. /\ toRobot' # <<>>
      /\ toRobot # <<>> => Head(toRobot') = Head(toRobot) /\ Tail(toRobot') = Tail(toRobot) \o p
      /\ toRobot = <<>> => toRobot' = p
      /\ \A i \in DOMAIN toRobot' : \/ i \in DOMAIN toRobot /\ toRobot'[i] = toRobot[i]
                                    \/ \E j \in DOMAIN p : toRobot'[i] = p[j]
  <2> DEFINE r == toRobot \o p
  <2>1. /\ r # <<>>
        /\ toRobot # <<>> => Head(r) = Head(toRobot) /\ Tail(r) = Tail(toRobot) \o p
        /\ toRobot = <<>> => r = p
        /\ \A i \in DOMAIN toRobot : r[i] = toRobot[i]
        /\ \A i \in DOMAIN r : \/ i \in DOMAIN toRobot
                               \/ i - Len(toRobot) \in DOMAIN p /\ r[i] = p[i - Len(toRobot)]
    <3>1. toRobot \in Seq(Message) /\ p \in Seq(Message) /\ p # <<>>
      BY <1>1
    <3>2. /\ toRobot # <<>> => Head(r) = Head(toRobot) /\ Tail(r) = Tail(toRobot) \o p
          /\ toRobot = <<>> => r = p
          /\ p # <<>> => r # <<>>
          /\ \A j \in DOMAIN toRobot : r[j] = toRobot[j]
          /\ \A i \in DOMAIN r : \/ i \in DOMAIN toRobot
                                 \/ i - Len(toRobot) \in DOMAIN p /\ r[i] = p[i - Len(toRobot)]
      BY <3>1, ConcatFacts
    <3>3. QED
      BY <3>1, <3>2
  <2> HIDE DEF r
  <2>2. toRobot' = r
    BY DEF r
  <2>3. QED
    BY <2>1, <2>2
<1>3. CASE status = "GAMMING"
  <2>1. \A i \in DOMAIN toServer' : toServer'[i].type \in GameRequests
    <3>1. \A i \in DOMAIN toServer : toServer[i].type \in GameRequests
      BY <1>3 DEF Exchange
    <3>2. CASE toServer' = toServer
      BY <3>1, <3>2
    <3>3. CASE toServer # <<>> /\ toServer' = Tail(toServer)
      <4>1. \A i \in DOMAIN Tail(toServer) :
              i + 1 \in DOMAIN toServer /\ Tail(toServer)[i] = toServer[i + 1]
        BY <1>1, <3>3, TailFacts
      <4>2. QED
        BY <3>1, <3>3, <4>1
    <3>4. QED
      BY <3>2, <3>3
  <2>2. QED
    BY <1>1, <1>3, <2>1 DEF Exchange
<1>4. CASE status \in {"SIGNUPED", "QUICKGAME", "KEEPPLAY"}
  BY <1>1, <1>4 DEF Exchange
<1>5. CASE status = "CANSINGUP"
  <2>1. toRobot # <<>>
    BY <1>5
  <2>2. toServer = <<>> /\ owed = NoMsg
    BY <1>5, <2>1 DEF Exchange, SigningUp
  <2>3. SigningUp(c)'
    BY <2>2 DEF SigningUp
  <2>4. QED
    BY <1>1, <1>5, <2>3 DEF Exchange
<1>6. CASE status = "VERIFIED"
  <2>1. InitUnread(b)
    BY <1>6 DEF Exchange
  <2>2. /\ b.status = "INITGAME" /\ Tail(toRobot) = <<>> /\ toRobot # <<>>
        /\ Head(toRobot).type = "init_ack" /\ owed = NoMsg /\ ~needKeepPlay /\ toServer = <<>>
    BY <2>1 DEF InitUnread
  <2>3. isMatch /\ c.status = "gone" /\ OnlyOver(p)
    BY <2>2
  <2>4. Tail(toRobot') = p
    <3>1. Tail(toRobot') = <<>> \o p
      BY <1>2, <2>2
    <3>2. QED
      BY <3>1
  <2>5. InitUnread(c)'
    BY <1>1, <1>2, <2>2, <2>3, <2>4 DEF InitUnread
  <2>6. QED
    BY <1>1, <1>6, <2>5 DEF Exchange
<1>7. CASE status = "INITGAME"
  <2>1. toRobot' # <<>> /\ Head(toRobot').type \notin Ignored
    <3>1. CASE toRobot = <<>>
      BY <1>2, <1>7, <3>1
    <3>2. CASE toRobot # <<>>
      BY <1>2, <1>7, <3>2 DEF Exchange
    <3>3. QED
      BY <3>1, <3>2
  <2>2. CASE Asked(b)
    <3>1. /\ b.status = "INITGAME" /\ toRobot = <<>> /\ owed = NoMsg
          /\ toServer = <<Request(IF isMatch THEN "cond" ELSE "quick", 0, NoTurn)>>
      BY <2>2 DEF Asked
    <3>2. isMatch /\ c.status = "gone" /\ OnlyOver(p) /\ toServer' = toServer /\ toRobot' = p
      BY <1>2, <3>1
    <3>3. Asked(c)'
      BY <3>1, <3>2 DEF Asked
    <3>4. QED
      BY <1>1, <1>7, <2>1, <3>3 DEF Exchange
  <2>3. CASE AnswerOwed(b)
    <3>1. toServer = <<>> /\ toServer' = <<>> /\ owed # NoMsg /\ AnswerFree(toRobot)
          /\ owed.type = IF isMatch THEN "cond_ack" ELSE "quick_ack"
      BY <2>3 DEF AnswerOwed
    <3>2. AnswerFree(toRobot')
      BY <1>2, <3>1 DEF AnswerFree
    <3>3. CASE b.status = "INITGAME"
      <4>1. toRobot' = p
        BY <1>2, <2>3, <3>3 DEF AnswerOwed
      <4>2. AnswerOwed(c)'
        BY <3>1, <3>2, <3>3, <4>1 DEF AnswerOwed
      <4>3. QED
        BY <1>1, <1>7, <2>1, <4>2 DEF Exchange
    <3>4. CASE b.status # "INITGAME"
      <4>1. ~isMatch
        BY <2>3, <3>4 DEF AnswerOwed
      <4>2. AnswerOwed(c)'
        BY <3>1, <3>2, <4>1 DEF AnswerOwed
      <4>3. QED
        BY <1>1, <1>7, <2>1, <4>2 DEF Exchange
    <3>5. QED
      BY <3>3, <3>4
  <2>4. CASE AnswerUnread(b)
    <3>1. toServer = <<>> /\ toServer' = <<>> /\ owed = NoMsg /\ b.status # "INITGAME"
      BY <2>4 DEF AnswerUnread
    <3>2. toRobot # <<>>
      BY <1>7, <3>1
    <3>3. ~(Head(toRobot).type = "cond_ack" /\ Head(toRobot).result = "allowed")
      <4> SUFFICES ASSUME Head(toRobot).type = "cond_ack", Head(toRobot).result = "allowed"
                   PROVE  FALSE
        OBVIOUS
      <4>1. Tail(toRobot) = <<>>
        BY <2>4, <3>2 DEF AnswerUnread
      <4>2. PICK w \in View : Link(Head(toRobot), a, w, Context) /\ Trace(Tail(toRobot), w, b, Context)
        BY <1>1, <3>2, ReadTrace
      <4>3. Trace(<<>>, w, b, Context)
        BY <4>1, <4>2
      <4>4. w = b
        BY <4>3, EmptyTrace
      <4>5. LobbyLink(Head(toRobot), a, w, Context)
        BY <1>7, <4>2 DEF Link, Ignored, Notices, OverLink
      <4>6. To(a, w, "CANSINGUP")
        BY <4>5 DEF LobbyLink
      <4>7. w.status = "CANSINGUP"
        BY <4>6 DEF To, View
      <4>8. QED
        BY <4>4, <4>7
    <3>4. AnswerUnread(c)'
      BY <1>2, <3>1, <3>2, <3>3 DEF AnswerUnread
    <3>5. QED
      BY <1>1, <1>7, <2>1, <3>4 DEF Exchange
  <2>5. QED
    BY <1>7, <2>2, <2>3, <2>4 DEF Exchange
<1>8. QED
  BY <1>1, <1>3, <1>4, <1>5, <1>6, <1>7 DEF Statuses

(* No turn is being told or answered, but for the request the table takes. *)
Unpending ==
  /\ Untagged(toRobot) /\ delayed = {} /\ Untagged(toServer')
  /\ \/ toServer' = toServer
     \/ session = "inited" /\ toServer # <<>> /\ toServer' = Tail(toServer)

(* Nothing is told of a turn that is not the robot's.                      *)
LEMMA NotMyTurn ==
  ASSUME IInv, turn # mySeat \/ step \notin {"call", "play"}
  PROVE  Untagged(toRobot) /\ delayed = {} /\ Untagged(toServer)
<1>1. \A item : ~Current(item)
  BY DEF Current
<1>2. QED
  BY <1>1 DEF IInv, Tags, AllCurrent, Untagged

(* Nor when the system acts for a patient table.                           *)
LEMMA NothingOnItsWay ==
  ASSUME IInv, ~AnswerOnItsWay
  PROVE  Untagged(toRobot) /\ delayed = {} /\ Untagged(toServer)
<1>1. Untagged(toRobot)
  BY DEF IInv, Tags, AllCurrent, Untagged, Current, AnswerOnItsWay, TagOf, Notices
<1>2. delayed = {}
  BY DEF IInv, Tags, Current, AnswerOnItsWay
<1>3. Untagged(toServer)
  BY DEF IInv, Tags, AllCurrent, Untagged, Current, AnswerOnItsWay, TagOf, Notices
<1>4. QED
  BY <1>1, <1>2, <1>3

(* An answer that arrives is the answer of the running turn, the only one. *)
LEMMA AnswerTaken ==
  ASSUME IInv, toServer # <<>>, Head(toServer).type \in {"call", "takeout"}, toServer' = Tail(toServer)
  PROVE  /\ Unpending /\ session = "inited" /\ InGame /\ turn = mySeat
         /\ step = IF Head(toServer).type = "call" THEN "call" ELSE "play"
         /\ Head(toServer).score \in 0..3 /\ Head(toServer).turn = turnNo
<1>1. /\ Head(toServer) \in RequestSet /\ toServer \in Seq(RequestSet)
      /\ 1 \in DOMAIN toServer /\ toServer[1] = Head(toServer)
      /\ session = "inited"
  BY FirstAsked DEF GameRequests
<1>2. TagOf(Head(toServer)) # NoTurn
  BY <1>1 DEF IInv, Tags, TagOf, Notices
<1>3. Current(Head(toServer))
  BY <1>1, <1>2 DEF IInv, Tags, AllCurrent
<1>4. Untagged(Tail(toServer))
  BY <1>1, <1>2, TailTags DEF IInv, Tags
<1>5. Untagged(toRobot) /\ delayed = {}
  BY <1>1, <1>2 DEF IInv, Tags, Untagged
<1>6. InGame
  BY <1>3 DEF Current, InGame, IInv, TableFits
<1>7. Head(toServer).score \in 0..3
  BY <1>1 DEF RequestSet
<1>8. QED
  BY <1>1, <1>3, <1>4, <1>5, <1>6, <1>7 DEF Unpending, Current

(* A move of the table in a game, and what it tells a robot that plays.    *)
LEMMA GameMoveKeeps ==
  ASSUME IInv, UNCHANGED <<serverOnly, session, owed, mySeat>>, ServerTyped', TableFits',
         InGame, Unpending, step' # "scene",
         NEW p \in Seq(Message), p # <<>>, Notify(p), AnswerFree(p), TaggedOnce(p),
         \A i \in DOMAIN p : TagOf(p[i]) # NoTurn => Current(p[i])',
         turn' = mySeat /\ step' \in {"call", "play"} /\ ~excused' => ~Untagged(p),
         session = "rejoining" =>
           \A i \in DOMAIN p : p[i].type \in Ignored /\ (TagOf(p[i]) # NoTurn => excused'),
         session = "inited" =>
           \A b \in View :
             b.status = "GAMMING" /\ b.seat = mySeat /\ InTune(b) =>
               \E c \in View : /\ Trace(p, b, c, Context') /\ c.seat = mySeat
                               /\ c.status \in {"GAMMING", "gone"} /\ Player(c)'
  PROVE  IInv'
<1>1. UNCHANGED serverOnly /\ session' = session /\ owed' = owed /\ mySeat' = mySeat
      /\ UNCHANGED <<isMatch, robotVars, up>>
  BY DEF serverOnly, fateVars
<1>2. /\ Untagged(toRobot) /\ delayed = {} /\ Untagged(toServer')
      /\ \/ toServer' = toServer
         \/ session = "inited" /\ toServer # <<>> /\ toServer' = Tail(toServer)
  BY DEF Unpending
<1>3. ASSUME session = "inited", NEW a \in View, NEW b \in View, up,
             Trace(toRobot, a, b, Context), IsRobot(a), Expected(b),
             a.status = status, b.status \in Reach(status), toRobot = <<>> => a = b
      PROVE  \E c \in View : Trace(p, b, c, Context') /\ Expected(c)'
  <2>1. status # "INIT" /\ Exchange(b) /\ Player(b) /\ b.seat = mySeat
    BY <1>3 DEF Expected
  <2>2. b.status = "GAMMING" /\ InTune(b)
    BY <2>1 DEF Player, InGame
  <2>3. PICK c \in View : /\ Trace(p, b, c, Context') /\ c.seat = mySeat
                          /\ c.status \in {"GAMMING", "gone"} /\ Player(c)'
    BY <1>3, <2>1, <2>2
  <2>4. toRobot' = toRobot \o p
    BY <1>3 DEF Notify
  <2>5. b.status \notin {"CANSINGUP", "gone", "INITGAME"}
    BY <2>2
  <2>6. \/ toServer' = toServer
        \/ b.status = "GAMMING" /\ toServer # <<>> /\ toServer' = Tail(toServer)
    BY <1>2, <2>2
  <2>7. Exchange(c)'
    BY <1>1, <1>3, <2>1, <2>2, <2>3, <2>4, <2>5, <2>6, ExchangeGoesOn
  <2>8. Expected(c)'
    BY <1>1, <1>3, <2>1, <2>3, <2>7 DEF Expected, robotVars
  <2>9. QED
    BY <2>3, <2>8
<1>4. session \notin {"none", "inited"} => mySeat' = mySeat /\ toServer' = toServer
  BY <1>1, <1>2
<1>5. Views'
  BY <1>1, <1>2, <1>3, <1>4, MoveViews
<1>6. turn' = mySeat' /\ step' \in {"call", "play"} /\ ~excused' => ~Untagged(p)
  BY <1>1
<1>7. QED
  BY <1>1, <1>2, <1>5, <1>6, MoveKeeps

-----------------------------------------------------------------------------
(* What a move tells                                                       *)

(* One message.                                                            *)
LEMMA OneTold ==
  ASSUME NEW m \in Message, NEW v \in View, NEW w \in View, NEW k, Link(m, v, w, k)
  PROVE  <<m>> \in Seq(Message) /\ Trace(<<m>>, v, w, k)
<1>1. <<>> \in Seq(Message) /\ <<m>> \in Seq(Message) /\ Append(<<>>, m) = <<m>>
  OBVIOUS
<1>2. Trace(<<>>, v, v, k)
  BY EmptyTrace
<1>3. Trace(Append(<<>>, m), v, w, k)
  BY <1>1, <1>2, SendTrace
<1>4. QED
  BY <1>1, <1>3

(* One more message.                                                       *)
LEMMA MoreTold ==
  ASSUME NEW q \in Seq(Message), NEW m \in Message, NEW u, NEW v \in View, NEW w \in View, NEW k,
         Trace(q, u, v, k), Link(m, v, w, k)
  PROVE  q \o <<m>> \in Seq(Message) /\ Trace(q \o <<m>>, u, w, k)
<1>1. Trace(<<m>>, v, w, k) /\ <<m>> \in Seq(Message)
  BY OneTold
<1>2. QED
  BY <1>1, ConcatTrace, ConcatFacts

(* What holds of the messages of two sequences holds of them joined.       *)
LEMMA ConcatPlain ==
  ASSUME NEW q \in Seq(Message), NEW p \in Seq(Message)
  PROVE  /\ q \o p \in Seq(Message)
         /\ Untagged(q) /\ Untagged(p) => Untagged(q \o p)
         /\ AnswerFree(q) /\ AnswerFree(p) => AnswerFree(q \o p)
         /\ \A T : /\ \A i \in DOMAIN q : q[i].type \in T
                   /\ \A i \in DOMAIN p : p[i].type \in T
                   => \A i \in DOMAIN (q \o p) : (q \o p)[i].type \in T
<1> DEFINE r == q \o p
           n == Len(q)
<1>1. /\ r \in Seq(Message)
      /\ \A j \in DOMAIN q : r[j] = q[j]
      /\ \A i \in DOMAIN r : i \in DOMAIN q \/ (i - n \in DOMAIN p /\ r[i] = p[i - n])
  BY ConcatFacts
<1> HIDE DEF r, n
<1>2. Untagged(q) /\ Untagged(p) => Untagged(r)
  BY <1>1 DEF Untagged
<1>3. AnswerFree(q) /\ AnswerFree(p) => AnswerFree(r)
  BY <1>1 DEF AnswerFree
<1>4. ASSUME NEW T, \A i \in DOMAIN q : q[i].type \in T, \A i \in DOMAIN p : p[i].type \in T
      PROVE  \A i \in DOMAIN r : r[i].type \in T
  BY <1>1, <1>4
<1>5. QED
  BY <1>1, <1>2, <1>3, <1>4 DEF r

(* The answer that goes out before the notices.                            *)
IsAcks(acks) ==
  \/ acks = <<>>
  \/ /\ session = "inited"
     /\ \E m \in Message : m.type \in {"call_ack", "takeout_ack", "ready_ack"} /\ acks = <<m>>

(* It changes nothing for the robot.                                       *)
LEMMA AcksTold ==
  ASSUME NEW acks, IsAcks(acks)
  PROVE  /\ acks \in Seq(Message) /\ Untagged(acks) /\ AnswerFree(acks)
         /\ session = "rejoining" => \A i \in DOMAIN acks : acks[i].type \in Ignored
         /\ \A k : \A v \in View : v.status = "GAMMING" => Trace(acks, v, v, k)
<1>1. CASE acks = <<>>
  <2>1. <<>> \in Seq(Message) /\ DOMAIN (<<>>) = {}
    OBVIOUS
  <2>2. \A k : \A v \in View : Trace(<<>>, v, v, k)
    BY EmptyTrace
  <2>3. QED
    BY <1>1, <2>1, <2>2 DEF Untagged, AnswerFree
<1>2. CASE /\ session = "inited"
           /\ \E m \in Message : m.type \in {"call_ack", "takeout_ack", "ready_ack"} /\ acks = <<m>>
  <2>1. PICK m \in Message : m.type \in {"call_ack", "takeout_ack", "ready_ack"} /\ acks = <<m>>
    BY <1>2
  <2>2. DOMAIN acks = {1} /\ acks[1] = m /\ acks \in Seq(Message)
    BY <2>1, OneMessage
  <2>3. TagOf(m) = NoTurn /\ m.type \notin LobbyAcks
    BY <2>1 DEF TagOf, Notices, LobbyAcks
  <2>4. ASSUME NEW v \in View, NEW k, v.status = "GAMMING" PROVE Trace(acks, v, v, k)
    <3>1. Link(m, v, v, k)
      BY <2>1, <2>3, <2>4 DEF Link, GameLink
    <3>2. QED
      BY <2>1, <3>1, OneTold
  <2>5. Untagged(acks) /\ AnswerFree(acks)
    BY <2>2, <2>3 DEF Untagged, AnswerFree
  <2>6. QED
    BY <1>2, <2>2, <2>4, <2>5
<1>3. QED
  BY <1>1, <1>2 DEF IsAcks

(* The turn that is given.                                                 *)
LEMMA TurnGiven ==
  ASSUME IInv, NEW seat \in Seats, GiveTurn(seat), session' = session
  PROVE  /\ turn' = seat /\ turnNo' \in 0..MaxTurns /\ excused' \in BOOLEAN
         /\ Tag(seat) \in 0..MaxTurns
         /\ Tag(seat) # NoTurn <=> seat = mySeat
         /\ seat = mySeat => Tag(seat) = turnNo' /\ turnNo' # NoTurn
         /\ seat = mySeat => (excused' <=> session # "inited")
         /\ Tag(NoSeat) = NoTurn
<1>1. turnNo \in 0..MaxTurns /\ MaxTurns \in Nat /\ mySeat \in Seats
  BY SessionAssumption DEF IInv, Typed, ServerTyped
<1>2. NoSeat # mySeat
  BY <1>1 DEF Seats, NoSeat
<1>3. turn' = seat /\ Tag(NoSeat) = NoTurn
  BY <1>2 DEF GiveTurn, Tag
<1>4. CASE seat = mySeat
  <2>1. turnNo' = turnNo + 1 /\ turnNo < MaxTurns /\ Tag(seat) = turnNo'
    BY <1>4 DEF GiveTurn, Tag
  <2>2. excused' = (session # "inited")
    BY <1>4 DEF GiveTurn, Listening
  <2>3. turnNo' \in 0..MaxTurns /\ turnNo' # NoTurn
    BY <1>1, <2>1 DEF NoTurn
  <2>4. QED
    BY <1>3, <1>4, <2>1, <2>2, <2>3
<1>5. CASE seat # mySeat
  <2>1. turnNo' = turnNo /\ excused' = FALSE /\ Tag(seat) = NoTurn
    BY <1>5 DEF GiveTurn, Tag
  <2>2. NoTurn \in 0..MaxTurns
    BY <1>1 DEF NoTurn
  <2>3. QED
    BY <1>1, <1>3, <1>5, <2>1, <2>2
<1>6. QED
  BY <1>4, <1>5

(* The last message of a move is the one that can tell a turn.             *)
LEMMA LastTold ==
  ASSUME NEW q \in Seq(Message), Untagged(q), AnswerFree(q),
         NEW m \in Message, m.type \notin LobbyAcks
  PROVE  /\ q \o <<m>> \in Seq(Message) /\ q \o <<m>> # <<>> /\ AnswerFree(q \o <<m>>)
         /\ TaggedOnce(q \o <<m>>)
         /\ TagOf(m) # NoTurn => ~Untagged(q \o <<m>>)
         /\ TagOf(m) = NoTurn => Untagged(q \o <<m>>)
         /\ \A i \in DOMAIN (q \o <<m>>) : TagOf((q \o <<m>>)[i]) # NoTurn => (q \o <<m>>)[i] = m
         /\ \A T : m.type \in T /\ (\A i \in DOMAIN q : q[i].type \in T) =>
                   \A i \in DOMAIN (q \o <<m>>) : (q \o <<m>>)[i].type \in T
<1> DEFINE p == <<m>>
           r == q \o p
<1>1. p \in Seq(Message) /\ p # <<>> /\ DOMAIN p = {1} /\ p[1] = m
  OBVIOUS
<1>2. AnswerFree(p) /\ TaggedOnce(p) /\ (Untagged(p) <=> TagOf(m) = NoTurn)
  BY <1>1 DEF AnswerFree, TaggedOnce, Untagged
<1>3. \A T : m.type \in T => \A i \in DOMAIN p : p[i].type \in T
  BY <1>1
<1> HIDE DEF p
<1>4. r \in Seq(Message) /\ r # <<>>
  BY <1>1, ConcatFacts
<1>5. /\ Untagged(p) => Untagged(r)
      /\ AnswerFree(r)
      /\ \A T : /\ \A i \in DOMAIN q : q[i].type \in T
                /\ \A i \in DOMAIN p : p[i].type \in T
                => \A i \in DOMAIN r : r[i].type \in T
  BY <1>1, <1>2, ConcatPlain
<1>6. /\ TaggedOnce(r)
      /\ ~Untagged(p) => ~Untagged(r)
      /\ \A i \in DOMAIN r : TagOf(r[i]) # NoTurn => \E j \in DOMAIN p : r[i] = p[j]
  BY <1>1, <1>2, ConcatTags
<1>7. \A i \in DOMAIN r : TagOf(r[i]) # NoTurn => r[i] = m
  BY <1>1, <1>6
<1> HIDE DEF r
<1>8. \A T : m.type \in T /\ (\A i \in DOMAIN q : q[i].type \in T) =>
             \A i \in DOMAIN r : r[i].type \in T
  BY <1>3, <1>5
<1>9. QED
  BY <1>2, <1>4, <1>5, <1>6, <1>7, <1>8 DEF r, p

-----------------------------------------------------------------------------
(* The turn passes on                                                      *)

(* A move of the table that gives somebody the turn.                       *)
LEMMA TurnPasses ==
  ASSUME IInv, UNCHANGED <<serverOnly, session, owed, mySeat, games, place>>, InGame, Unpending,
         step' \in {"call", "play"}, calls' \in Seq(0..3), lord' \in Seats \cup {NoSeat},
         blind' \in BOOLEAN, trusted' \in BOOLEAN,
         NEW seat \in Seats, GiveTurn(seat),
         Len(calls') <= 3, step' = "play" => lord' \in Seats,
         step' = "call" => seat = Len(calls') /\ Len(calls') <= 2,
         step' = "call" /\ seat = 2 /\ mySeat = 2 => calls'[2] = 0 \/ calls'[2] > calls'[1],
         NEW q \in Seq(Message), Untagged(q), AnswerFree(q),
         NEW m \in Message, m.type \notin LobbyAcks, TagOf(m) = Tag(seat), Notify(q \o <<m>>),
         TagOf(m) # NoTurn => step' = IF m.type \in {"deal", "call"} THEN "call" ELSE "play",
         session = "rejoining" =>
           m.type \in Ignored /\ \A i \in DOMAIN q : q[i].type \in Ignored,
         session = "inited" =>
           \A b \in View :
             b.status = "GAMMING" /\ b.seat = mySeat /\ InTune(b) =>
               \E v, c \in View :
                 /\ Trace(q, b, v, Context') /\ Link(m, v, c, Context')
                 /\ c.seat = mySeat /\ c.status = "GAMMING" /\ InTune(c)'
  PROVE  IInv'
<1>1. /\ UNCHANGED serverOnly /\ session' = session /\ owed' = owed /\ mySeat' = mySeat
      /\ games' = games /\ place' = place /\ isMatch' = isMatch /\ up' = up
  BY DEF serverOnly, fateVars
<1>2. /\ turn' = seat /\ turnNo' \in 0..MaxTurns /\ excused' \in BOOLEAN
      /\ Tag(seat) # NoTurn <=> seat = mySeat
      /\ seat = mySeat => Tag(seat) = turnNo' /\ turnNo' # NoTurn
      /\ seat = mySeat => (excused' <=> session # "inited")
  BY <1>1, TurnGiven
<1>3. ServerTyped'
  BY <1>1, <1>2 DEF IInv, Typed, ServerTyped, Steps
<1>4. TableFits'
  <2>1. place = "table" /\ mySeat \in Seats /\ TableFits /\ NoSeat \notin Seats
    BY DEF InGame, IInv, Typed, ServerTyped, Seats, NoSeat
  <2>2. InGame' /\ Rejoining' = Rejoining
    BY <1>1, <2>1 DEF InGame, Rejoining
  <2>3. session # "verified"
    BY <2>1 DEF TableFits
  <2>4. ~excused' /\ (turn' = mySeat' \/ step' = "scene") => session' = "inited"
    BY <1>1, <1>2
  <2>5. session' # "inited" => owed' = NoMsg
    BY <1>1, <2>1 DEF TableFits
  <2>6. QED
    BY <1>1, <1>2, <2>1, <2>2, <2>3, <2>4, <2>5 DEF TableFits
<1> DEFINE r == q \o <<m>>
<1>5. /\ r \in Seq(Message) /\ r # <<>> /\ AnswerFree(r) /\ TaggedOnce(r)
      /\ TagOf(m) # NoTurn => ~Untagged(r)
      /\ \A i \in DOMAIN r : TagOf(r[i]) # NoTurn => r[i] = m
      /\ \A T : m.type \in T /\ (\A i \in DOMAIN q : q[i].type \in T) =>
                \A i \in DOMAIN r : r[i].type \in T
  BY LastTold
<1>6. Notify(r)
  OBVIOUS
<1>7. \A b, v, c \in View : Trace(q, b, v, Context') /\ Link(m, v, c, Context') => Trace(r, b, c, Context')
  <2> DEFINE k == Context'
  <2> HIDE DEF k
  <2>1. ASSUME NEW b \in View, NEW v \in View, NEW c \in View, Trace(q, b, v, k), Link(m, v, c, k)
        PROVE  Trace(r, b, c, k)
    BY <2>1, MoreTold
  <2>2. QED
    BY <2>1 DEF k
<1> HIDE DEF r
<1>8. TagOf(m) # NoTurn => Current(m)'
  <2> SUFFICES ASSUME TagOf(m) # NoTurn PROVE Current(m)'
    OBVIOUS
  <2>1. m.turn = TagOf(m) /\ seat = mySeat
    BY <1>2 DEF TagOf
  <2>2. QED
    BY <1>1, <1>2, <2>1 DEF Current
<1>9. \A i \in DOMAIN r : TagOf(r[i]) # NoTurn => Current(r[i])'
  <2>1. ASSUME NEW i \in DOMAIN r, TagOf(r[i]) # NoTurn PROVE Current(r[i])'
    <3>1. r[i] = m /\ Current(m)'
      BY <1>5, <1>8, <2>1
    <3>2. QED
      BY <3>1 DEF Current
  <2>2. QED
    BY <2>1
<1>10. turn' = mySeat /\ step' \in {"call", "play"} /\ ~excused' => ~Untagged(r)
  BY <1>2, <1>5
<1>11. session = "rejoining" =>
         \A i \in DOMAIN r : r[i].type \in Ignored /\ (TagOf(r[i]) # NoTurn => excused')
  <2> SUFFICES ASSUME session = "rejoining", NEW i \in DOMAIN r
               PROVE  r[i].type \in Ignored /\ (TagOf(r[i]) # NoTurn => excused')
    OBVIOUS
  <2>1. r[i].type \in Ignored
    BY <1>5
  <2>2. TagOf(r[i]) # NoTurn => excused'
    BY <1>2, <1>5
  <2>3. QED
    BY <2>1, <2>2
<1>12. ASSUME session = "inited", NEW b \in View, b.status = "GAMMING", b.seat = mySeat, InTune(b)
       PROVE  \E c \in View : /\ Trace(r, b, c, Context') /\ c.seat = mySeat
                              /\ c.status \in {"GAMMING", "gone"} /\ Player(c)'
  <2>1. PICK v, c \in View : /\ Trace(q, b, v, Context') /\ Link(m, v, c, Context')
                             /\ c.seat = mySeat /\ c.status = "GAMMING" /\ InTune(c)'
    BY <1>12
  <2>2. Trace(r, b, c, Context')
    BY <1>7, <2>1
  <2>3. place' = "table"
    BY <1>1 DEF InGame
  <2>4. Player(c)'
    BY <2>1, <2>3 DEF Player
  <2>5. QED
    BY <2>1, <2>2, <2>4
<1>13. UNCHANGED <<serverOnly, session, owed, mySeat>> /\ step' # "scene"
  BY <1>1
<1>14. QED
  BY <1>3, <1>4, <1>5, <1>6, <1>9, <1>10, <1>11, <1>12, <1>13, GameMoveKeeps

(* A deal.                                                                 *)
LEMMA DealKeeps ==
  ASSUME IInv, UNCHANGED <<serverOnly, session, owed, mySeat, games>>, InGame, Unpending,
         trusted' \in BOOLEAN, NEW q \in Seq(Message), Untagged(q), AnswerFree(q), Deal(q),
         session = "rejoining" => \A i \in DOMAIN q : q[i].type \in Ignored,
         session = "inited" =>
           \A b \in View :
             b.status = "GAMMING" /\ b.seat = mySeat /\ InTune(b) =>
               \E v \in View : /\ Trace(q, b, v, Context') /\ v.status = "GAMMING"
                               /\ v.seat = mySeat /\ v.ai = mySeat
  PROVE  IInv'
<1>1. /\ step' = "call" /\ calls' = <<>> /\ GiveTurn(0) /\ blind' = ~Listening
      /\ lord' = lord /\ place' = place /\ session' = session /\ mySeat' = mySeat
  BY DEF Deal
<1>2. 0 \in Seats /\ Len(<<>>) = 0 /\ <<>> \in Seq(0..3) /\ mySeat \in Seats
      /\ lord \in Seats \cup {NoSeat}
  BY DEF Seats, IInv, Typed, ServerTyped
<1>3. /\ Tag(0) \in 0..MaxTurns /\ (Tag(0) # NoTurn <=> mySeat = 0)
  BY <1>1, <1>2, TurnGiven
<1>4. PICK m : m = [type |-> "deal", header |-> 0, turn |-> Tag(0)]
  OBVIOUS
<1>5. m \in Message /\ m.type = "deal" /\ m.header = 0 /\ m.turn = Tag(0) /\ TagOf(m) = Tag(0)
  BY <1>2, <1>3, <1>4 DEF Message, GameNotice, TagOf, Notices
<1>6. m.type \notin LobbyAcks /\ m.type \in Ignored
  BY <1>5 DEF LobbyAcks, Ignored, Notices
<1>7. Notify(q \o <<m>>)
  BY <1>4 DEF Deal
<1>8. ASSUME session = "inited", NEW b \in View, b.status = "GAMMING", b.seat = mySeat, InTune(b)
      PROVE  \E v, c \in View :
               /\ Trace(q, b, v, Context') /\ Link(m, v, c, Context')
               /\ c.seat = mySeat /\ c.status = "GAMMING" /\ InTune(c)'
  <2>1. PICK v \in View : /\ Trace(q, b, v, Context') /\ v.status = "GAMMING"
                          /\ v.seat = mySeat /\ v.ai = mySeat
    BY <1>8
  <2>2. PICK c \in View : c = [v EXCEPT !.lordSeat = NoSeat, !.history = <<>>]
    BY <1>2 DEF View
  <2>3. /\ c.seat = mySeat /\ c.status = "GAMMING" /\ c.ai = mySeat /\ c.history = <<>>
    BY <2>1, <2>2 DEF View
  <2>4. Context'.calls = <<>>
    BY <1>1 DEF Context
  <2> DEFINE k == Context'
  <2> HIDE DEF k
  <2>5. GameLink(m, v, c, k)
    BY <1>3, <1>5, <2>1, <2>2, <2>4 DEF GameLink, k
  <2>6. Link(m, v, c, k)
    BY <1>5, <2>1, <2>3, <2>5 DEF Link
  <2>7. InTune(c)'
    BY <1>1, <2>3 DEF InTune
  <2>8. QED
    BY <2>1, <2>3, <2>6, <2>7 DEF k
<1>9. /\ calls' \in Seq(0..3) /\ lord' \in Seats \cup {NoSeat} /\ blind' \in BOOLEAN
      /\ Len(calls') <= 3 /\ 0 = Len(calls') /\ Len(calls') <= 2
      /\ UNCHANGED <<serverOnly, session, owed, mySeat, games, place>>
      /\ step' \in {"call", "play"} /\ step' # "play" /\ 0 # 2
  BY <1>1, <1>2 DEF Listening
<1>10. /\ session = "rejoining" => m.type \in Ignored /\ \A i \in DOMAIN q : q[i].type \in Ignored
       /\ TagOf(m) # NoTurn => step' = IF m.type \in {"deal", "call"} THEN "call" ELSE "play"
  BY <1>1, <1>5, <1>6
<1>11. QED
  BY <1>1, <1>2, <1>5, <1>6, <1>7, <1>8, <1>9, <1>10, TurnPasses

(* The highest call of a full auction.                                     *)
LEMMA HighestCall ==
  ASSUME NEW all \in Seq(0..3), Len(all) \in 1..3
  PROVE  (CHOOSE i \in DOMAIN all : \A j \in DOMAIN all : all[j] <= all[i]) - 1 \in Seats
<1>1. DOMAIN all = 1..Len(all) /\ \A i \in DOMAIN all : all[i] \in 0..3
  OBVIOUS
<1>2. \E i \in DOMAIN all : \A j \in DOMAIN all : all[j] <= all[i]
  <2>1. CASE Len(all) = 1
    BY <1>1, <2>1
  <2>2. CASE Len(all) = 2
    <3>1. DOMAIN all = {1, 2}
      BY <1>1, <2>2
    <3>2. all[1] \in 0..3 /\ all[2] \in 0..3
      BY <1>1, <3>1
    <3>3. all[1] <= all[2] \/ all[2] <= all[1]
      BY <3>2
    <3>4. QED
      BY <3>1, <3>2, <3>3
  <2>3. CASE Len(all) = 3
    <3>1. DOMAIN all = {1, 2, 3}
      BY <1>1, <2>3
    <3>2. all[1] \in 0..3 /\ all[2] \in 0..3 /\ all[3] \in 0..3
      BY <1>1, <3>1
    <3>3. \/ all[1] <= all[3] /\ all[2] <= all[3]
          \/ all[1] <= all[2] /\ all[3] <= all[2]
          \/ all[2] <= all[1] /\ all[3] <= all[1]
      BY <3>2
    <3>4. QED
      BY <3>1, <3>2, <3>3
  <2>4. QED
    BY <2>1, <2>2, <2>3
<1> DEFINE i == CHOOSE i \in DOMAIN all : \A j \in DOMAIN all : all[j] <= all[i]
<1>3. i \in DOMAIN all
  BY <1>2
<1> HIDE DEF i
<1>4. i - 1 \in Seats
  BY <1>1, <1>3 DEF Seats
<1>5. QED
  BY <1>4 DEF i

(* A call.                                                                 *)
LEMMA CalledKeeps ==
  ASSUME IInv, UNCHANGED <<serverOnly, session, owed, mySeat, trusted, games>>, Unpending,
         step = "call", NEW score \in 0..3, turn = mySeat \/ LegalScore(score),
         NEW acks, IsAcks(acks), Called(score, acks)
  PROVE  IInv'
<1> DEFINE all == Append(calls, score)
           over == Len(all) = 3 \/ score = 3
           winner == (CHOOSE i \in DOMAIN all : \A j \in DOMAIN all : all[j] <= all[i]) - 1
<1>1. /\ UNCHANGED serverOnly /\ session' = session /\ owed' = owed /\ mySeat' = mySeat
      /\ games' = games /\ trusted' = trusted
  OBVIOUS
<1>2. /\ calls \in Seq(0..3) /\ turn = Len(calls) /\ Len(calls) <= 2 /\ turn \in Seats
      /\ mySeat \in Seats /\ lord \in Seats \cup {NoSeat} /\ blind \in BOOLEAN
      /\ trusted \in BOOLEAN /\ NoSeat \notin Seats
  BY DEF IInv, Typed, ServerTyped, TableFits, Seats, NoSeat
<1>3. InGame
  BY DEF IInv, TableFits, InGame
<1>4. /\ all \in Seq(0..3) /\ Len(all) = Len(calls) + 1 /\ Len(all) \in 1..3
      /\ Len(calls) \in Nat /\ all[Len(all)] = score
      /\ \A i \in 1..Len(calls) : all[i] = calls[i]
  BY <1>2
<1>5. /\ acks \in Seq(Message) /\ Untagged(acks) /\ AnswerFree(acks)
      /\ session = "rejoining" => \A i \in DOMAIN acks : acks[i].type \in Ignored
      /\ \A k : \A v \in View : v.status = "GAMMING" => Trace(acks, v, v, k)
  BY AcksTold
<1>6. winner \in Seats
  BY <1>4, HighestCall
<1>7. \/ /\ ~over /\ calls' = all /\ GiveTurn(turn + 1)
         /\ Notify(acks \o <<[type |-> "call", seat |-> turn, next |-> turn + 1, score |-> score,
                              turn |-> Tag(turn + 1)]>>)
         /\ UNCHANGED <<step, lord, blind, place>>
      \/ Deal(acks \o <<[type |-> "call", seat |-> turn, next |-> NoSeat, score |-> score,
                         turn |-> Tag(NoSeat)]>>)
      \/ /\ calls' = all /\ step' = "play" /\ lord' = winner /\ GiveTurn(winner)
         /\ Notify(acks \o <<[type |-> "call", seat |-> turn, next |-> NoSeat, score |-> score,
                              turn |-> Tag(NoSeat)],
                             [type |-> "lord", seat |-> winner],
                             [type |-> "base", turn |-> Tag(winner)]>>)
         /\ UNCHANGED <<blind, place>>
  BY DEF Called
<1> HIDE DEF winner
<1>8. Tag(NoSeat) = NoTurn /\ NoTurn \in 0..MaxTurns
  BY <1>2, SessionAssumption DEF Tag, NoTurn
<1>9. PICK s : s = [type |-> "call", seat |-> turn, next |-> NoSeat, score |-> score, turn |-> NoTurn]
  OBVIOUS
<1>10. /\ s \in Message /\ s.type = "call" /\ s.next = NoSeat /\ TagOf(s) = NoTurn
       /\ s.turn = NoTurn /\ s.type \notin LobbyAcks /\ s.type \in Ignored
  BY <1>2, <1>8, <1>9 DEF Message, GameNotice, TagOf, Notices, LobbyAcks, Ignored
<1>11. ASSUME NEW b \in View, b.status = "GAMMING", b.seat = mySeat, InTune(b), NEW k
       PROVE  b.ai = mySeat /\ Trace(acks, b, b, k) /\ Link(s, b, b, k)
  <2>1. b.ai = mySeat
    BY <1>11 DEF InTune
  <2>2. GameLink(s, b, b, k)
    BY <1>2, <1>10, <1>11, <2>1 DEF GameLink
  <2>3. Link(s, b, b, k)
    BY <1>10, <1>11, <2>2 DEF Link
  <2>4. QED
    BY <1>5, <1>11, <2>1, <2>3
<1>12. /\ acks \o <<s>> \in Seq(Message) /\ Untagged(acks \o <<s>>) /\ AnswerFree(acks \o <<s>>)
       /\ session = "rejoining" =>
            \A i \in DOMAIN (acks \o <<s>>) : (acks \o <<s>>)[i].type \in Ignored
  BY <1>5, <1>10, LastTold
<1>13. ASSUME NEW b \in View, b.status = "GAMMING", b.seat = mySeat, InTune(b), NEW k
       PROVE  Trace(acks \o <<s>>, b, b, k)
  <2>1. Trace(acks, b, b, k) /\ Link(s, b, b, k)
    BY <1>11, <1>13
  <2>2. QED
    BY <1>5, <1>10, <2>1, MoreTold
<1>14. CASE /\ ~over /\ calls' = all /\ GiveTurn(turn + 1)
            /\ Notify(acks \o <<[type |-> "call", seat |-> turn, next |-> turn + 1, score |-> score,
                                 turn |-> Tag(turn + 1)]>>)
            /\ UNCHANGED <<step, lord, blind, place>>
  <2>1. PICK next : next = turn + 1
    OBVIOUS
  <2>2. next = Len(all) /\ next \in Seats /\ Len(all) <= 2
    BY <1>2, <1>4, <1>14, <2>1 DEF Seats
  <2>3. /\ GiveTurn(next) /\ step' = "call" /\ lord' = lord /\ blind' = blind /\ place' = place
    BY <1>14, <2>1
  <2>4. /\ Tag(next) \in 0..MaxTurns /\ (Tag(next) # NoTurn <=> next = mySeat) /\ turn' = next
    BY <1>1, <2>2, <2>3, TurnGiven
  <2>5. PICK m : m = [type |-> "call", seat |-> turn, next |-> next, score |-> score, turn |-> Tag(next)]
    OBVIOUS
  <2>6. /\ m \in Message /\ m.type = "call" /\ m.next = next /\ m.score = score
        /\ m.turn = Tag(next) /\ TagOf(m) = Tag(next)
        /\ m.type \notin LobbyAcks /\ m.type \in Ignored
    BY <1>2, <2>2, <2>4, <2>5 DEF Message, GameNotice, TagOf, Notices, LobbyAcks, Ignored
  <2>7. Notify(acks \o <<m>>)
    BY <1>14, <2>1, <2>5
  <2>8. ASSUME session = "inited", NEW b \in View, b.status = "GAMMING", b.seat = mySeat, InTune(b)
        PROVE  \E v, c \in View :
                 /\ Trace(acks, b, v, Context') /\ Link(m, v, c, Context')
                 /\ c.seat = mySeat /\ c.status = "GAMMING" /\ InTune(c)'
    <3> DEFINE k == Context'
    <3>1. k.calls = all /\ (k.sure <=> ~blind)
      <4>1. k.calls = calls' /\ (k.sure <=> step' = "call" /\ ~blind')
        BY DEF Context
      <4>2. QED
        BY <1>14, <2>3, <4>1
    <3> HIDE DEF k
    <3>2. b.ai = mySeat /\ Trace(acks, b, b, k)
      BY <1>11, <2>8
    <3>3. ~blind /\ turn < mySeat => b.history = calls
      BY <2>8 DEF InTune
    <3>4. b.history \in Seq(0..3) /\ Append(b.history, score) \in Seq(0..3)
      BY DEF View
    <3>5. PICK c \in View : c = IF next = mySeat THEN b
                                ELSE [b EXCEPT !.history = Append(b.history, score)]
      BY <3>4 DEF View
    <3>6. /\ c.seat = mySeat /\ c.status = "GAMMING" /\ c.ai = mySeat
          /\ next # mySeat => c.history = Append(b.history, score)
      BY <2>8, <3>2, <3>5 DEF View
    <3>7. next = mySeat => turn < mySeat
      BY <1>2, <2>1 DEF Seats
    <3>8. GameLink(m, b, c, k)
      BY <1>2, <2>2, <2>4, <2>6, <2>8, <3>1, <3>2, <3>3, <3>5, <3>7 DEF GameLink
    <3>9. Link(m, b, c, k)
      BY <2>6, <2>8, <3>6, <3>8 DEF Link
    <3>10. step' = "call" /\ ~blind' /\ turn' < mySeat' => c.history = calls'
      <4>1. next < mySeat => turn < mySeat /\ next # mySeat
        BY <1>2, <2>1 DEF Seats
      <4>2. QED
        BY <1>1, <1>14, <2>3, <2>4, <3>3, <3>6, <4>1
    <3>11. InTune(c)'
      BY <1>1, <2>3, <3>6, <3>10 DEF InTune
    <3>12. QED
      BY <3>2, <3>6, <3>9, <3>11 DEF k
  <2>9. next = 2 /\ mySeat = 2 => calls'[2] = 0 \/ calls'[2] > calls'[1]
    <3> SUFFICES ASSUME next = 2, mySeat = 2 PROVE all[2] = 0 \/ all[2] > all[1]
      BY <1>14
    <3>1. Len(calls) = 1 /\ turn = 1 /\ Len(all) = 2
      BY <1>2, <1>4, <2>1, <2>2
    <3>2. LegalScore(score)
      BY <3>1
    <3>3. 1 \in DOMAIN calls /\ 1 \in 1..Len(calls)
      BY <1>2, <3>1
    <3>4. score = 0 \/ score > calls[1]
      BY <3>2, <3>3 DEF LegalScore
    <3>5. all[2] = score /\ all[1] = calls[1]
      BY <1>4, <3>1, <3>3
    <3>6. QED
      BY <3>4, <3>5
  <2>10. /\ calls' \in Seq(0..3) /\ lord' \in Seats \cup {NoSeat} /\ blind' \in BOOLEAN
         /\ Len(calls') <= 3 /\ next = Len(calls') /\ Len(calls') <= 2 /\ trusted' \in BOOLEAN
         /\ UNCHANGED <<serverOnly, session, owed, mySeat, games, place>>
         /\ step' \in {"call", "play"} /\ step' # "play"
    BY <1>1, <1>2, <1>4, <1>14, <2>2, <2>3
  <2>11. /\ session = "rejoining" => m.type \in Ignored /\ \A i \in DOMAIN acks : acks[i].type \in Ignored
         /\ TagOf(m) # NoTurn => step' = IF m.type \in {"deal", "call"} THEN "call" ELSE "play"
    BY <1>5, <2>3, <2>6
  <2>12. QED
    BY <1>3, <1>5, <2>2, <2>3, <2>6, <2>7, <2>8, <2>9, <2>10, <2>11, TurnPasses
<1>15. CASE Deal(acks \o <<[type |-> "call", seat |-> turn, next |-> NoSeat, score |-> score,
                            turn |-> Tag(NoSeat)]>>)
  <2>1. Deal(acks \o <<s>>)
    BY <1>8, <1>9, <1>15
  <2>2. ASSUME session = "inited", NEW b \in View, b.status = "GAMMING", b.seat = mySeat, InTune(b)
        PROVE  \E v \in View : /\ Trace(acks \o <<s>>, b, v, Context') /\ v.status = "GAMMING"
                               /\ v.seat = mySeat /\ v.ai = mySeat
    BY <1>11, <1>13, <2>2
  <2>3. UNCHANGED <<serverOnly, session, owed, mySeat, games>> /\ trusted' \in BOOLEAN
    BY <1>1, <1>2
  <2>4. QED
    BY <1>3, <1>12, <2>1, <2>2, <2>3, DealKeeps
<1>16. CASE /\ calls' = all /\ step' = "play" /\ lord' = winner /\ GiveTurn(winner)
            /\ Notify(acks \o <<[type |-> "call", seat |-> turn, next |-> NoSeat, score |-> score,
                                 turn |-> Tag(NoSeat)],
                                [type |-> "lord", seat |-> winner],
                                [type |-> "base", turn |-> Tag(winner)]>>)
            /\ UNCHANGED <<blind, place>>
  <2>1. PICK seat \in Seats : seat = winner
    BY <1>6
  <2>2. /\ GiveTurn(seat) /\ lord' = seat /\ step' = "play" /\ blind' = blind /\ place' = place
    BY <1>16, <2>1
  <2>3. /\ Tag(seat) \in 0..MaxTurns /\ (Tag(seat) # NoTurn <=> seat = mySeat) /\ turn' = seat
    BY <1>1, <2>2, TurnGiven
  <2>4. PICK l : l = [type |-> "lord", seat |-> seat]
    OBVIOUS
  <2>5. PICK m : m = [type |-> "base", turn |-> Tag(seat)]
    OBVIOUS
  <2>6. /\ l \in Message /\ l.type = "lord" /\ l.seat = seat /\ TagOf(l) = NoTurn
        /\ l.type \notin LobbyAcks /\ l.type \in Ignored
    BY <2>4 DEF Message, GameNotice, TagOf, Notices, LobbyAcks, Ignored
  <2>7. /\ m \in Message /\ m.type = "base" /\ m.turn = Tag(seat) /\ TagOf(m) = Tag(seat)
        /\ m.type \notin LobbyAcks /\ m.type \in Ignored
    BY <2>3, <2>5 DEF Message, GameNotice, TagOf, Notices, LobbyAcks, Ignored
  <2> DEFINE q == (acks \o <<s>>) \o <<l>>
  <2>8. /\ q \in Seq(Message) /\ Untagged(q) /\ AnswerFree(q)
        /\ session = "rejoining" => \A i \in DOMAIN q : q[i].type \in Ignored
    BY <1>12, <2>6, LastTold
  <2>9. Notify(q \o <<m>>)
    <3>1. Notify(acks \o <<s, l, m>>)
      BY <1>8, <1>9, <1>16, <2>1, <2>4, <2>5
    <3>2. acks \o <<s, l, m>> = q \o <<m>>
      BY <1>5, <1>10, <2>6, <2>7
    <3>3. QED
      BY <3>1, <3>2
  <2>10. ASSUME session = "inited", NEW b \in View, b.status = "GAMMING", b.seat = mySeat, InTune(b)
         PROVE  \E v, c \in View :
                  /\ Trace(q, b, v, Context') /\ Link(m, v, c, Context')
                  /\ c.seat = mySeat /\ c.status = "GAMMING" /\ InTune(c)'
    <3> DEFINE k == Context'
    <3> HIDE DEF k
    <3>1. b.ai = mySeat /\ Trace(acks \o <<s>>, b, b, k)
      BY <1>11, <1>13, <2>10
    <3>2. PICK c \in View : c = [b EXCEPT !.lordSeat = seat]
      BY DEF View
    <3>3. c.seat = mySeat /\ c.status = "GAMMING" /\ c.ai = mySeat /\ c.lordSeat = seat
      BY <2>10, <3>1, <3>2 DEF View
    <3>4. Link(l, b, c, k)
      <4>1. GameLink(l, b, c, k)
        BY <2>6, <3>2 DEF GameLink
      <4>2. QED
        BY <2>6, <2>10, <3>3, <4>1 DEF Link
    <3>5. Trace(q, b, c, k)
      BY <1>12, <2>6, <3>1, <3>4, MoreTold
    <3>6. Link(m, c, c, k)
      <4>1. GameLink(m, c, c, k)
        BY <2>3, <2>7, <3>3 DEF GameLink
      <4>2. QED
        BY <2>7, <3>3, <4>1 DEF Link
    <3>7. InTune(c)'
      BY <1>1, <2>2, <3>3 DEF InTune
    <3>8. QED
      BY <3>3, <3>5, <3>6, <3>7 DEF k
  <2> HIDE DEF q
  <2>11. /\ calls' \in Seq(0..3) /\ lord' \in Seats \cup {NoSeat} /\ blind' \in BOOLEAN
         /\ Len(calls') <= 3 /\ lord' \in Seats /\ trusted' \in BOOLEAN
         /\ UNCHANGED <<serverOnly, session, owed, mySeat, games, place>>
         /\ step' \in {"call", "play"} /\ step' # "call"
    BY <1>1, <1>2, <1>4, <1>16, <2>2
  <2>12. /\ session = "rejoining" => m.type \in Ignored /\ \A i \in DOMAIN q : q[i].type \in Ignored
         /\ TagOf(m) # NoTurn => step' = IF m.type \in {"deal", "call"} THEN "call" ELSE "play"
    BY <2>2, <2>7, <2>8
  <2>13. QED
    BY <1>3, <2>2, <2>7, <2>8, <2>9, <2>10, <2>11, <2>12, TurnPasses
<1>17. QED
  BY <1>7, <1>14, <1>15, <1>16

(* Cards that do not finish the game.                                      *)
LEMMA TookOutKeeps ==
  ASSUME IInv, UNCHANGED <<serverOnly, session, owed, mySeat, games>>, trusted' \in BOOLEAN,
         Unpending, step = "play", NEW acks, IsAcks(acks), NEW notices,
         \/ notices = <<>>
         \/ turn = mySeat /\ notices = <<[type |-> "trust", seat |-> mySeat]>>,
         TookOut(acks, notices)
  PROVE  IInv'
<1>1. /\ UNCHANGED serverOnly /\ session' = session /\ owed' = owed /\ mySeat' = mySeat
      /\ games' = games
  OBVIOUS
<1>2. /\ calls \in Seq(0..3) /\ Len(calls) <= 3 /\ turn \in Seats /\ lord \in Seats
      /\ mySeat \in Seats /\ blind \in BOOLEAN /\ place = "table" /\ InGame
  BY DEF IInv, Typed, ServerTyped, TableFits, InGame
<1>3. PICK next : next = NextSeat
  OBVIOUS
<1>4. next \in Seats /\ next # turn
  BY <1>2, <1>3 DEF NextSeat, Seats
<1>5. /\ GiveTurn(next) /\ step' = "play" /\ calls' = calls /\ lord' = lord /\ blind' = blind
      /\ place' = place
  BY <1>3 DEF TookOut
<1>6. /\ Tag(next) \in 0..MaxTurns /\ (Tag(next) # NoTurn <=> next = mySeat)
  BY <1>1, <1>4, <1>5, TurnGiven
<1>7. PICK m : m = [type |-> "takeout", seat |-> turn, next |-> next, turn |-> Tag(next)]
  OBVIOUS
<1>8. /\ m \in Message /\ m.type = "takeout" /\ m.next = next /\ m.turn = Tag(next)
      /\ TagOf(m) = Tag(next) /\ m.type \notin LobbyAcks /\ m.type \in Ignored
  BY <1>2, <1>4, <1>6, <1>7 DEF Message, GameNotice, TagOf, Notices, LobbyAcks, Ignored
<1>9. Notify(acks \o <<m>> \o notices)
  BY <1>3, <1>7 DEF TookOut
<1>10. /\ acks \in Seq(Message) /\ Untagged(acks) /\ AnswerFree(acks)
       /\ session = "rejoining" => \A i \in DOMAIN acks : acks[i].type \in Ignored
       /\ \A k : \A v \in View : v.status = "GAMMING" => Trace(acks, v, v, k)
  BY AcksTold
<1>11. ASSUME NEW b \in View, b.status = "GAMMING", b.seat = mySeat, InTune(b), NEW k
       PROVE  b.ai = mySeat /\ Trace(acks, b, b, k) /\ Link(m, b, b, k) /\ InTune(b)'
  <2>1. b.ai = mySeat /\ b.lordSeat = lord
    BY <1>11 DEF InTune
  <2>2. GameLink(m, b, b, k)
    BY <1>6, <1>8, <1>11, <2>1 DEF GameLink
  <2>3. Link(m, b, b, k)
    BY <1>8, <1>11, <2>2 DEF Link
  <2>4. InTune(b)'
    BY <1>1, <1>5, <2>1 DEF InTune
  <2>5. QED
    BY <1>10, <1>11, <2>1, <2>3, <2>4
<1>12. /\ calls' \in Seq(0..3) /\ lord' \in Seats \cup {NoSeat} /\ blind' \in BOOLEAN
       /\ Len(calls') <= 3 /\ lord' \in Seats
       /\ UNCHANGED <<serverOnly, session, owed, mySeat, games, place>>
       /\ step' \in {"call", "play"} /\ step' # "call" /\ step' = "play"
  BY <1>1, <1>2, <1>5
<1>13. CASE notices = <<>>
  <2>1. Notify(acks \o <<m>>)
    <3>1. acks \o <<m>> \in Seq(Message)
      BY <1>8, <1>10
    <3>2. (acks \o <<m>>) \o <<>> = acks \o <<m>>
      BY <3>1
    <3>3. QED
      BY <1>9, <1>13, <3>2
  <2>2. ASSUME session = "inited", NEW b \in View, b.status = "GAMMING", b.seat = mySeat, InTune(b)
        PROVE  \E v, c \in View :
                 /\ Trace(acks, b, v, Context') /\ Link(m, v, c, Context')
                 /\ c.seat = mySeat /\ c.status = "GAMMING" /\ InTune(c)'
    <3> DEFINE k == Context'
    <3> HIDE DEF k
    <3>1. Trace(acks, b, b, k) /\ Link(m, b, b, k) /\ InTune(b)'
      BY <1>11, <2>2
    <3>2. QED
      BY <2>2, <3>1 DEF k
  <2>3. /\ session = "rejoining" => m.type \in Ignored /\ \A i \in DOMAIN acks : acks[i].type \in Ignored
        /\ TagOf(m) # NoTurn => step' = IF m.type \in {"deal", "call"} THEN "call" ELSE "play"
    BY <1>5, <1>8, <1>10
  <2>4. QED
    BY <1>2, <1>4, <1>5, <1>8, <1>10, <1>12, <2>1, <2>2, <2>3, TurnPasses
<1>14. CASE turn = mySeat /\ notices = <<[type |-> "trust", seat |-> mySeat]>>
  <2>1. PICK n : n = [type |-> "trust", seat |-> mySeat]
    OBVIOUS
  <2>2. /\ n \in Message /\ n.type = "trust" /\ TagOf(n) = NoTurn
        /\ n.type \notin LobbyAcks /\ n.type \in Ignored
    BY <1>2, <2>1 DEF Message, GameNotice, TagOf, Notices, LobbyAcks, Ignored
  <2>3. Tag(next) = NoTurn /\ TagOf(n) = Tag(next) /\ TagOf(m) = NoTurn
    BY <1>4, <1>6, <1>8, <1>14, <2>2
  <2> DEFINE q == acks \o <<m>>
  <2>4. /\ q \in Seq(Message) /\ Untagged(q) /\ AnswerFree(q)
        /\ session = "rejoining" => \A i \in DOMAIN q : q[i].type \in Ignored
    BY <1>8, <1>10, <2>3, LastTold
  <2>5. Notify(q \o <<n>>)
    BY <1>9, <1>14, <2>1
  <2>6. ASSUME session = "inited", NEW b \in View, b.status = "GAMMING", b.seat = mySeat, InTune(b)
        PROVE  \E v, c \in View :
                 /\ Trace(q, b, v, Context') /\ Link(n, v, c, Context')
                 /\ c.seat = mySeat /\ c.status = "GAMMING" /\ InTune(c)'
    <3> DEFINE k == Context'
    <3> HIDE DEF k
    <3>1. Trace(acks, b, b, k) /\ Link(m, b, b, k) /\ InTune(b)' /\ b.ai = mySeat
      BY <1>11, <2>6
    <3>2. Trace(q, b, b, k)
      BY <1>8, <1>10, <3>1, MoreTold
    <3>3. GameLink(n, b, b, k)
      BY <2>2, <2>6, <3>1 DEF GameLink
    <3>4. Link(n, b, b, k)
      BY <2>2, <2>6, <3>3 DEF Link
    <3>5. QED
      BY <2>6, <3>1, <3>2, <3>4 DEF k
  <2> HIDE DEF q
  <2>7. /\ session = "rejoining" => n.type \in Ignored /\ \A i \in DOMAIN q : q[i].type \in Ignored
        /\ TagOf(n) # NoTurn => step' = IF n.type \in {"deal", "call"} THEN "call" ELSE "play"
    BY <2>2, <2>4
  <2>8. QED
    BY <1>2, <1>4, <1>5, <1>12, <2>2, <2>3, <2>4, <2>5, <2>6, <2>7, TurnPasses
<1>15. QED
  BY <1>13, <1>14

(* The end of a game.                                                      *)
LEMMA EndGameKeeps ==
  ASSUME Settled, IInv, UNCHANGED <<serverOnly, session, owed, mySeat, games>>,
         trusted' \in BOOLEAN, Unpending, InGame, NEW acks, IsAcks(acks), EndGame(acks)
  PROVE  IInv'
<1>1. /\ UNCHANGED serverOnly /\ session' = session /\ owed' = owed /\ mySeat' = mySeat
      /\ games' = games /\ isMatch' = isMatch
  BY DEF serverOnly, fateVars
<1>2. /\ turn' = NoSeat /\ lord' = NoSeat /\ calls' = <<>> /\ excused' = FALSE
      /\ blind' = FALSE /\ turnNo' = turnNo /\ ~Rejoining
  BY DEF EndGame
<1>3. /\ mySeat \in Seats /\ place = "table" /\ NoSeat \notin Seats /\ isMatch \in BOOLEAN
      /\ turnNo \in 0..MaxTurns
  BY DEF IInv, Typed, ServerTyped, RobotTyped, InGame, Seats, NoSeat
<1>4. PICK m : /\ m = [type |-> "result"] \/ m = [type |-> "game_over"]
               /\ Notify(acks \o <<m>>)
               /\ IF isMatch /\ m.type = "result" THEN place' = "table" /\ step' = "between"
                                                  ELSE place' = "none" /\ step' = "none"
  <2>1. CASE /\ step' = IF isMatch THEN "between" ELSE "none"
             /\ place' = IF isMatch THEN "table" ELSE "none"
             /\ Notify(acks \o <<[type |-> "result"]>>)
    <3>1. [type |-> "result"].type = "result"
      OBVIOUS
    <3>2. QED
      BY <1>3, <2>1, <3>1
  <2>2. CASE /\ step' = "none" /\ place' = "none"
             /\ Notify(acks \o <<[type |-> "game_over"]>>)
    <3>1. [type |-> "game_over"].type # "result"
      OBVIOUS
    <3>2. QED
      BY <2>2, <3>1
  <2>3. QED
    BY <2>1, <2>2 DEF EndGame
<1>5. /\ m \in Message /\ m.type \in {"result", "game_over"} /\ TagOf(m) = NoTurn
      /\ m.type \notin LobbyAcks
  BY <1>4 DEF Message, GameNotice, TagOf, Notices, LobbyAcks
<1>6. /\ acks \in Seq(Message) /\ Untagged(acks) /\ AnswerFree(acks)
      /\ \A k : \A v \in View : v.status = "GAMMING" => Trace(acks, v, v, k)
  BY AcksTold
<1> DEFINE p == acks \o <<m>>
<1>7. p \in Seq(Message) /\ p # <<>> /\ AnswerFree(p) /\ TaggedOnce(p) /\ Untagged(p)
  BY <1>5, <1>6, LastTold
<1>8. ServerTyped'
  <2>1. place' \in Places /\ step' \in Steps /\ <<>> \in Seq(0..3)
    BY <1>4 DEF Places, Steps
  <2>2. {excused', blind', trusted'} \subseteq BOOLEAN
    BY <1>2
  <2>3. session \in Sessions /\ owed \in LobbyAnswer \cup {NoMsg} /\ games \in 0..MaxGames
    BY DEF IInv, Typed, ServerTyped
  <2>4. QED
    BY <1>1, <1>2, <1>3, <2>1, <2>2, <2>3 DEF ServerTyped
<1>9. TableFits'
  <2>1. TableFits /\ session # "verified" /\ session # "rejoining" /\ session # "returning"
    BY <1>2 DEF IInv, TableFits, Rejoining
  <2>2. Len(calls') <= 3 /\ step' \notin {"call", "play", "scene"} /\ turn' # mySeat'
    BY <1>1, <1>2, <1>3, <1>4
  <2>3. /\ step' = "none" <=> place' # "table"
        /\ step' = "between" => isMatch'
        /\ place' # "queued"
    BY <1>1, <1>3, <1>4
  <2>4. session' # "inited" => owed' = NoMsg
    BY <1>1, <2>1 DEF TableFits
  <2>5. QED
    BY <1>1, <1>2, <2>1, <2>2, <2>3, <2>4 DEF TableFits, Rejoining
<1>10. ASSUME session = "inited", NEW b \in View, b.status = "GAMMING", b.seat = mySeat, InTune(b)
       PROVE  \E c \in View : /\ Trace(p, b, c, Context') /\ c.seat = mySeat
                              /\ c.status \in {"GAMMING", "gone"} /\ Player(c)'
  <2> DEFINE k == Context'
  <2>1. k.match = isMatch
    BY <1>1 DEF Context
  <2> HIDE DEF k
  <2>2. Trace(acks, b, b, k)
    BY <1>6, <1>10
  <2>3. CASE isMatch /\ m.type = "result"
    <3>1. PICK c \in View : c = [b EXCEPT !.ai = NoSeat, !.lordSeat = NoSeat, !.history = <<>>]
      <4>1. <<>> \in Seq(0..3)
        OBVIOUS
      <4>2. QED
        BY <4>1 DEF View
    <3>2. c.seat = mySeat /\ c.status = "GAMMING" /\ Cleared(b, c)
      BY <1>10, <3>1 DEF View, Cleared
    <3>3. Link(m, b, c, k)
      BY <1>5, <1>10, <2>1, <2>3, <3>2 DEF Link, OverLink
    <3>4. Trace(p, b, c, k)
      BY <1>5, <1>6, <2>2, <3>3, MoreTold
    <3>5. Player(c)'
      BY <1>4, <2>3, <3>2 DEF Player, InTune
    <3>6. QED
      BY <3>2, <3>4, <3>5 DEF k
  <2>4. CASE ~(isMatch /\ m.type = "result")
    <3>1. PICK c \in View : c = [b EXCEPT !.status = "gone"]
      BY DEF View
    <3>2. c.seat = mySeat /\ c.status = "gone"
      BY <1>10, <3>1 DEF View
    <3>3. Link(m, b, c, k)
      BY <1>5, <1>10, <2>1, <2>4, <3>2 DEF Link, OverLink
    <3>4. Trace(p, b, c, k)
      BY <1>5, <1>6, <2>2, <3>3, MoreTold
    <3>5. Player(c)'
      BY <1>4, <2>4, <3>2 DEF Player
    <3>6. QED
      BY <3>2, <3>4, <3>5 DEF k
  <2>5. QED
    BY <2>3, <2>4
<1>11. Notify(p)
  BY <1>4
<1> HIDE DEF p
<1>12. /\ \A i \in DOMAIN p : TagOf(p[i]) # NoTurn => Current(p[i])'
       /\ turn' = mySeat /\ step' \in {"call", "play"} /\ ~excused' => ~Untagged(p)
       /\ session # "rejoining" /\ step' # "scene"
  BY <1>2, <1>3, <1>4, <1>7 DEF Untagged, Rejoining
<1>13. UNCHANGED <<serverOnly, session, owed, mySeat>>
  BY <1>1
<1>14. QED
  BY <1>7, <1>8, <1>9, <1>10, <1>11, <1>12, <1>13, GameMoveKeeps

(* The others call,                                                        *)
LEMMA OtherCallsKeeps == IInv /\ OtherCalls => IInv'
<1> SUFFICES ASSUME IInv, OtherCalls PROVE IInv'
  OBVIOUS
<1>1. /\ step = "call" /\ turn # mySeat /\ toServer' = toServer
      /\ UNCHANGED <<serverOnly, session, owed, mySeat, trusted, games>>
  BY DEF OtherCalls
<1>2. PICK score \in 0..3 : LegalScore(score) /\ Called(score, <<>>)
  BY DEF OtherCalls
<1>3. Unpending
  BY <1>1, NotMyTurn DEF Unpending
<1>4. IsAcks(<<>>)
  BY DEF IsAcks
<1>5. QED
  BY <1>1, <1>2, <1>3, <1>4, CalledKeeps

(* and take out cards.                                                     *)
LEMMA OtherTakesOutKeeps == Settled /\ IInv /\ OtherTakesOut => IInv'
<1> SUFFICES ASSUME Settled, IInv, OtherTakesOut PROVE IInv'
  OBVIOUS
<1>1. /\ step = "play" /\ turn # mySeat /\ toServer' = toServer
      /\ UNCHANGED <<serverOnly, session, owed, mySeat, trusted, games>>
  BY DEF OtherTakesOut
<1>2. Unpending /\ IsAcks(<<>>)
  BY <1>1, NotMyTurn DEF Unpending, IsAcks
<1>3. trusted' \in BOOLEAN /\ InGame
  BY <1>1 DEF IInv, Typed, ServerTyped, TableFits, InGame
<1>4. CASE TookOut(<<>>, <<>>)
  BY <1>1, <1>2, <1>3, <1>4, TookOutKeeps
<1>5. CASE EndGame(<<>>)
  BY <1>1, <1>2, <1>3, <1>5, EndGameKeeps
<1>6. QED
  BY <1>4, <1>5 DEF OtherTakesOut

(* The system acts for the robot, once nothing of its turn is under way.   *)
LEMMA SystemActsKeeps == Settled /\ Patient /\ IInv /\ SystemActs => IInv'
<1> SUFFICES ASSUME Settled, Patient, IInv, SystemActs PROVE IInv'
  OBVIOUS
<1>1. /\ ~AnswerOnItsWay /\ toServer' = toServer
      /\ UNCHANGED <<serverOnly, session, owed, mySeat, games>>
  BY DEF SystemActs
<1>2. Unpending /\ IsAcks(<<>>)
  BY <1>1, NothingOnItsWay DEF Unpending, IsAcks
<1>3. CASE MyTurn("call") /\ Called(0, <<>>) /\ UNCHANGED trusted
  <2>1. step = "call" /\ turn = mySeat /\ 0 \in 0..3 /\ trusted' = trusted
    BY <1>3 DEF MyTurn
  <2>2. UNCHANGED <<serverOnly, session, owed, mySeat, trusted, games>>
    BY <1>1, <2>1
  <2>3. QED
    BY <1>2, <1>3, <2>1, <2>2, CalledKeeps
<1>4. CASE /\ MyTurn("play") /\ trusted' = TRUE
           /\ \/ TookOut(<<>>, IF trusted THEN <<>> ELSE <<[type |-> "trust", seat |-> mySeat]>>)
              \/ EndGame(<<>>)
  <2>1. step = "play" /\ turn = mySeat /\ InGame /\ trusted' \in BOOLEAN
    BY <1>4 DEF MyTurn, IInv, TableFits, InGame
  <2>2. PICK notices :
          notices = IF trusted THEN <<>> ELSE <<[type |-> "trust", seat |-> mySeat]>>
    OBVIOUS
  <2>3. CASE TookOut(<<>>, notices)
    <3>1. \/ notices = <<>>
          \/ turn = mySeat /\ notices = <<[type |-> "trust", seat |-> mySeat]>>
      BY <2>1, <2>2
    <3>2. QED
      BY <1>1, <1>2, <2>1, <2>3, <3>1, TookOutKeeps
  <2>4. CASE EndGame(<<>>)
    BY <1>1, <1>2, <2>1, <2>4, EndGameKeeps
  <2>5. QED
    BY <1>4, <2>2, <2>3, <2>4
<1>5. QED
  BY <1>3, <1>4 DEF SystemActs

(* The robot's call,                                                       *)
LEMMA ServeCallKeeps == IInv /\ ServeCall => IInv'
<1> SUFFICES ASSUME IInv, ServeCall PROVE IInv'
  OBVIOUS
<1>1. /\ toServer # <<>> /\ Head(toServer).type = "call" /\ toServer' = Tail(toServer)
      /\ UNCHANGED <<serverOnly, session, owed, mySeat, trusted, games>>
  BY DEF ServeCall, Requested
<1>2. /\ Unpending /\ session = "inited" /\ turn = mySeat /\ step = "call"
      /\ Head(toServer).score \in 0..3
  BY <1>1, AnswerTaken
<1>3. Called(Head(toServer).score, Ack("call_ack", TRUE))
  BY <1>2 DEF ServeCall, MyTurn
<1>4. IsAcks(Ack("call_ack", TRUE))
  BY <1>2 DEF IsAcks, Ack, Message
<1>5. QED
  BY <1>1, <1>2, <1>3, <1>4, CalledKeeps

(* and its cards, taken or refused.                                        *)
LEMMA ServeTakeOutKeeps == Settled /\ IInv /\ ServeTakeOut => IInv'
<1> SUFFICES ASSUME Settled, IInv, ServeTakeOut PROVE IInv'
  OBVIOUS
<1>1. /\ toServer # <<>> /\ Head(toServer).type = "takeout" /\ toServer' = Tail(toServer)
      /\ UNCHANGED <<serverOnly, session, owed, mySeat, trusted, games>>
  BY DEF ServeTakeOut, Requested
<1>2. Unpending /\ session = "inited" /\ InGame /\ turn = mySeat /\ step = "play"
  BY <1>1, AnswerTaken
<1>3. trusted' \in BOOLEAN
  BY <1>1 DEF IInv, Typed, ServerTyped
<1>4. IsAcks(Ack("takeout_ack", TRUE))
  BY <1>2 DEF IsAcks, Ack, Message
<1>5. CASE TookOut(Ack("takeout_ack", TRUE), <<>>)
  BY <1>1, <1>2, <1>3, <1>4, <1>5, TookOutKeeps
<1>6. CASE EndGame(Ack("takeout_ack", TRUE))
  BY <1>1, <1>2, <1>3, <1>4, <1>6, EndGameKeeps
<1>7. CASE /\ Notify(Ack("takeout_ack", FALSE))
           /\ excused' = (excused \/ MyTurn("play"))
           /\ UNCHANGED <<step, calls, lord, turn, turnNo, blind, place>>
  <2>1. excused' = TRUE
    BY <1>2, <1>7 DEF MyTurn
  <2>2. PICK m : m = [type |-> "takeout_ack", ok |-> FALSE]
    OBVIOUS
  <2>3. m \in Message /\ m.type = "takeout_ack" /\ TagOf(m) = NoTurn /\ m.type \notin LobbyAcks
    BY <2>2 DEF Message, TagOf, Notices, LobbyAcks
  <2> DEFINE p == <<m>>
  <2>4. /\ p \in Seq(Message) /\ p # <<>> /\ Notify(p)
        /\ DOMAIN p = {1} /\ p[1] = m
    BY <1>7, <2>2, <2>3 DEF Ack
  <2>5. \A k : \A b \in View : b.status = "GAMMING" => Trace(p, b, b, k)
    <3> SUFFICES ASSUME NEW b \in View, NEW k, b.status = "GAMMING" PROVE Trace(p, b, b, k)
      OBVIOUS
    <3>1. Link(m, b, b, k)
      BY <2>3 DEF Link, GameLink
    <3>2. QED
      BY <2>3, <3>1, OneTold
  <2> HIDE DEF p
  <2>6. AnswerFree(p) /\ TaggedOnce(p) /\ Untagged(p)
    BY <2>3, <2>4 DEF AnswerFree, TaggedOnce, Untagged
  <2>7. ServerTyped'
    BY <1>1, <1>7, <2>1 DEF IInv, Typed, ServerTyped
  <2>8. TableFits'
    BY <1>1, <1>2, <1>7, <2>1 DEF IInv, TableFits, InGame, Rejoining, serverOnly, fateVars
  <2>9. ASSUME session = "inited", NEW b \in View, b.status = "GAMMING", b.seat = mySeat, InTune(b)
        PROVE  \E c \in View : /\ Trace(p, b, c, Context') /\ c.seat = mySeat
                               /\ c.status \in {"GAMMING", "gone"} /\ Player(c)'
    <3>1. InTune(b)'
      BY <1>1, <1>7, <2>9 DEF InTune
    <3>2. Player(b)'
      BY <1>2, <1>7, <2>9, <3>1 DEF Player, InGame
    <3>3. QED
      BY <2>5, <2>9, <3>2
  <2>10. /\ \A i \in DOMAIN p : TagOf(p[i]) # NoTurn => Current(p[i])'
         /\ turn' = mySeat /\ step' \in {"call", "play"} /\ ~excused' => ~Untagged(p)
         /\ session # "rejoining" /\ step' # "scene"
    BY <1>2, <1>7, <2>1, <2>6 DEF Untagged
  <2>11. UNCHANGED <<serverOnly, session, owed, mySeat>>
    BY <1>1
  <2>12. QED
    BY <1>2, <2>4, <2>6, <2>7, <2>8, <2>9, <2>10, <2>11, GameMoveKeeps
<1>8. QED
  BY <1>5, <1>6, <1>7 DEF ServeTakeOut

-----------------------------------------------------------------------------
(* Games begin and end                                                     *)

(* The start of a game gives the robot its seat.                           *)
LEMMA StartTold ==
  ASSUME IInv, UNCHANGED <<session, mySeat>>, NEW acks, IsAcks(acks)
  PROVE  /\ acks \o Start \in Seq(Message) /\ Untagged(acks \o Start) /\ AnswerFree(acks \o Start)
         /\ \A b \in View : b.status = "GAMMING" /\ b.seat = mySeat =>
              \E v \in View : /\ Trace(acks \o Start, b, v, Context') /\ v.status = "GAMMING"
                              /\ v.seat = mySeat /\ v.ai = mySeat
<1>1. PICK s : s = [type |-> "start", seat |-> mySeat]
  OBVIOUS
<1>2. mySeat \in Seats
  BY DEF IInv, Typed, ServerTyped
<1>3. /\ s \in Message /\ s.type = "start" /\ s.seat = mySeat /\ TagOf(s) = NoTurn
      /\ s.type \notin LobbyAcks
  BY <1>1, <1>2 DEF Message, GameNotice, TagOf, Notices, LobbyAcks
<1>4. Start = <<s>>
  BY <1>1 DEF Start
<1>5. /\ acks \in Seq(Message) /\ Untagged(acks) /\ AnswerFree(acks)
      /\ \A k : \A v \in View : v.status = "GAMMING" => Trace(acks, v, v, k)
  BY AcksTold
<1>6. acks \o <<s>> \in Seq(Message) /\ Untagged(acks \o <<s>>) /\ AnswerFree(acks \o <<s>>)
  BY <1>3, <1>5, LastTold
<1>7. ASSUME NEW b \in View, b.status = "GAMMING", b.seat = mySeat
      PROVE  \E v \in View : /\ Trace(acks \o <<s>>, b, v, Context') /\ v.status = "GAMMING"
                             /\ v.seat = mySeat /\ v.ai = mySeat
  <2> DEFINE k == Context'
  <2> HIDE DEF k
  <2>1. PICK v \in View : v = [b EXCEPT !.ai = mySeat]
    BY <1>2 DEF View
  <2>2. v.status = "GAMMING" /\ v.seat = mySeat /\ v.ai = mySeat
    BY <1>7, <2>1 DEF View
  <2>3. GameLink(s, b, v, k)
    BY <1>3, <1>7, <2>1 DEF GameLink
  <2>4. Link(s, b, v, k)
    BY <1>3, <1>7, <2>2, <2>3 DEF Link
  <2>5. Trace(acks \o <<s>>, b, v, k)
    BY <1>3, <1>5, <1>7, <2>4, MoreTold
  <2>6. QED
    BY <2>2, <2>5 DEF k
<1>8. QED
  BY <1>4, <1>6, <1>7

(* The robot is ready.                                                     *)
LEMMA ServeReadyKeeps == IInv /\ ServeReady => IInv'
<1> SUFFICES ASSUME IInv, ServeReady PROVE IInv'
  OBVIOUS
<1>1. /\ toServer # <<>> /\ Head(toServer).type = "ready" /\ toServer' = Tail(toServer)
      /\ UNCHANGED <<serverOnly, session, owed, mySeat, trusted, games>>
  BY DEF ServeReady, Requested
<1>2. CASE step # "scene"
  BY <1>2, LateReadyKeeps
<1>3. CASE step = "scene"
  <2>1. /\ session = "inited" /\ toServer \in Seq(RequestSet)
    BY <1>1, FirstAsked DEF GameRequests
  <2>2. Untagged(toRobot) /\ delayed = {} /\ Untagged(toServer)
    BY <1>3, NotMyTurn
  <2>3. Unpending
    BY <1>1, <2>1, <2>2, TailTags DEF Unpending
  <2>4. InGame /\ trusted' \in BOOLEAN
    BY <1>1, <1>3 DEF IInv, Typed, ServerTyped, TableFits, InGame
  <2>5. IsAcks(<<[type |-> "ready_ack"]>>)
    BY <2>1 DEF IsAcks, Message
  <2> DEFINE q == <<[type |-> "ready_ack"]>> \o Start
  <2>6. Deal(q)
    BY <1>3 DEF ServeReady
  <2>7. /\ q \in Seq(Message) /\ Untagged(q) /\ AnswerFree(q)
        /\ \A b \in View : b.status = "GAMMING" /\ b.seat = mySeat =>
             \E v \in View : /\ Trace(q, b, v, Context') /\ v.status = "GAMMING"
                             /\ v.seat = mySeat /\ v.ai = mySeat
    BY <1>1, <2>5, StartTold
  <2> HIDE DEF q
  <2>8. UNCHANGED <<serverOnly, session, owed, mySeat, games>> /\ session # "rejoining"
    BY <1>1, <2>1
  <2>9. QED
    BY <2>3, <2>4, <2>6, <2>7, <2>8, DealKeeps
<1>4. QED
  BY <1>2, <1>3

(* Or it cannot be reached.                                                *)
LEMMA DealAnywayKeeps == Settled /\ IInv /\ DealAnyway => IInv'
<1> SUFFICES ASSUME Settled, IInv, DealAnyway PROVE IInv'
  OBVIOUS
<1>1. /\ step = "scene" /\ ~Rejoining /\ Deal(Start) /\ toServer' = toServer
      /\ UNCHANGED <<serverOnly, session, owed, mySeat, trusted, games>>
  BY DEF DealAnyway
<1>2. Unpending /\ IsAcks(<<>>) /\ session # "rejoining"
  BY <1>1, NotMyTurn DEF Unpending, IsAcks, Rejoining
<1>3. InGame /\ trusted' \in BOOLEAN
  BY <1>1 DEF IInv, Typed, ServerTyped, TableFits, InGame
<1>4. <<>> \o Start = Start
  BY DEF Start
<1>5. /\ <<>> \o Start \in Seq(Message) /\ Untagged(<<>> \o Start) /\ AnswerFree(<<>> \o Start)
      /\ \A b \in View : b.status = "GAMMING" /\ b.seat = mySeat =>
           \E v \in View : /\ Trace(<<>> \o Start, b, v, Context') /\ v.status = "GAMMING"
                           /\ v.seat = mySeat /\ v.ai = mySeat
  BY <1>1, <1>2, StartTold
<1>6. PICK r \in Seq(Message) : r = Start
  BY <1>4, <1>5
<1>7. /\ Untagged(r) /\ AnswerFree(r) /\ Deal(r)
      /\ \A b \in View : b.status = "GAMMING" /\ b.seat = mySeat =>
           \E v \in View : /\ Trace(r, b, v, Context') /\ v.status = "GAMMING"
                           /\ v.seat = mySeat /\ v.ai = mySeat
  BY <1>1, <1>4, <1>5, <1>6
<1>8. UNCHANGED <<serverOnly, session, owed, mySeat, games>>
  BY <1>1
<1>9. QED
  BY <1>2, <1>3, <1>7, <1>8, DealKeeps

(* A quiet lobby of a match has left no robot waiting for its answer.      *)
LEMMA QuietMatch ==
  ASSUME IInv, LobbyIsQuiet, isMatch, ~Rejoining, place # "none", NEW b \in View,
         status # "INIT", Exchange(b), Player(b), b.status \in Reach(status)
  PROVE  b.status \notin {"INITGAME", "CANSINGUP"}
<1>1. /\ owed = NoMsg
      /\ \A i \in DOMAIN toServer : toServer[i].type \notin {"cond", "quick", "sign_up"}
      /\ \A i \in DOMAIN toRobot : toRobot[i].type # "init_ack"
  BY DEF LobbyIsQuiet
<1>2. b.status # "CANSINGUP"
  BY <1>1 DEF Player
<1>3. ASSUME b.status = "INITGAME" PROVE FALSE
  <2>1. status \in {"VERIFIED", "INITGAME"}
    BY <1>3 DEF Reach, IInv, Typed, RobotTyped, Statuses
  <2>2. CASE status = "VERIFIED"
    <3>1. toRobot # <<>> /\ Head(toRobot).type = "init_ack"
      BY <2>2 DEF Exchange, InitUnread
    <3>2. 1 \in DOMAIN toRobot /\ toRobot[1] = Head(toRobot)
      BY <3>1, TailFacts DEF IInv, Typed, LineTyped
    <3>3. QED
      BY <1>1, <3>1, <3>2
  <2>3. CASE status = "INITGAME"
    <3>1. Asked(b)
      BY <1>1, <1>3, <2>3 DEF Exchange, AnswerOwed, AnswerUnread
    <3>2. toServer = <<Request("cond", 0, NoTurn)>>
      BY <3>1 DEF Asked
    <3>3. 1 \in DOMAIN toServer /\ toServer[1] = Request("cond", 0, NoTurn)
      BY <3>2
    <3>4. QED
      BY <1>1, <3>3 DEF Request
  <2>4. QED
    BY <2>1, <2>2, <2>3
<1>4. QED
  BY <1>2, <1>3

(* A game begins.                                                          *)
LEMMA BeginKeeps == Settled /\ LobbyFirst /\ IInv /\ Begin => IInv'
<1> SUFFICES ASSUME Settled, LobbyFirst, IInv, Begin PROVE IInv'
  OBVIOUS
<1>1. /\ games < MaxGames /\ games' = games + 1 /\ ~Rejoining
      /\ place = "queued" \/ (place = "table" /\ step = "between")
      /\ session \in {"none", "returning", "inited", "rejoining"}
      /\ isMatch => LobbyIsQuiet
      /\ place' = "table" /\ step' = "scene" /\ mySeat' \in Seats
      /\ calls' = <<>> /\ lord' = NoSeat /\ turn' = NoSeat /\ excused' = ~Listening
      /\ trusted' = (session = "none") /\ blind' = FALSE
      /\ Notify(<<[type |-> "scene"]>>)
      /\ toServer' = toServer /\ session' = session /\ owed' = owed /\ turnNo' = turnNo
      /\ UNCHANGED serverOnly
  BY DEF Begin
<1>2. /\ UNCHANGED <<isMatch, robotVars, up, delayed>> /\ session \in {"none", "inited"}
      /\ place # "none" /\ step \notin {"call", "play"} /\ ~InGame
  BY <1>1 DEF serverOnly, fateVars, Rejoining, IInv, TableFits, InGame
<1>3. Untagged(toRobot) /\ delayed = {} /\ Untagged(toServer)
  BY <1>2, NotMyTurn
<1>4. PICK m : m = [type |-> "scene"]
  OBVIOUS
<1>5. m \in Message /\ m.type = "scene" /\ TagOf(m) = NoTurn /\ m.type \notin LobbyAcks \cup Ignored
  BY <1>4 DEF Message, GameNotice, TagOf, Notices, LobbyAcks, Ignored
<1> DEFINE p == <<m>>
<1>6. /\ p \in Seq(Message) /\ p # <<>> /\ Notify(p) /\ Head(p) = m
      /\ DOMAIN p = {1} /\ p[1] = m
  BY <1>1, <1>4, <1>5
<1>7. \A k : \A b, c \in View : Link(m, b, c, k) => Trace(p, b, c, k)
  BY <1>5, OneTold
<1> HIDE DEF p
<1>8. AnswerFree(p) /\ TaggedOnce(p) /\ Untagged(p) /\ Holds(p, "scene")
  BY <1>5, <1>6 DEF AnswerFree, TaggedOnce, Untagged, Holds
<1>9. ServerTyped'
  <2>1. games \in 0..MaxGames /\ MaxGames \in Nat /\ turnNo \in 0..MaxTurns
        /\ session \in Sessions /\ owed \in LobbyAnswer \cup {NoMsg}
    BY SessionAssumption DEF IInv, Typed, ServerTyped
  <2>2. games' \in 0..MaxGames
    BY <1>1, <2>1
  <2>3. place' \in Places /\ step' \in Steps /\ calls' \in Seq(0..3)
    BY <1>1 DEF Places, Steps
  <2>4. {excused', blind', trusted'} \subseteq BOOLEAN
    BY <1>1 DEF Listening
  <2>5. QED
    BY <1>1, <2>1, <2>2, <2>3, <2>4 DEF ServerTyped
<1>10. TableFits'
  <2>1. turn' # mySeat' /\ Len(calls') <= 3 /\ ~Rejoining'
    BY <1>1 DEF Seats, NoSeat, Rejoining
  <2>2. session # "inited" => owed = NoMsg
    BY DEF IInv, TableFits
  <2>3. QED
    BY <1>1, <1>2, <2>1, <2>2 DEF TableFits, Listening
<1>11. PICK s : s = mySeat'
  OBVIOUS
<1>12. ASSUME session = "inited", NEW a \in View, NEW b \in View, up,
              Trace(toRobot, a, b, Context), IsRobot(a), Expected(b),
              a.status = status, b.status \in Reach(status), toRobot = <<>> => a = b
       PROVE  \E c \in View : Trace(p, b, c, Context') /\ Expected(c)'
  <2>1. status # "INIT" /\ Exchange(b) /\ Player(b)
    BY <1>12 DEF Expected
  <2>2. isMatch => b.status \notin {"INITGAME", "CANSINGUP"}
    BY <1>1, <1>2, <1>12, <2>1, QuietMatch
  <2>3. /\ b.status \in {"SIGNUPED", "QUICKGAME", "GAMMING", "INITGAME"}
        /\ b.status = "INITGAME" => ~isMatch /\ owed # NoMsg
    BY <1>2, <2>1, <2>2 DEF Player
  <2>4. PICK c \in View : c = [b EXCEPT !.status = "GAMMING", !.ai = NoSeat, !.lordSeat = NoSeat,
                                        !.history = <<>>, !.seat = s]
    <3>1. s \in Seats /\ <<>> \in Seq(0..3)
      BY <1>1, <1>11
    <3>2. QED
      BY <3>1 DEF View, Statuses
  <2>5. c.status = "GAMMING" /\ c.seat = s /\ Cleared(b, c)
    BY <2>4 DEF View, Cleared
  <2> DEFINE k == Context'
  <2> HIDE DEF k
  <2>6. Link(m, b, c, k)
    BY <1>5, <2>3, <2>5 DEF Link, SceneLink
  <2>7. Trace(p, b, c, k)
    BY <1>7, <2>6
  <2>8. toRobot' = toRobot \o p
    BY <1>6, <1>12 DEF Notify
  <2>9. Head(p).type \notin Ignored
    BY <1>5, <1>6
  <2>10. b.status \notin {"CANSINGUP", "gone"} /\ c.status \in {"GAMMING", "gone"}
    BY <2>3, <2>5
  <2>11. b.status = "INITGAME" =>
          \/ isMatch /\ c.status = "gone" /\ OnlyOver(p)
          \/ ~isMatch /\ owed # NoMsg /\ c.status = "GAMMING"
    BY <2>3, <2>5
  <2>12. UNCHANGED <<isMatch, robotVars, owed>>
    BY <1>1, <1>2
  <2>13. Exchange(c)'
    BY <1>1, <1>6, <1>8, <1>12, <2>1, <2>8, <2>9, <2>10, <2>11, <2>12, ExchangeGoesOn
  <2>14. Player(c)'
    BY <1>1, <2>5 DEF Player, InTune
  <2>15. Expected(c)'
    BY <1>1, <1>2, <1>11, <1>12, <2>1, <2>5, <2>13, <2>14 DEF Expected, robotVars
  <2>16. QED
    BY <2>7, <2>15 DEF k
<1>13. Views'
  <2>1. session \notin {"none", "inited"} => mySeat' = mySeat /\ toServer' = toServer
    BY <1>2
  <2>2. session = "rejoining" =>
          \A i \in DOMAIN p : p[i].type \in Ignored /\ (TagOf(p[i]) # NoTurn => excused')
    BY <1>2
  <2>3. QED
    BY <1>1, <1>3, <1>6, <1>12, <2>1, <2>2, MoveViews
<1>14. /\ \A i \in DOMAIN p : TagOf(p[i]) # NoTurn => Current(p[i])'
       /\ turn' = mySeat' /\ step' \in {"call", "play"} /\ ~excused' => ~Untagged(p)
       /\ Untagged(toServer') /\ toServer' = toServer
  BY <1>1, <1>3, <1>8 DEF Untagged
<1>15. QED
  BY <1>1, <1>3, <1>6, <1>8, <1>9, <1>10, <1>13, <1>14, MoveKeeps

(* A match ends.                                                           *)
LEMMA EndMatchKeeps == Settled /\ IInv /\ EndMatch => IInv'
<1> SUFFICES ASSUME Settled, IInv, EndMatch PROVE IInv'
  OBVIOUS
<1>1. /\ place = "table" /\ step = "between" /\ ~Rejoining
      /\ place' = "none" /\ step' = "none" /\ trusted' = FALSE
      /\ Notify(<<[type |-> "match_over"]>>)
      /\ toServer' = toServer /\ session' = session /\ owed' = owed /\ mySeat' = mySeat
      /\ UNCHANGED <<serverOnly, calls, lord, turn, turnNo, excused, blind, games>>
  BY DEF EndMatch
<1>2. /\ UNCHANGED <<isMatch, robotVars, up, delayed>> /\ isMatch
      /\ session \notin {"returning", "rejoining"} /\ turn = NoSeat /\ mySeat \in Seats
  BY <1>1 DEF serverOnly, fateVars, Rejoining, IInv, Typed, ServerTyped, TableFits
<1>3. Untagged(toRobot) /\ delayed = {} /\ Untagged(toServer)
  BY <1>1, NotMyTurn
<1>4. PICK m : m = [type |-> "match_over"]
  OBVIOUS
<1>5. m \in Message /\ m.type = "match_over" /\ TagOf(m) = NoTurn /\ m.type \notin LobbyAcks \cup Ignored
  BY <1>4 DEF Message, GameNotice, TagOf, Notices, LobbyAcks, Ignored
<1> DEFINE p == <<m>>
<1>6. /\ p \in Seq(Message) /\ p # <<>> /\ Notify(p) /\ Head(p) = m
      /\ DOMAIN p = {1} /\ p[1] = m
  BY <1>1, <1>4, <1>5
<1>7. \A k : \A b, c \in View : Link(m, b, c, k) => Trace(p, b, c, k)
  BY <1>5, OneTold
<1> HIDE DEF p
<1>8. AnswerFree(p) /\ TaggedOnce(p) /\ Untagged(p) /\ OnlyOver(p)
  BY <1>5, <1>6 DEF AnswerFree, TaggedOnce, Untagged, OnlyOver
<1>9. ServerTyped'
  BY <1>1 DEF IInv, Typed, ServerTyped, Places, Steps
<1>10. TableFits'
  <2>1. turn' # mySeat' /\ ~Rejoining'
    BY <1>1, <1>2 DEF Seats, NoSeat, Rejoining
  <2>2. (session # "inited" => owed = NoMsg) /\ Len(calls) <= 3
    BY DEF IInv, TableFits
  <2>3. QED
    BY <1>1, <1>2, <2>1, <2>2 DEF TableFits, InGame
<1>11. ASSUME session = "inited", NEW a \in View, NEW b \in View, up,
              Trace(toRobot, a, b, Context), IsRobot(a), Expected(b),
              a.status = status, b.status \in Reach(status), toRobot = <<>> => a = b
       PROVE  \E c \in View : Trace(p, b, c, Context') /\ Expected(c)'
  <2>1. status # "INIT" /\ Exchange(b) /\ Player(b) /\ b.seat = mySeat
    BY <1>11 DEF Expected
  <2>2. b.status \notin {"CANSINGUP", "gone"}
    BY <1>1, <2>1 DEF Player
  <2>3. PICK c \in View : c = [b EXCEPT !.status = "gone"]
    BY DEF View
  <2>4. c.status = "gone" /\ c.seat = mySeat
    BY <2>1, <2>3 DEF View
  <2> DEFINE k == Context'
  <2> HIDE DEF k
  <2>5. Link(m, b, c, k)
    BY <1>5, <2>1, <2>2, <2>4 DEF Link, OverLink
  <2>6. Trace(p, b, c, k)
    BY <1>7, <2>5
  <2>7. toRobot' = toRobot \o p
    BY <1>6, <1>11 DEF Notify
  <2>8. Head(p).type \notin Ignored
    BY <1>5, <1>6
  <2>9. c.status \in {"GAMMING", "gone"} /\ isMatch /\ c.status = "gone" /\ OnlyOver(p)
    BY <1>2, <1>8, <2>4
  <2>10. UNCHANGED <<isMatch, robotVars, owed>>
    BY <1>1, <1>2
  <2>11. Exchange(c)'
    BY <1>1, <1>6, <1>8, <1>11, <2>1, <2>2, <2>7, <2>8, <2>9, <2>10, ExchangeGoesOn
  <2>12. Player(c)'
    BY <1>1, <2>4 DEF Player
  <2>13. Expected(c)'
    BY <1>1, <1>2, <1>11, <2>1, <2>4, <2>11, <2>12 DEF Expected, robotVars
  <2>14. QED
    BY <2>6, <2>13 DEF k
<1>12. Views'
  <2>1. session \notin {"none", "inited"} => mySeat' = mySeat /\ toServer' = toServer
    BY <1>1
  <2>2. session = "rejoining" =>
          \A i \in DOMAIN p : p[i].type \in Ignored /\ (TagOf(p[i]) # NoTurn => excused')
    BY <1>2
  <2>3. UNCHANGED serverOnly /\ session' = session
    BY <1>1
  <2>4. QED
    BY <1>3, <1>6, <1>11, <2>1, <2>2, <2>3, MoveViews
<1>13. /\ \A i \in DOMAIN p : TagOf(p[i]) # NoTurn => Current(p[i])'
       /\ turn' = mySeat' /\ step' \in {"call", "play"} /\ ~excused' => ~Untagged(p)
       /\ Untagged(toServer') /\ toServer' = toServer /\ step' # "scene"
       /\ UNCHANGED serverOnly /\ session' = session
  BY <1>1, <1>3, <1>8 DEF Untagged
<1>14. QED
  BY <1>3, <1>6, <1>8, <1>9, <1>10, <1>12, <1>13, MoveKeeps

-----------------------------------------------------------------------------
(* The theorems                                                            *)

(* Every step keeps the invariant.                                         *)
LEMMA NextInv ==
  ASSUME Orderly, IInv, [Next]_vars
  PROVE  IInv'
<1>1. LobbyFirst /\ Settled /\ Patient
  BY DEF Orderly
<1>2. CASE UNCHANGED vars
  <2>1. UNCHANGED <<serverOnly, isMatch, up, toRobot, toServer, delayed, failed, session, owed, place>>
        /\ UNCHANGED <<step, mySeat, calls, lord, turn, turnNo, excused, blind, trusted, games>>
        /\ UNCHANGED <<status, needKeepPlay, testing, aiSeat, lordSeat, callHistory, retired>>
    BY <1>2 DEF vars, serverOnly, fateVars, robotVars
  <2>2. Typed' /\ TableFits' /\ LineFits'
    BY <2>1 DEF IInv, Typed, RobotTyped, LineTyped, ServerTyped, TableFits, InGame, Rejoining,
                LineFits, OnlyRequest
  <2>3. Tags' /\ Waits'
    BY <2>1 DEF IInv, Tags, AllCurrent, Current, Waits
  <2>4. CallIsLegal'
    BY <2>1 DEF IInv, CallIsLegal, CallsAreLegal, LegalAnswer, MyTurn, LegalScore
  <2>5. Views'
    <3>1. ASSUME up PROVE \E a, b : Trace(toRobot', a, b, Context') /\ IsRobot(a)' /\ Expected(b)'
      <4>1. PICK a, b : Trace(toRobot, a, b, Context) /\ IsRobot(a) /\ Expected(b)
        BY <3>1 DEF IInv, Views
      <4>2. Context' = Context /\ toRobot' = toRobot
        BY <2>1 DEF Context
      <4>3. IsRobot(a)'
        BY <2>1, <4>1 DEF IsRobot
      <4>4. Exchange(b)' = Exchange(b)
        BY <2>1 DEF Exchange, InitUnread, Asked, AnswerOwed, AnswerUnread, SigningUp
      <4>5. Player(b)' = Player(b)
        BY <2>1 DEF Player, InTune, InGame
      <4>6. Expected(b)'
        BY <2>1, <4>1, <4>4, <4>5 DEF Expected, Opening, Verifying, Returning
      <4>7. QED
        BY <4>1, <4>2, <4>3, <4>6
    <3>2. QED
      BY <2>1, <3>1 DEF Views
  <2>6. QED
    BY <2>1, <2>2, <2>3, <2>4, <2>5 DEF IInv
<1>3. ASSUME NEW test \in BOOLEAN, Connect(test) PROVE IInv'
  BY <1>3, ConnectKeeps
<1>4. CASE Recv
  BY <1>4, RecvKeeps
<1>5. CASE DelaySendMsgTimer
  BY <1>5, TimerKeeps
<1>6. CASE ConnectionLost
  BY <1>6, LossKeeps
<1>7. CASE Serve
  BY <1>1, <1>7, ServeVerifyKeeps, ServeInitGameKeeps, ServeQuickKeeps, ServeCondKeeps,
     ServeSignUpKeeps, ServeReadyKeeps, ServeCallKeeps, ServeTakeOutKeeps,
     ServeTrustCancelKeeps, ServeKeepKeeps DEF Serve
<1>8. CASE LobbyAnswers
  BY <1>8, LobbyAnswersKeeps
<1>9. CASE SeeClose \/ Drop
  BY <1>9, EndSessionKeeps DEF SeeClose, Drop
<1>10. CASE Table
  BY <1>1, <1>10, BeginKeeps, DealAnywayKeeps, OtherCallsKeeps, OtherTakesOutKeeps,
     SystemActsKeeps, EndMatchKeeps DEF Table
<1>11. CASE Rest
  BY <1>2, <1>11 DEF Rest
<1>12. QED
  BY <1>2, <1>3, <1>4, <1>5, <1>6, <1>7, <1>8, <1>9, <1>10, <1>11 DEF Next

(* The robot and the server always agree up to what is under way between   *)
(* them: the messages the robot has not read, the requests the server has  *)
(* not read, the calls and cards in DelaySendMsgTimer events, and the      *)
(* answer the lobby still owes.                                            *)
THEOREM Invariance == Orderly => (Spec => []IInv)
<1> SUFFICES ASSUME Orderly PROVE Spec => []IInv
  OBVIOUS
<1>1. Init => IInv
  BY InitInv
<1>2. IInv /\ [Next]_vars => IInv'
  BY NextInv
<1>3. QED
  BY <1>1, <1>2, PTL DEF Spec

(* Robot, lobby and table keep to their types; a call or cards wait only   *)
(* for a turn the table gave.                                              *)
THEOREM SessionTypes == Orderly => (Spec => []TypeOK)
<1> SUFFICES ASSUME Orderly PROVE Spec => []TypeOK
  OBVIOUS
<1>1. IInv => TypeOK
  <2> SUFFICES ASSUME IInv PROVE TypeOK
    OBVIOUS
  <2>1. RobotTyped /\ LineTyped /\ ServerTyped /\ Len(calls) <= 3
    BY DEF IInv, Typed, TableFits
  <2>2. ASSUME NEW r \in delayed PROVE r.type \in {"call", "takeout"} /\ r.turn \in 1..MaxTurns
    <3>1. r.type \in {"call", "takeout"} /\ r.turn \in 0..MaxTurns
      BY <2>1 DEF LineTyped
    <3>2. r.turn # 0
      BY DEF IInv, Tags, Current, NoTurn
    <3>3. QED
      BY <3>1, <3>2, SessionAssumption
  <2>3. \A i \in DOMAIN toServer : toServer[i].type \in Requests
    <3>1. \A i \in DOMAIN toServer : toServer[i] \in RequestSet
      BY <2>1 DEF LineTyped
    <3>2. QED
      BY <3>1 DEF RequestSet
  <2>4. QED
    BY <2>1, <2>2, <2>3 DEF TypeOK, RobotTyped, ServerTyped
<1>2. Spec => []IInv
  BY Invariance
<1>3. QED
  BY <1>1, <1>2, PTL

(* No RobotStatus guard of RobotBase and RobotTask refuses a message that  *)
(* carries no error, whatever connections are lost, in whatever order the  *)
(* robot, the lobby, the other players and the clocks act.                 *)
THEOREM MessagesAreAccepted == Orderly => (Spec => []NoGoodMessageRefused)
<1> SUFFICES ASSUME Orderly PROVE Spec => []NoGoodMessageRefused
  OBVIOUS
<1>1. IInv => NoGoodMessageRefused
  BY DEF IInv, NoGoodMessageRefused
<1>2. Spec => []IInv
  BY Invariance
<1>3. QED
  BY <1>1, <1>2, PTL

(* A delayed call or cards that reach the table answer the turn they were  *)
(* made for, never a later one.                                            *)
THEOREM NoAnswerIsStale == Orderly => (Spec => []AnswersItsTurn)
<1> SUFFICES ASSUME Orderly PROVE Spec => []AnswersItsTurn
  OBVIOUS
<1>1. IInv => AnswersItsTurn
  <2> SUFFICES ASSUME IInv, toServer # <<>>, Head(toServer).type \in {"call", "takeout"}
               PROVE  Head(toServer).turn = turnNo
    BY DEF AnswersItsTurn
  <2>1. 1 \in DOMAIN toServer /\ toServer[1] = Head(toServer)
    BY FirstAsked
  <2>2. Head(toServer).turn # NoTurn
    BY <2>1 DEF IInv, Tags
  <2>3. TagOf(Head(toServer)) # NoTurn
    BY <2>2 DEF TagOf, Notices
  <2>4. QED
    BY <2>1, <2>3 DEF IInv, Tags, AllCurrent, Current
<1>2. Spec => []IInv
  BY Invariance
<1>3. QED
  BY <1>1, <1>2, PTL

(* The table waits for the robot's call, cards or readiness only while the *)
(* notice or the answer is under way.                                      *)
THEOREM NobodyWaitsForBoth == Orderly => (Spec => []TurnIsAnswered)
<1> SUFFICES ASSUME Orderly PROVE Spec => []TurnIsAnswered
  OBVIOUS
<1>1. IInv => TurnIsAnswered
  <2> SUFFICES ASSUME IInv PROVE TurnIsAnswered
    OBVIOUS
  <2>1. ASSUME ~Untagged(toRobot) PROVE AnswerOnItsWay
    <3>1. PICK i \in DOMAIN toRobot : TagOf(toRobot[i]) # NoTurn
      BY <2>1 DEF Untagged
    <3>2. toRobot[i].type \in {"deal", "call", "base", "takeout"} /\ toRobot[i].turn = turnNo
      BY <3>1 DEF TagOf, Notices, IInv, Tags, AllCurrent, Current
    <3>3. QED
      BY <3>2 DEF AnswerOnItsWay
  <2>2. ASSUME delayed # {} PROVE AnswerOnItsWay
    BY <2>2 DEF IInv, Tags, Current, AnswerOnItsWay
  <2>3. ASSUME ~Untagged(toServer) PROVE AnswerOnItsWay
    <3>1. PICK i \in DOMAIN toServer : TagOf(toServer[i]) # NoTurn
      BY <2>3 DEF Untagged
    <3>2. toServer[i].turn = turnNo
      BY <3>1 DEF IInv, Tags, AllCurrent, Current
    <3>3. QED
      BY <3>2 DEF AnswerOnItsWay
  <2>4. QED
    BY <2>1, <2>2, <2>3 DEF IInv, Waits, Holds, TurnIsAnswered
<1>2. Spec => []IInv
  BY Invariance
<1>3. QED
  BY <1>1, <1>2, PTL

(* A robot that heard the auction calls nothing or more than anybody       *)
(* before, although callHistory lacks the call before its own.             *)
THEOREM CallsAreAccepted == Orderly => (Spec => []CallIsLegal)
<1> SUFFICES ASSUME Orderly PROVE Spec => []CallIsLegal
  OBVIOUS
<1>1. IInv => CallIsLegal
  BY DEF IInv
<1>2. Spec => []IInv
  BY Invariance
<1>3. QED
  BY <1>1, <1>2, PTL

(* A notice that makes the robot index playerInfo by aiSeat or lordSeat    *)
(* finds the seats set, and aiSeat the one the table gave it.              *)
THEOREM NoticesFindTheSeats == Orderly => (Spec => []SeatsAreKnown)
<1> SUFFICES ASSUME Orderly PROVE Spec => []SeatsAreKnown
  OBVIOUS
<1>1. IInv => SeatsAreKnown
  <2> SUFFICES ASSUME IInv, up, session # "none", status = "GAMMING", toRobot # <<>>,
                      \A i \in DOMAIN toRobot : toRobot[i].type # "scene"
               PROVE  /\ Msg.type \in {"deal", "call", "base", "takeout", "trust"} => aiSeat = mySeat
                      /\ Msg.type = "base" => lordSeat \in Seats
    BY DEF SeatsAreKnown
  <2>1. PICK a, b \in View :
          Trace(toRobot, a, b, Context) /\ IsRobot(a) /\ Expected(b) /\ a.status = status
    BY RobotViews
  <2>2. toRobot \in Seq(Message)
    BY DEF IInv, Typed, LineTyped
  <2>3. a.seat = mySeat
    <3>1. a.seat = b.seat
      BY <2>1, <2>2, TraceEnds DEF Holds
    <3>2. QED
      BY <2>1, <3>1 DEF Expected
  <2>4. PICK w \in View : Link(Msg, a, w, Context)
    BY <2>1, <2>2, ReadTrace DEF Msg
  <2>5. ASSUME Msg.type \in {"deal", "call", "base", "takeout", "trust"}
        PROVE  GameLink(Msg, a, w, Context)
    BY <2>1, <2>4, <2>5 DEF Link, LobbyLink, SceneLink, OverLink
  <2>6. Msg.type \in {"deal", "call", "base", "takeout", "trust"} => a.ai = a.seat
    BY <2>5 DEF GameLink
  <2>7. Msg.type = "base" => a.lordSeat \in Seats
    BY <2>5 DEF GameLink
  <2>8. QED
    BY <2>1, <2>3, <2>6, <2>7 DEF IsRobot
<1>2. Spec => []IInv
  BY Invariance
<1>3. QED
  BY <1>1, <1>2, PTL

(* A robot that believes itself signed up or queued, with nothing left to  *)
(* read, has a place: it cannot wait for a game nobody will begin.         *)
THEOREM WaitingHasAPlace == Orderly => (Spec => []WaitingIsKnown)
<1> SUFFICES ASSUME Orderly PROVE Spec => []WaitingIsKnown
  OBVIOUS
<1>1. IInv => WaitingIsKnown
  <2> SUFFICES ASSUME IInv, up, session = "inited", status \in {"SIGNUPED", "QUICKGAME"},
                      toRobot = <<>>
               PROVE  place # "none"
    BY DEF WaitingIsKnown
  <2>1. PICK a, b \in View : Expected(b) /\ a.status = status /\ a = b
    BY RobotViews
  <2>2. QED
    BY <2>1 DEF Expected, Player
<1>2. Spec => []IInv
  BY Invariance
<1>3. QED
  BY <1>1, <1>2, PTL
=============================================================================
