------------------------------ MODULE CardTable ------------------------------
(***************************************************************************)
(* What a task robot of new_robot_client believes about the cards of one   *)
(* game, and the cards on the table server. The robot removes cards from   *)
(* aiCardsVec when it chooses them, from its points when the server        *)
(* announces them, and puts the chosen ones back when the server refuses   *)
(* them or puts the robot under trust; the system may play other cards in  *)
(* its place, and a robot that rejoins starts over from the server's list. *)
(*                                                                         *)
(* The table server is not in the repository. How it treats refused cards  *)
(* is the constant Refusal. Which hand the robot prefers, and whether it   *)
(* beats the last one, is a free choice here.                              *)
(***************************************************************************)
EXTENDS Integers, Sequences, FiniteSets

CONSTANTS
  NumCards,   \* cards of the deck (54 in the game)
  NumPoints,  \* card points (15 in the game)
  HandSize,   \* cards dealt to each player (17 in the game)
  Refusal,    \* how tables may tell a robot of a refusal, see Refusals
  MaxLosses,  \* connections the robot may lose
  MaxUnread   \* messages to the robot the server has under way

Refusals ==
  {"ack",           \* a negative answer, no trust notice
   "trust",         \* a trust notice before the cards the system plays
   "ack_and_trust", \* both
   "trust_last"}    \* a trust notice after the cards the system plays

Seats    == 0..2
Me       == 0                       \* aiSeat
Others   == Seats \ {Me}
NoSeat   == -1
Cards    == 0..(NumCards - 1)
Points   == 0..(NumPoints - 1)
BaseSize == NumCards - 3 * HandSize \* 3 in the game

ASSUME TableAssumption ==
  /\ NumCards \in Nat /\ NumPoints \in Nat \ {0} /\ HandSize \in Nat
  /\ BaseSize > 0 /\ NumCards <= 4 * NumPoints
  /\ Refusal \subseteq Refusals
  /\ MaxLosses \in Nat /\ MaxUnread \in Nat

VARIABLES
  aiCardsVec,   \* how often each card is in aiCardsVec
  lastTakeOut,  \* how often each card is in vecLastTakeOutCards
  points,       \* playerInfo[aiSeat].points
  total,        \* playerInfo[seat].total
  otherPoints,  \* otherPoints
  remainPoints, \* remainPoints
  curHandSeat,  \* curHandSeat
  lordSeat,     \* lordSeat
  rejoined,     \* the robot lost and took up this game
  delayed,      \* cards waiting in a DelaySendMsgTimer event
  toRobot,      \* notices and answers on their way to the robot
  toServer,     \* the robot's cards on their way to the server
  hands,        \* the cards of each player
  lord,         \* the lord
  turn,         \* whose turn it is
  top,          \* who played the last cards
  away,         \* the robot has no session
  refused,      \* the robot's cards refused in this turn
  excused,      \* the robot will not answer this turn
  losses,       \* connections lost so far
  policy        \* the Refusal of this table

robotVars == <<aiCardsVec, lastTakeOut, points, total, otherPoints, remainPoints,
               curHandSeat, lordSeat, rejoined>>
tableVars == <<hands, lord, turn, top, refused, excused>>
vars      == <<aiCardsVec, lastTakeOut, points, total, otherPoints, remainPoints,
               curHandSeat, lordSeat, rejoined, delayed, toRobot, toServer,
               hands, lord, turn, top, away, refused, excused, losses, policy>>

-----------------------------------------------------------------------------
(* Cards and their points                                                  *)
cardToPoint(c) == c % NumPoints

NoCards   == [c \in Cards |-> 0]
Bag(set)  == [c \in Cards |-> IF c \in set THEN 1 ELSE 0]
a (+) b   == [x \in DOMAIN a |-> a[x] + b[x]]
a (-) b   == [x \in DOMAIN a |-> a[x] - b[x]]

(* cardVecToPointArr, for a vector without repetition.                     *)
PointsOf(set) == [p \in Points |-> Cardinality({c \in set : cardToPoint(c) = p})]

(* How many cards of the point of c, but lower, are in a vector.           *)
CountBelow(vec, c) ==
  LET at(d) == IF d >= 0 THEN vec[d] ELSE 0
  IN  at(c - NumPoints) + at(c - 2 * NumPoints) + at(c - 3 * NumPoints)

Deck == [p \in Points |-> Cardinality({c \in Cards : cardToPoint(c) = p})]

(* Bound: the hands the robot chooses from are of one point.               *)
Hands   == {h \in [Points -> 0..(HandSize + BaseSize)] : \E p \in Points : h[p] > 0 /\ \A q \in Points \ {p} : h[q] = 0}
Nothing == [p \in Points |-> 0]

-----------------------------------------------------------------------------
(* The robot's choice                                                      *)

(* takeOutHand: what it finds of hand h in vec. Cards of one point are     *)
(* alike: the lowest stand for those that come first in aiCardsVec.        *)
Found(vec, h) ==
  [c \in Cards |->
     LET left == h[cardToPoint(c)] - CountBelow(vec, c)
     IN  IF left < 0 THEN 0 ELSE IF left < vec[c] THEN left ELSE vec[c]]

isFree(lordSeat_, curHandSeat_) ==
  (lordSeat_ = Me /\ curHandSeat_ = NoSeat) \/ curHandSeat_ = Me

Choose(vec, last, cards) ==
  /\ aiCardsVec' = vec
  /\ lastTakeOut' = last
  /\ delayed' = {cards}

(* Mutant: the hand is not put back.                                       *)
PassWithoutRecovery(vec, t) == Choose(vec (-) t, NoCards, NoCards)

(* A hand that is not higher is put back and the robot passes.             *)
PutBack(vec, t) == Choose(vec, NoCards, NoCards)

(* RbtOutGetTakeOutCard and SendTakeOutCardReq, from the cards and points  *)
(* as the same handler left them. A robot that is free plays its lowest    *)
(* hand where the preferred one finds no cards.                            *)
TakeOutFrom(vec, pts, free) ==
  LET playable == {h \in Hands : \A p \in Points : h[p] <= pts[p]} IN
  \/ \E h \in playable :
       LET t == Found(vec, h) IN
       /\ t # NoCards
       /\ \/ Choose(vec (-) t, t, t)
          \/ ~free /\ PutBack(vec, t)
  \/ /\ free => playable = {} \/ \E h \in playable : Found(vec, h) = NoCards
     /\ Choose(vec, NoCards, NoCards)

-----------------------------------------------------------------------------
(* The handlers of the robot                                               *)
Msg == Head(toRobot)
Receives(type) == ~away /\ toRobot # <<>> /\ Msg.type = type
Read == toRobot' = Tail(toRobot) /\ UNCHANGED <<toServer, tableVars, away, losses, policy>>

(* RbtResetData leaves otherPoints as they are.                            *)
RbtResetData ==
  /\ aiCardsVec' = NoCards /\ lastTakeOut' = NoCards
  /\ points' = Nothing
  /\ total' = [s \in Seats |-> 0]
  /\ remainPoints' = Deck
  /\ curHandSeat' = NoSeat /\ lordSeat' = NoSeat
  /\ UNCHANGED otherPoints

(* RbtInInitCard                                                           *)
RecvInitHardCardNotify ==
  /\ Receives("deal") /\ Read
  /\ aiCardsVec' = Bag(Msg.cards)
  /\ points' = PointsOf(Msg.cards)
  /\ total' = [s \in Seats |-> HandSize]
  /\ remainPoints' = Deck
  /\ otherPoints' = Deck (-) PointsOf(Msg.cards)
  /\ curHandSeat' = NoSeat /\ lordSeat' = NoSeat
  /\ rejoined' = FALSE
  /\ UNCHANGED <<lastTakeOut, delayed>>

(* RecvGetLordNotify and RecvGetBaseCardNotify: RbtInSetLord, and a lord   *)
(* takes out first.                                                        *)
RecvGetBaseCardNotify ==
  /\ Receives("base") /\ Read
  /\ lordSeat' = Msg.lord
  /\ total' = [total EXCEPT ![Msg.lord] = HandSize + BaseSize]
  /\ \/ /\ Msg.lord # Me
        /\ UNCHANGED <<points, aiCardsVec, lastTakeOut, delayed>>
     \/ /\ Msg.lord = Me
        /\ points' = points (+) PointsOf(Msg.cards)
        /\ TakeOutFrom(aiCardsVec (+) Bag(Msg.cards), points', isFree(Me, curHandSeat))
  /\ UNCHANGED <<otherPoints, remainPoints, curHandSeat, rejoined>>

(* Mutant: the other players' cards are counted as the robot's.            *)
RbtInTakeOutCardOfAnyone(seat, cards) ==
  /\ total' = [total EXCEPT ![seat] = @ - Cardinality(cards)]
  /\ remainPoints' = remainPoints (-) PointsOf(cards)
  /\ otherPoints' = IF seat = Me THEN otherPoints ELSE otherPoints (-) PointsOf(cards)
  /\ points' = points (-) PointsOf(cards)
  /\ curHandSeat' = IF cards = {} THEN curHandSeat ELSE seat

(* Mutant: the robot's cards are counted as the others'.                   *)
RbtInTakeOutCardOfAll(seat, cards) ==
  /\ total' = [total EXCEPT ![seat] = @ - Cardinality(cards)]
  /\ remainPoints' = remainPoints (-) PointsOf(cards)
  /\ otherPoints' = otherPoints (-) PointsOf(cards)
  /\ points' = IF seat = Me THEN points (-) PointsOf(cards) ELSE points
  /\ curHandSeat' = IF cards = {} THEN curHandSeat ELSE seat

(* The counters follow every announcement, the robot's own included.       *)
RbtInTakeOutCard(seat, cards) ==
  /\ total' = [total EXCEPT ![seat] = @ - Cardinality(cards)]
  /\ remainPoints' = remainPoints (-) PointsOf(cards)
  /\ otherPoints' = IF seat = Me THEN otherPoints ELSE otherPoints (-) PointsOf(cards)
  /\ points' = IF seat = Me THEN points (-) PointsOf(cards) ELSE points
  /\ curHandSeat' = IF cards = {} THEN curHandSeat ELSE seat

IsLastTakeOutCards(cards) == lastTakeOut = Bag(cards)
RemoveExtraCards(cards) ==
  [c \in Cards |-> IF c \in cards /\ aiCardsVec[c] > 0 THEN aiCardsVec[c] - 1 ELSE aiCardsVec[c]]

(* Mutant: cards the system played for the robot are not removed.          *)
KeptCardsOfSystem(seat, cards) == aiCardsVec

(* aiCardsVec once the cards of seat are announced: cards the system       *)
(* played for the robot are removed.                                       *)
KeptCards(seat, cards) ==
  IF seat = Me /\ ~IsLastTakeOutCards(cards) THEN RemoveExtraCards(cards) ELSE aiCardsVec

RecvGetTakeOutCardNotify ==
  /\ Receives("takeout") /\ Read
  /\ RbtInTakeOutCard(Msg.seat, Msg.cards)
  /\ LET vec == KeptCards(Msg.seat, Msg.cards) IN
     \/ /\ Msg.next # Me
        /\ aiCardsVec' = vec
        /\ UNCHANGED <<lastTakeOut, delayed>>
     \/ /\ Msg.next = Me
        /\ TakeOutFrom(vec, points', isFree(lordSeat, curHandSeat'))
  /\ UNCHANGED <<lordSeat, rejoined>>

(* RecoveryHandCards, for a refusal and for a trust notice.                *)
RecoveryHandCards ==
  /\ aiCardsVec' = aiCardsVec (+) lastTakeOut
  /\ UNCHANGED <<lastTakeOut, points, total, otherPoints, remainPoints,
                 curHandSeat, lordSeat, rejoined, delayed>>

RecvTakeOutCardAck ==
  /\ Receives("ack") /\ Read
  /\ \/ ~Msg.ok /\ RecoveryHandCards
     \/ Msg.ok /\ UNCHANGED <<robotVars, delayed>>

RecvGetTrustNotify == Receives("trust") /\ Read /\ RecoveryHandCards

RecvGetGameResultNotify ==
  Receives("result") /\ Read /\ RbtResetData /\ UNCHANGED <<rejoined, delayed>>

(* RbtResetData, RbtInSetSeat, RbtInSetCard                                *)
RecvKeepPlayAck ==
  /\ Receives("keep") /\ Read
  /\ aiCardsVec' = Bag(Msg.cards) /\ lastTakeOut' = NoCards
  /\ points' = PointsOf(Msg.cards)
  /\ total' = [s \in Seats |-> IF s = Me THEN Cardinality(Msg.cards) ELSE 0]
  /\ remainPoints' = Deck
  /\ curHandSeat' = NoSeat /\ lordSeat' = Msg.lord
  /\ rejoined' = TRUE
  /\ UNCHANGED <<otherPoints, delayed>>

DelaySendMsgTimer ==
  \E cards \in delayed :
    /\ delayed' = delayed \ {cards}
    /\ toServer' = Append(toServer, cards)
    /\ UNCHANGED <<robotVars, toRobot, tableVars, away, losses, policy>>

-----------------------------------------------------------------------------
(* The table                                                               *)
NoRefusal == [c \in Cards |-> -1]

Push(msgs) ==
  /\ away \/ Len(toRobot) < MaxUnread
  /\ toRobot' = IF away THEN toRobot ELSE toRobot \o msgs

(* What each player gets; NoSeat gets the base cards. Cards of one point    *)
(* are alike, so that of each point the players in turn get the lowest.    *)
Deals ==
  {[s \in Seats \cup {NoSeat} |-> {c \in Cards : to[c] = s}] :
     to \in {f \in [Cards -> Seats \cup {NoSeat}] :
               /\ \A s \in Seats : Cardinality({c \in Cards : f[c] = s}) = HandSize
               /\ \A c, d \in Cards : c < d /\ cardToPoint(c) = cardToPoint(d) => f[c] <= f[d]}}

(* A table waits for its players, who are ready once they read the result. *)
Deal ==
  /\ turn = NoSeat /\ toRobot = <<>>
  /\ \E dealt \in Deals : \E l \in Seats :
       /\ hands' = [s \in Seats |-> IF s = l THEN dealt[s] \cup dealt[NoSeat] ELSE dealt[s]]
       /\ lord' = l /\ turn' = l /\ top' = l
       /\ Push(<<[type |-> "deal", cards |-> dealt[Me]],
                 [type |-> "base", lord |-> l, cards |-> dealt[NoSeat]]>>)
  /\ refused' = NoRefusal
  /\ excused' = away
  /\ UNCHANGED <<robotVars, delayed, toServer, away, losses, policy>>

(* seat takes out cards; none is a pass.                                   *)
Play(seat, cards, before, after) ==
  LET over == cards = hands[seat]
      next == IF over THEN NoSeat ELSE (seat + 1) % 3
      told == [type |-> "takeout", seat |-> seat, next |-> next, cards |-> cards]
  IN  /\ hands' = [hands EXCEPT ![seat] = @ \ cards]
      /\ turn' = next
      /\ top' = IF cards = {} THEN top ELSE seat
      /\ refused' = NoRefusal
      /\ excused' = (next = Me /\ away)
      /\ Push(before \o <<told>> \o after
              \o IF over THEN <<[type |-> "result"]>> ELSE <<>>)
      /\ UNCHANGED lord

(* What a player may take out: cards of one point, or a pass.              *)
Playable(seat) ==
  {cards \in SUBSET hands[seat] :
     /\ \A c, d \in cards : cardToPoint(c) = cardToPoint(d)
     /\ cards = {} => top # seat}

(* Bound: of cards of one point another player takes out the lowest first. *)
OtherTakesOut ==
  /\ turn \in Others
  /\ \E cards \in Playable(turn) :
       /\ \A c \in cards, d \in hands[turn] \ cards : cardToPoint(c) = cardToPoint(d) => c < d
       /\ Play(turn, cards, <<>>, <<>>)
  /\ UNCHANGED <<robotVars, delayed, toServer, away, losses, policy>>

(* Cards the table may refuse: not the robot's own, not higher than the    *)
(* last ones, or a pass of the player who is free.                         *)
Refusable(sent) ==
  \/ top = Me /\ sent = NoCards
  \/ top # Me /\ sent # NoCards
  \/ \E c \in Cards : sent[c] > Bag(hands[Me])[c]

(* The table takes the robot's cards or refuses them.                      *)
ServeTakeOut ==
  /\ toServer # <<>> /\ turn = Me
  /\ toServer' = Tail(toServer)
  /\ LET sent == Head(toServer) IN
     \/ \E cards \in Playable(Me) :
          /\ sent = Bag(cards)
          /\ Play(Me, cards, <<[type |-> "ack", ok |-> TRUE]>>, <<>>)
     \/ /\ Refusable(sent)
        /\ refused' = sent
        /\ excused' = TRUE
        /\ Push(IF policy \in {"ack", "ack_and_trust"} THEN <<[type |-> "ack", ok |-> FALSE]>> ELSE <<>>)
        /\ UNCHANGED <<hands, lord, turn, top>>
  /\ UNCHANGED <<robotVars, delayed, away, losses, policy>>

(* The system plays for a robot that will not answer. The cards are legal, *)
(* so they are not the refused ones.                                       *)
SystemTakesOut ==
  /\ turn = Me /\ excused /\ delayed = {} /\ toServer = <<>>
  /\ LET trust == IF refused # NoRefusal THEN <<[type |-> "trust"]>> ELSE <<>> IN
     \E cards \in Playable(Me) :
       /\ Bag(cards) # refused
       /\ CASE policy = "ack" -> Play(Me, cards, <<>>, <<>>)
            [] policy \in {"trust", "ack_and_trust"} -> Play(Me, cards, trust, <<>>)
            [] policy = "trust_last" -> Play(Me, cards, <<>>, trust)
  /\ UNCHANGED <<robotVars, delayed, toServer, away, losses, policy>>

-----------------------------------------------------------------------------
(* The connection: what is in flight is lost. RobotInit resets the robot   *)
(* when it connects again; nothing reaches it before, so it does here.     *)
Lose ==
  /\ ~away /\ losses < MaxLosses
  /\ away' = TRUE
  /\ losses' = losses + 1
  /\ toRobot' = <<>> /\ toServer' = <<>> /\ delayed' = {}
  /\ excused' = (turn = Me)
  /\ refused' = NoRefusal
  /\ RbtResetData
  /\ UNCHANGED <<rejoined, hands, lord, turn, top, policy>>

(* The keep-play request: the table it left tells the robot its cards.     *)
Rejoin ==
  /\ away
  /\ away' = FALSE
  /\ toRobot' = IF turn = NoSeat THEN <<>>
                ELSE <<[type |-> "keep", cards |-> hands[Me], lord |-> lord]>>
  /\ UNCHANGED <<robotVars, delayed, toServer, tableVars, losses, policy>>

Init ==
  /\ aiCardsVec = NoCards /\ lastTakeOut = NoCards /\ points = Nothing
  /\ total = [s \in Seats |-> 0]
  /\ otherPoints = Nothing /\ remainPoints = Deck
  /\ curHandSeat = NoSeat /\ lordSeat = NoSeat /\ rejoined = FALSE
  /\ delayed = {} /\ toRobot = <<>> /\ toServer = <<>>
  /\ hands = [s \in Seats |-> {}] /\ lord = NoSeat /\ turn = NoSeat /\ top = NoSeat
  /\ away = FALSE /\ refused = NoRefusal /\ excused = FALSE /\ losses = 0
  /\ policy \in Refusal

Next ==
  \/ RecvInitHardCardNotify \/ RecvGetBaseCardNotify \/ RecvGetTakeOutCardNotify
  \/ RecvTakeOutCardAck \/ RecvGetTrustNotify \/ RecvGetGameResultNotify \/ RecvKeepPlayAck
  \/ DelaySendMsgTimer
  \/ Deal \/ OtherTakesOut \/ ServeTakeOut \/ SystemTakesOut
  \/ Lose \/ Rejoin

Spec == Init /\ [][Next]_vars

-----------------------------------------------------------------------------
(* Properties                                                              *)
TypeOK ==
  /\ aiCardsVec \in [Cards -> Nat] /\ lastTakeOut \in [Cards -> 0..1]
  /\ points \in [Points -> Nat] /\ remainPoints \in [Points -> Nat]
  /\ otherPoints \in [Points -> Int] /\ total \in [Seats -> Int]
  /\ curHandSeat \in Seats \cup {NoSeat} /\ lordSeat \in Seats \cup {NoSeat}
  /\ delayed \subseteq [Cards -> 0..1] /\ Cardinality(delayed) <= 1
  /\ hands \in [Seats -> SUBSET Cards]
  /\ {lord, turn, top} \subseteq Seats \cup {NoSeat}
  /\ losses \in 0..MaxLosses /\ policy \in Refusals

(* Nothing about the robot's cards is under way or still to be told.       *)
Quiet ==
  /\ turn # NoSeat /\ ~away
  /\ toRobot = <<>> /\ toServer = <<>> /\ delayed = {}
  /\ refused # NoRefusal => policy = "ack"

(* Whenever nothing is under way the robot's two records of its own hand,  *)
(* aiCardsVec and playerInfo[aiSeat].points, are the cards the table holds *)
(* for it: after refusals, cards played by the system and rejoins alike.   *)
OwnHandIsExact ==
  Quiet => aiCardsVec = Bag(hands[Me]) /\ points = PointsOf(hands[Me])

(* The cards a robot sends reach the table in its turn and are cards it    *)
(* holds: a refused hand is never played twice, a hand never sent late.    *)
SentCardsAreHeld ==
  toServer # <<>> =>
    /\ turn = Me /\ ~excused
    /\ \A c \in Cards : Head(toServer)[c] <= Bag(hands[Me])[c]

(* The card counters of a robot that saw the whole game tell how many      *)
(* cards of each point are unplayed, how many each player holds, and, for  *)
(* a farmer, how many of each point the others hold. A lord goes on        *)
(* counting as many cards as it got from the base, no card of the others   *)
(* among them, as theirs: no play, refusal or card of the system adds      *)
(* another error.                                                          *)
HandsOfOthers == UNION {hands[s] : s \in Others}
CountersAreExact ==
  Quiet /\ ~rejoined =>
    /\ remainPoints = PointsOf(hands[Me] \cup HandsOfOthers)
    /\ \A s \in Seats : total[s] = Cardinality(hands[s])
    /\ lord # Me => otherPoints = PointsOf(HandsOfOthers)
    /\ lord = Me =>
         \E base \in SUBSET (Cards \ HandsOfOthers) :
           Cardinality(base) = BaseSize /\ otherPoints = PointsOf(HandsOfOthers \cup base)
=============================================================================
