----------------------------- MODULE RobotGame -----------------------------
(***************************************************************************)
(* A game of three players, robots of new_robot_client at levels 0 to 2    *)
(* and others, from the deal to the last card: what RbtOutGetTakeOutCard   *)
(* sends, what the table makes of it, and what RbtInTakeOutCard counts.    *)
(* Cards are their points here. What all robots count alike is kept once.  *)
(*                                                                         *)
(* The table server and the players are not in the repository: the table   *)
(* takes what is a hand by the robots' own rules, its chains without gaps, *)
(* and a player takes out any front hand of its natural split, or passes.  *)
(***************************************************************************)
EXTENDS RobotChoice

CONSTANTS
  TakesOut(_, _),  \* the AI's choice at a level when it is asked (TakesOutHand of RobotLevels)
  Deck,    \* how many cards of each point (4, of the jokers 1, in the game)
  Deals,   \* deals: the cards of seats 0 to 2, and 3 for the base cards
  Tables,  \* who may sit at a table: functions from Seats to Levels
  Lords    \* who may become the lord

Player == -1  \* the level of a player who is no robot
Levels == {0, 1, 2, Player}

VARIABLES
  level,        \* level, or Player
  lordSeat,     \* lordSeat
  hands,        \* the cards of each player
  aiCardsVec,   \* aiCardsVec of each robot
  lastTakeOut,  \* vecLastTakeOutCards of each robot
  points,       \* playerInfo[aiSeat].points of each robot
  otherPoints,  \* otherPoints of each robot
  remainPoints, \* remainPoints
  total,        \* playerInfo[seat].total
  curHand,      \* curHand
  curHandSeat,  \* curHandSeat
  turn,         \* whose turn it is
  sent          \* the cards on their way to the table, one set or none

vars == <<level, lordSeat, hands, aiCardsVec, lastTakeOut, points, otherPoints, remainPoints,
          total, curHand, curHandSeat, turn, sent>>

Plus(a, b) == [p \in Point |-> a[p] + b[p]]
NoPoints == [p \in Point |-> 0]
Size(cards) == Sum(cards, Point)

ASSUME GameAssumption ==
  /\ Deck \in [Point -> 0..4] /\ \A p \in Jokers : Deck[p] <= 1
  /\ \A d \in Deals : /\ \A s \in 0..3 : d[s] \in [Point -> Nat]
                       /\ \A p \in Point : d[0][p] + d[1][p] + d[2][p] + d[3][p] = Deck[p]
  /\ Tables \subseteq [Seats -> Levels] /\ Lords \subseteq Seats

-----------------------------------------------------------------------------
(* The robot                                                               *)

(* What takeOutHand finds of a hand among cards.                           *)
takeOutHand(cards, hand) ==
  LET wanted == handToPointsArray(hand) IN
  [p \in Point |-> Min({wanted[p], cards[p]})]

(* What the robot of a seat knows as it is asked for its cards.            *)
Asked(s) ==
  [aiSeat |-> s, lordSeat |-> lordSeat, points |-> points[s], total |-> total,
   otherPoints |-> otherPoints[s], remainPoints |-> remainPoints,
   curHand |-> curHand, curHandSeat |-> curHandSeat]

(* A free robot that has no hand takes out its lowest; what the first      *)
(* attempt took stays out. A hand that is not higher is put back.          *)
(* Mutant: it is not put back.                                             *)
KeepsOut(asked, ai, vec) ==
  LET first == takeOutHand(vec, ai.hand)
      check == getHand(first)
      left == pointsSub(vec, first)
      second == takeOutHand(left, findLowestHand(ai.handsMap))
  IN  CASE isFree(asked) /\ Nothing(check) -> [cards |-> second, left |-> pointsSub(left, second)]
        [] ~isFree(asked) /\ ~Nothing(check) /\ ~isHandHigherThan(check, asked.curHand) -> [cards |-> NoPoints, left |-> left]
        [] OTHER -> [cards |-> first, left |-> left]

(* Mutant: a hand is sent whether it is higher or not.                     *)
SendsUnchecked(asked, ai, vec) ==
  LET first == takeOutHand(vec, ai.hand)
      left == pointsSub(vec, first)
      second == takeOutHand(left, findLowestHand(ai.handsMap))
  IN  IF isFree(asked) /\ Nothing(getHand(first)) THEN [cards |-> second, left |-> pointsSub(left, second)]
      ELSE [cards |-> first, left |-> left]

Checked(asked, ai, vec) ==
  LET first == takeOutHand(vec, ai.hand)
      check == getHand(first)
      left == pointsSub(vec, first)
      second == takeOutHand(left, findLowestHand(ai.handsMap))
  IN  CASE isFree(asked) /\ Nothing(check) -> [cards |-> second, left |-> pointsSub(left, second)]
        [] ~isFree(asked) /\ ~Nothing(check) /\ ~isHandHigherThan(check, asked.curHand) -> [cards |-> NoPoints, left |-> vec]
        [] OTHER -> [cards |-> first, left |-> left]

RbtOutGetTakeOutCard(s) ==
  LET ai == TakesOut(level[s], Asked(s))
      out == Checked(Asked(s), ai, aiCardsVec[s])
  IN  /\ sent' = {out.cards}
      /\ lastTakeOut' = [lastTakeOut EXCEPT ![s] = out.cards]
      /\ aiCardsVec' = [aiCardsVec EXCEPT ![s] = out.left]
      /\ points' = [points EXCEPT ![s] = ai.points]

RobotTakesOut ==
  \E s \in Seats :
    /\ turn = s /\ level[s] # Player /\ sent = {}
    /\ RbtOutGetTakeOutCard(s)
    /\ UNCHANGED <<level, lordSeat, hands, otherPoints, remainPoints, total, curHand, curHandSeat, turn>>

(* Mutant: the cards are counted for the seat after.                       *)
CountsForNext(s, cards) ==
  LET hand == getHand(cards) IN
  /\ total' = [total EXCEPT ![Next1(s)] = @ - Size(cards)]
  /\ remainPoints' = pointsSub(remainPoints, cards)
  /\ otherPoints' = [r \in Seats |-> IF r = s THEN otherPoints[r] ELSE pointsSub(otherPoints[r], cards)]
  /\ points' = [points EXCEPT ![s] = pointsSub(@, cards)]
  /\ curHand' = IF Nothing(hand) THEN curHand ELSE hand
  /\ curHandSeat' = IF Nothing(hand) THEN curHandSeat ELSE s

(* Every robot counts the cards that seat takes out.                       *)
RbtInTakeOutCard(s, cards) ==
  LET hand == getHand(cards) IN
  /\ total' = [total EXCEPT ![s] = @ - Size(cards)]
  /\ remainPoints' = pointsSub(remainPoints, cards)
  /\ otherPoints' = [r \in Seats |-> IF r = s THEN otherPoints[r] ELSE pointsSub(otherPoints[r], cards)]
  /\ points' = [points EXCEPT ![s] = pointsSub(@, cards)]
  /\ curHand' = IF Nothing(hand) THEN curHand ELSE hand
  /\ curHandSeat' = IF Nothing(hand) THEN curHandSeat ELSE s

-----------------------------------------------------------------------------
(* The table and the players                                               *)
IsHand(cards) == ~Nothing(getHand(cards)) /\ handToPointsArray(getHand(cards)) = cards
MustLead == curHandSeat \in {turn, NoSeat}

IsLegal(cards) ==
  /\ \A p \in Point : cards[p] <= hands[turn][p]
  /\ IF cards = NoPoints THEN ~MustLead
     ELSE IsHand(cards) /\ (MustLead \/ isHandHigherThan(getHand(cards), curHand))

Announce(cards) ==
  /\ hands' = [hands EXCEPT ![turn] = pointsSub(@, cards)]
  /\ turn' = IF cards = hands[turn] THEN NoSeat ELSE Next1(turn)
  /\ RbtInTakeOutCard(turn, cards)
  /\ UNCHANGED <<level, lordSeat>>

TableTakes ==
  \E cards \in sent :
    /\ IsLegal(cards)
    /\ sent' = {}
    /\ Announce(cards)
    /\ UNCHANGED <<aiCardsVec, lastTakeOut>>

PlayerTakesOut ==
  /\ turn # NoSeat /\ level[turn] = Player
  /\ \E hand \in {NothingHand} \cup ToSet(FrontHands(splitCardsToHands(1, hands[turn], TRUE))) :
       LET cards == handToPointsArray(hand) IN IsLegal(cards) /\ Announce(cards)
  /\ UNCHANGED <<aiCardsVec, lastTakeOut, sent>>

Init ==
  /\ level \in Tables /\ lordSeat \in Lords
  /\ \E dealt \in Deals :
       /\ hands = [s \in Seats |-> IF s = lordSeat THEN Plus(dealt[s], dealt[3]) ELSE dealt[s]]
       /\ otherPoints = [s \in Seats |-> pointsSub(Deck, dealt[s])]
  /\ aiCardsVec = hands /\ points = hands
  /\ lastTakeOut = [s \in Seats |-> NoPoints]
  /\ remainPoints = Deck
  /\ total = [s \in Seats |-> Size(hands[s])]
  /\ curHand = NothingHand /\ curHandSeat = NoSeat
  /\ turn = lordSeat /\ sent = {}

Next == RobotTakesOut \/ TableTakes \/ PlayerTakesOut
Spec == Init /\ [][Next]_vars

-----------------------------------------------------------------------------
(* Properties                                                              *)
Robots == {s \in Seats : level[s] # Player}

(* The state is of its type; in particular nobody holds, or is thought to  *)
(* hold, more or fewer cards than a player can.                            *)
TypeOK ==
  /\ level \in Tables /\ lordSeat \in Seats /\ turn \in Seats \cup {NoSeat}
  /\ curHand \in Hand /\ curHandSeat \in Seats \cup {NoSeat}
  /\ sent \subseteq [Point -> 0..4] /\ remainPoints \in [Point -> 0..4]
  /\ \A f \in {hands, aiCardsVec, lastTakeOut} : f \in [Seats -> [Point -> 0..4]]
  /\ total \in [Seats -> 0..Size(Deck)]

(* Whatever the AI has chosen, a robot sends cards it holds, and no hand   *)
(* that is not higher than the one it must beat: the last look of          *)
(* RbtOutGetTakeOutCard at the choice is enough for that.                  *)
SendsHeldAndHigher ==
  \A cards \in sent :
    /\ \A p \in Point : cards[p] <= hands[turn][p]
    /\ ~MustLead /\ ~Nothing(getHand(cards)) => isHandHigherThan(getHand(cards), curHand)

(* What the AI owes to that look. Its choice is a hand the robot holds,    *)
(* which getHand takes for the same hand; it passes only when it may; and  *)
(* the points it leaves are the robot's cards, but for bombs that the down *)
(* farmer's getBomb took out of them, of which it plays all or nothing.    *)
Emptied(s, p, left) ==
  /\ level[s] >= 1 /\ s = Next1(lordSeat)
  /\ left \in Int /\ left <= 0 /\ (p \in Jokers \/ hands[s][p] \in {0, 4})
ChoiceIsGood(s) ==
  LET ai == TakesOut(level[s], Asked(s))
      wanted == handToPointsArray(ai.hand)
  IN  /\ IsHand(wanted) \/ (wanted = NoPoints /\ ~MustLead)
      /\ \A p \in Point :
           /\ wanted[p] <= aiCardsVec[s][p]
           /\ \/ ai.points[p] = hands[s][p]
              \/ Emptied(s, p, ai.points[p]) /\ (p \in Jokers \/ wanted[p] \in {0, hands[s][p]})
ChoosesWell == \A s \in Seats : turn = s /\ level[s] # Player /\ sent = {} => ChoiceIsGood(s)

(* What RbtOutGetTakeOutCard sends is always cards of the robot that the   *)
(* table accepts: a robot that leads takes out a hand, one that follows a  *)
(* higher hand or nothing.                                                 *)
NeverRefused == \A cards \in sent : IsLegal(cards)

(* Once the table has taken the cards, a robot's aiCardsVec are its cards, *)
(* and so are its points, but for emptied bombs. Wrong points would have   *)
(* it choose hands it does not hold.                                       *)
RecordsAreExact ==
  sent = {} =>
    \A s \in Robots : /\ aiCardsVec[s] = hands[s]
                      /\ \A p \in Point : points[s][p] = hands[s][p] \/ Emptied(s, p, points[s][p])

(* The rules for a farmer and an opponent's or partner's last card.        *)
MindsLastCard == turn # lordSeat /\ \E s \in Seats \ {turn} : total[s] = 1

(* A robot that leads and whose cards are one hand takes it out and wins,  *)
(* unless it splits the hand on purpose: a farmer who minds a last card,   *)
(* two kickers off their four, a pair chain.                               *)
SplitAtTheEnd == {"FOUR_DUAL_SOLO", "FOUR_DUAL_PAIR", "PAIR_CHAIN"}
FinishesInOne ==
  \A cards \in sent :
    /\ MustLead /\ IsHand(hands[turn]) /\ getHand(hands[turn]).type \notin SplitAtTheEnd
    /\ ~MindsLastCard
    => cards = hands[turn]

(* A robot whose last hand beats an opponent's of its type takes it out    *)
(* and wins, but for a farmer who minds a last card, and a lord of level 1 up*)
(* to whom lordTakeOutHigherFarmerOnly2Cards gives nothing.                *)
LordPasses == /\ level[turn] >= 1 /\ turn = lordSeat /\ curHand.type # "PAIR"
              /\ 2 \in {total[curHandSeat], total[Next2(turn)]}
WinsTheTrick ==
  \A cards \in sent :
    /\ ~MustLead /\ (turn = lordSeat \/ curHandSeat = lordSeat)
    /\ ~LordPasses /\ ~MindsLastCard
    /\ IsHand(hands[turn]) /\ getHand(hands[turn]).type = curHand.type
    /\ isHandHigherThan(getHand(hands[turn]), curHand)
    => cards = hands[turn]

(* A robot whose cards are one hand takes the win its rules mean it to     *)
(* take, leading or following.                                             *)
TakesItsWins == FinishesInOne /\ WinsTheTrick

(* A farmer above level 0 who minds no last card takes out no bomb against    *)
(* its partner's hand, but for another bomb or to finish with it.          *)
SparesPartner ==
  \A cards \in sent :
    /\ ~MustLead /\ level[turn] >= 1 /\ lordSeat \notin {turn, curHandSeat}
    /\ curHand.type # "BOMB" /\ cards \notin {NoPoints, hands[turn]} /\ ~MindsLastCard
    => ~IsBomb(getHand(cards))
=============================================================================
