-------------------------- MODULE RobotGameProofs --------------------------
(***************************************************************************)
(* A game of robots and players for every deck, deal and AI: what the last *)
(* look of RbtOutGetTakeOutCard at a choice guarantees whatever the choice *)
(* is, and what it guarantees while the AI keeps its part (ChoosesWell).   *)
(***************************************************************************)
EXTENDS RobotGame, HandTypesProofs

(* The cards a player holds are never more than the deck has.              *)
WithinDeck == \A s \in Seats, p \in Point : hands[s][p] <= Deck[p]

(* What every robot counts.                                                *)
CountsBalance ==
  /\ \A p \in Point : hands[0][p] + hands[1][p] + hands[2][p] = remainPoints[p]
  /\ \A s \in Seats : total[s] = Size(hands[s])

(* aiCardsVec and what is sent are cards the robot holds.                  *)
RecordsAreHeld ==
  /\ \A s \in Robots, p \in Point : aiCardsVec[s][p] <= hands[s][p]
  /\ \A cards \in sent :
       /\ turn \in Robots
       /\ \A p \in Point : aiCardsVec[turn][p] + cards[p] <= hands[turn][p]

LordLeads == curHandSeat = NoSeat => turn = lordSeat

GameInv ==
  /\ TypeOK /\ WithinDeck /\ CountsBalance /\ RecordsAreHeld /\ LordLeads
  /\ SendsHeldAndHigher

Cards == [Point -> 0..4]

(* The size of cards is the sum over the points.                           *)
LEMMA SizeIsSum == \A c : Size(c) = SumFunctionOnSet(c, Point)
  BY DEF Size, Sum, SumFunctionOnSet

(* Cards taken off cards leave cards, and as many fewer: what total of a   *)
(* player and the cards it holds have in common.                           *)
LEMMA SizeFacts ==
  ASSUME NEW a \in Cards, NEW b \in Cards, \A p \in Point : b[p] <= a[p]
  PROVE  /\ Size(a) \in Nat /\ Size(b) \in Nat /\ Size(b) <= Size(a)
         /\ pointsSub(a, b) \in Cards
         /\ Size(pointsSub(a, b)) = Size(a) - Size(b)
  <1> DEFINE d == pointsSub(a, b)
  <1>1. IsFiniteSet(Point)
    BY PointFacts
  <1>2. \A p \in Point : a[p] \in Int /\ b[p] \in Int /\ d[p] = a[p] - b[p]
    BY DEF Cards, pointsSub
  <1>3. \A p \in Point : a[p] \in Nat /\ b[p] \in Nat /\ d[p] \in 0..4
    BY <1>2 DEF Cards
  <1>4. d \in Cards
    BY <1>3 DEF Cards, pointsSub
  <1> HIDE DEF d
  <1>5. SumFunctionOnSet(d, Point) = SumFunctionOnSet(a, Point) - SumFunctionOnSet(b, Point)
    BY <1>1, <1>2, SumLinear
  <1>6. /\ SumFunctionOnSet(a, Point) \in Nat
        /\ SumFunctionOnSet(b, Point) \in Nat
        /\ SumFunctionOnSet(d, Point) \in Nat
    <2>1. \A p \in Point : d[p] \in Nat
      BY <1>3
    <2> QED  BY <1>1, <1>3, <2>1, SumNatural
  <1> QED  BY <1>4, <1>5, <1>6, SizeIsSum DEF d

(* The lesser of two counts of a point.                                    *)
LEMMA MinOfTwo ==
  ASSUME NEW a \in 0..4, NEW b \in 0..4
  PROVE  Min({a, b}) \in 0..4 /\ Min({a, b}) <= a /\ Min({a, b}) <= b
  BY MinFacts

(* takeOutHand takes cards it finds, whatever hand it looks for.           *)
LEMMA TakenIsHeld ==
  ASSUME NEW vec \in Cards, NEW hand
  PROVE  /\ takeOutHand(vec, hand) \in Cards
         /\ \A p \in Point : takeOutHand(vec, hand)[p] <= vec[p]
  <1>1. \A p \in Point : handToPointsArray(hand)[p] \in 0..4
    BY PointsOfAHand
  <1>2. \A p \in Point : /\ Min({handToPointsArray(hand)[p], vec[p]}) \in 0..4
                         /\ Min({handToPointsArray(hand)[p], vec[p]}) <= vec[p]
    BY <1>1, MinOfTwo DEF Cards
  <1> QED  BY <1>2 DEF takeOutHand, Cards

(* Cards of no point are no hand.                                          *)
LEMMA NothingToSend == Nothing(getHand(NoPoints)) /\ NoPoints \in Cards /\ \A p \in Point : NoPoints[p] = 0
  <1>1. NoPoints \in Cards /\ \A p \in Point : NoPoints[p] = 0
    BY DEF NoPoints, Cards
  <1>2. /\ sortedCard(NoPoints, 1) = {} /\ sortedCard(NoPoints, 2) = {}
        /\ sortedCard(NoPoints, 3) = {} /\ sortedCard(NoPoints, 4) = {}
    BY <1>1 DEF sortedCard
  <1>3. Cardinality({}) = 0 /\ ~(Jokers \subseteq {})
    BY FS_EmptySet, PointFacts
  <1>4. getHand(NoPoints) = NothingHand
    <2> DEFINE solo == sortedCard(NoPoints, 1)
               pair == sortedCard(NoPoints, 2)
               trio == sortedCard(NoPoints, 3)
               four == sortedCard(NoPoints, 4)
    <2>1. /\ Cardinality(solo) = 0 /\ Cardinality(pair) = 0
          /\ Cardinality(trio) = 0 /\ Cardinality(four) = 0
          /\ ~(Jokers \subseteq solo)
      BY <1>2, <1>3
    <2> HIDE DEF solo, pair, trio, four
    <2> QED  BY <2>1 DEF getHand, solo, pair, trio, four
  <1> QED  BY <1>1, <1>4 DEF Nothing, NothingHand

(* What the robot sends and what it keeps together are its cards or fewer. *)
LEMMA CheckedFacts ==
  ASSUME NEW asked, NEW ai, NEW vec \in Cards
  PROVE  LET out == Checked(asked, ai, vec) IN
         /\ out.cards \in Cards /\ out.left \in Cards
         /\ \A p \in Point : out.left[p] + out.cards[p] <= vec[p]
         /\ ~isFree(asked) /\ ~Nothing(getHand(out.cards))
            => isHandHigherThan(getHand(out.cards), asked.curHand)
  <1> DEFINE first == takeOutHand(vec, ai.hand)
             left == pointsSub(vec, first)
             second == takeOutHand(left, findLowestHand(ai.handsMap))
  <1>1. first \in Cards /\ \A p \in Point : first[p] <= vec[p]
    BY TakenIsHeld
  <1>2. left \in Cards /\ \A p \in Point : left[p] = vec[p] - first[p]
    <2> HIDE DEF first
    <2> QED  BY <1>1, SizeFacts DEF pointsSub
  <1>3. second \in Cards /\ \A p \in Point : second[p] <= left[p]
    <2> HIDE DEF left
    <2> QED  BY <1>2, TakenIsHeld
  <1>4. pointsSub(left, second) \in Cards
        /\ \A p \in Point : pointsSub(left, second)[p] = left[p] - second[p]
    <2> HIDE DEF left, second
    <2> QED  BY <1>2, <1>3, SizeFacts DEF pointsSub
  <1>5. NoPoints \in Cards /\ \A p \in Point : NoPoints[p] = 0
    BY DEF NoPoints, Cards
  <1>6. /\ \A p \in Point : vec[p] \in 0..4 /\ left[p] \in 0..4
        /\ \A p \in Point : first[p] \in 0..4 /\ second[p] \in 0..4
    <2> HIDE DEF left, first, second
    <2> QED  BY <1>1, <1>2, <1>3 DEF Cards
  <1>a. CASE isFree(asked) /\ Nothing(getHand(first))
    <2>1. Checked(asked, ai, vec) = [cards |-> second, left |-> pointsSub(left, second)]
      BY <1>a DEF Checked
    <2> HIDE DEF left, first, second
    <2> QED  BY <2>1, <1>a, <1>2, <1>3, <1>4, <1>6
  <1>b. CASE ~isFree(asked) /\ ~Nothing(getHand(first)) /\ ~isHandHigherThan(getHand(first), asked.curHand)
    <2>1. Checked(asked, ai, vec) = [cards |-> NoPoints, left |-> vec]
      BY <1>b DEF Checked
    <2>2. Nothing(getHand(NoPoints))
      BY NothingToSend
    <2> HIDE DEF left, first, second
    <2> QED  BY <2>1, <2>2, <1>b, <1>5, <1>6
  <1>c. CASE /\ ~(isFree(asked) /\ Nothing(getHand(first)))
             /\ ~(~isFree(asked) /\ ~Nothing(getHand(first)) /\ ~isHandHigherThan(getHand(first), asked.curHand))
    <2>1. Checked(asked, ai, vec) = [cards |-> first, left |-> left]
      BY <1>c DEF Checked
    <2> HIDE DEF left, first, second
    <2> QED  BY <2>1, <1>c, <1>1, <1>2, <1>6
  <1> QED  BY <1>a, <1>b, <1>c

(* The cards of a player are part of the deck, and counting them loses none.*)
LEMMA HandsWithinDeck ==
  ASSUME NEW h \in Cards, \A p \in Point : h[p] <= Deck[p]
  PROVE  Size(h) \in 0..Size(Deck)
  <1>1. Deck \in Cards
    BY GameAssumption DEF Cards
  <1>2. Size(Deck) \in Nat /\ Size(h) \in Nat /\ Size(h) <= Size(Deck)
    BY <1>1, SizeFacts
  <1> QED  BY <1>2

(* The deal: every seat holds cards of the deck, and all are dealt.        *)
LEMMA InitGameInv == Init => GameInv
  <1> SUFFICES ASSUME Init  PROVE  GameInv
    OBVIOUS
  <1> USE DEF Cards
  <1>1. PICK dealt \in Deals :
          hands = [s \in Seats |-> IF s = lordSeat THEN Plus(dealt[s], dealt[3]) ELSE dealt[s]]
    BY DEF Init
  <1>2. /\ lordSeat \in Seats /\ level \in Tables /\ Deck \in Cards
        /\ Seats = 0..2 /\ NoSeat = -1
    BY GameAssumption DEF Init, Seats, NoSeat
  <1>3. /\ \A s \in 0..3, p \in Point : dealt[s][p] \in Nat
        /\ \A s \in 0..3 : dealt[s] \in [Point -> Nat]
        /\ \A p \in Point : dealt[0][p] + dealt[1][p] + dealt[2][p] + dealt[3][p] = Deck[p]
    <2>1. \A s \in 0..3 : dealt[s] \in [Point -> Nat]
      BY GameAssumption
    <2>2. \A p \in Point : dealt[0][p] + dealt[1][p] + dealt[2][p] + dealt[3][p] = Deck[p]
      BY GameAssumption
    <2> QED  BY <2>1, <2>2
  <1>4. \A p \in Point : Deck[p] \in 0..4
    BY <1>2
  <1>5. \A s \in Seats, p \in Point :
          hands[s][p] = dealt[s][p] + IF s = lordSeat THEN dealt[3][p] ELSE 0
    BY <1>1, <1>2, <1>3 DEF Plus
  <1>6. \A p \in Point : hands[0][p] + hands[1][p] + hands[2][p] = Deck[p]
    BY <1>2, <1>3, <1>5
  <1>7. \A s \in Seats, p \in Point : hands[s][p] \in 0..4 /\ hands[s][p] <= Deck[p]
    <2> SUFFICES ASSUME NEW s \in Seats, NEW p \in Point
                 PROVE  hands[s][p] \in 0..4 /\ hands[s][p] <= Deck[p]
      OBVIOUS
    <2>1. /\ dealt[0][p] \in Nat /\ dealt[1][p] \in Nat /\ dealt[2][p] \in Nat /\ dealt[3][p] \in Nat
          /\ dealt[0][p] + dealt[1][p] + dealt[2][p] + dealt[3][p] = Deck[p] /\ Deck[p] \in 0..4
      BY <1>3, <1>4
    <2>2. dealt[s][p] \in Nat /\ dealt[s][p] + dealt[3][p] <= Deck[p]
      <3>1. CASE s = 0
        BY <2>1, <3>1
      <3>2. CASE s = 1
        BY <2>1, <3>2
      <3>3. CASE s = 2
        BY <2>1, <3>3
      <3> QED  BY <1>2, <3>1, <3>2, <3>3
    <2>3. hands[s][p] = dealt[s][p] + dealt[3][p] \/ hands[s][p] = dealt[s][p]
      BY <1>5, <2>1, <2>2
    <2>4. ASSUME NEW h, h = dealt[s][p] + dealt[3][p] \/ h = dealt[s][p]
          PROVE  h \in 0..4 /\ h <= Deck[p]
      BY <2>1, <2>2, <2>4
    <2> QED  BY <2>3, <2>4
  <1>8. \A s \in Seats : hands[s] = [p \in Point |-> hands[s][p]]
    BY <1>1, <1>2, <1>3 DEF Plus
  <1>9. hands \in [Seats -> Cards]
    <2>1. \A s \in Seats : hands[s] \in Cards
      BY <1>7, <1>8
    <2> QED  BY <1>1, <2>1
  <1>10. \A s \in Seats : Size(hands[s]) \in 0..Size(Deck)
    BY <1>7, <1>9, HandsWithinDeck
  <1>11. total \in [Seats -> 0..Size(Deck)] /\ \A s \in Seats : total[s] = Size(hands[s])
    BY <1>10 DEF Init
  <1>12. TypeOK
    <2>1. lastTakeOut \in [Seats -> Cards] /\ remainPoints \in Cards
      BY <1>2 DEF Init, NoPoints
    <2> QED  BY <1>2, <1>9, <1>11, <2>1, NothingIsHand DEF Init, TypeOK
  <1>13. CountsBalance
    BY <1>6, <1>11 DEF Init, CountsBalance
  <1>14. WithinDeck
    BY <1>7 DEF WithinDeck
  <1>15. RecordsAreHeld
    BY <1>7, <1>2 DEF Init, RecordsAreHeld, Robots
  <1> QED  BY <1>12, <1>13, <1>14, <1>15 DEF Init, GameInv, LordLeads, SendsHeldAndHigher

(* A robot is free just when it must lead.                                 *)
LEMMA FreeIsLeading ==
  ASSUME TypeOK, LordLeads, turn \in Seats
  PROVE  isFree(Asked(turn)) <=> MustLead
  BY DEF TypeOK, LordLeads, isFree, Asked, IsLord, MustLead, Seats, NoSeat

(* The step of a robot that is asked for its cards.                        *)
LEMMA RobotTakesOutGameInv ==
  ASSUME GameInv, RobotTakesOut
  PROVE  GameInv'
  <1> USE DEF Cards
  <1>1. PICK s \in Seats : turn = s /\ level[s] # Player /\ sent = {} /\ RbtOutGetTakeOutCard(s)
    BY DEF RobotTakesOut
  <1>2. UNCHANGED <<level, lordSeat, hands, otherPoints, remainPoints, total, curHand, curHandSeat, turn>>
    BY DEF RobotTakesOut
  <1>3. PICK out : /\ out = Checked(Asked(s), TakesOut(level[s], Asked(s)), aiCardsVec[s])
    OBVIOUS
  <1>4. /\ sent' = {out.cards}
        /\ lastTakeOut' = [lastTakeOut EXCEPT ![s] = out.cards]
        /\ aiCardsVec' = [aiCardsVec EXCEPT ![s] = out.left]
    BY <1>1, <1>3 DEF RbtOutGetTakeOutCard
  <1>5. hands \in [Seats -> Cards] /\ aiCardsVec \in [Seats -> Cards] /\ lastTakeOut \in [Seats -> Cards]
    BY DEF GameInv, TypeOK
  <1>6. aiCardsVec[s] \in Cards /\ hands[s] \in Cards
    BY <1>5
  <1>7. /\ out.cards \in Cards /\ out.left \in Cards
        /\ \A p \in Point : out.left[p] + out.cards[p] <= aiCardsVec[s][p]
        /\ ~isFree(Asked(s)) /\ ~Nothing(getHand(out.cards))
           => isHandHigherThan(getHand(out.cards), Asked(s).curHand)
    BY <1>3, <1>6, CheckedFacts
  <1>8. s \in Robots /\ \A p \in Point : aiCardsVec[s][p] <= hands[s][p]
    BY <1>1 DEF GameInv, RecordsAreHeld, Robots
  <1>9. /\ \A p \in Point : aiCardsVec[s][p] \in 0..4 /\ hands[s][p] \in 0..4
        /\ \A p \in Point : out.left[p] \in 0..4 /\ out.cards[p] \in 0..4
    BY <1>6, <1>7
  <1>10. \A p \in Point : /\ out.left[p] + out.cards[p] <= hands[s][p]
                          /\ out.left[p] <= hands[s][p] /\ out.cards[p] <= hands[s][p]
    BY <1>7, <1>8, <1>9
  <1>11. TypeOK'
    <2>1. aiCardsVec' \in [Seats -> Cards] /\ lastTakeOut' \in [Seats -> Cards] /\ sent' \in SUBSET Cards
      BY <1>4, <1>5, <1>7
    <2> QED  BY <1>2, <2>1 DEF GameInv, TypeOK
  <1>12. WithinDeck' /\ CountsBalance' /\ LordLeads'
    BY <1>2 DEF GameInv, WithinDeck, CountsBalance, LordLeads
  <1>13. RecordsAreHeld'
    <2>1. Robots' = Robots
      BY <1>2 DEF Robots
    <2>2. \A r \in Robots : r \in Seats
      BY DEF Robots
    <2>3. \A r \in Robots, p \in Point : aiCardsVec'[r][p] <= hands'[r][p]
      BY <1>2, <1>4, <1>5, <1>10, <2>2 DEF GameInv, RecordsAreHeld
    <2>4. turn' \in Robots /\ aiCardsVec'[turn'] = out.left /\ hands'[turn'] = hands[s]
      BY <1>1, <1>2, <1>4, <1>5, <1>8
    <2> QED  BY <1>4, <1>10, <2>1, <2>3, <2>4 DEF RecordsAreHeld
  <1>14. SendsHeldAndHigher'
    <2>1. isFree(Asked(s)) <=> MustLead
      BY <1>1, FreeIsLeading DEF GameInv
    <2>2. Asked(s).curHand = curHand
      BY DEF Asked
    <2>3. ~MustLead /\ ~Nothing(getHand(out.cards)) => isHandHigherThan(getHand(out.cards), curHand)
      BY <1>7, <2>1, <2>2
    <2>4. (MustLead)' <=> MustLead
      BY <1>2 DEF MustLead
    <2> QED  BY <1>1, <1>2, <1>4, <1>10, <2>3, <2>4 DEF SendsHeldAndHigher
  <1> QED  BY <1>11, <1>12, <1>13, <1>14 DEF GameInv

(* What the announcement of cards that are legal does to the counts.       *)
LEMMA AnnounceFacts ==
  ASSUME GameInv, turn \in Seats, NEW cards \in Cards, IsLegal(cards), Announce(cards)
  PROVE  /\ hands' \in [Seats -> Cards]
         /\ \A s \in Seats \ {turn} : hands'[s] = hands[s]
         /\ \A p \in Point : hands'[turn][p] = hands[turn][p] - cards[p]
         /\ total' \in [Seats -> 0..Size(Deck)]
         /\ curHand' \in Hand /\ curHandSeat' \in Seats
         /\ level' = level /\ lordSeat' = lordSeat
         /\ turn' \in Seats \cup {NoSeat}
         /\ WithinDeck' /\ CountsBalance' /\ LordLeads' /\ remainPoints' \in Cards
  <1> USE DEF Cards
  <1> DEFINE left == pointsSub(hands[turn], cards)
  <1>1. hands \in [Seats -> Cards] /\ hands[turn] \in Cards
    BY DEF GameInv, TypeOK
  <1>2. \A p \in Point : cards[p] <= hands[turn][p]
    BY DEF IsLegal
  <1>3. /\ Size(hands[turn]) \in Nat /\ Size(cards) \in Nat
        /\ left \in Cards /\ Size(left) = Size(hands[turn]) - Size(cards)
    BY <1>1, <1>2, SizeFacts
  <1>4. \A p \in Point : left[p] = hands[turn][p] - cards[p]
    BY DEF pointsSub
  <1>5. hands' = [hands EXCEPT ![turn] = left]
    BY DEF Announce
  <1>6. /\ total' = [total EXCEPT ![turn] = total[turn] - Size(cards)]
        /\ remainPoints' = pointsSub(remainPoints, cards)
        /\ curHand' = IF Nothing(getHand(cards)) THEN curHand ELSE getHand(cards)
        /\ curHandSeat' = IF Nothing(getHand(cards)) THEN curHandSeat ELSE turn
        /\ level' = level /\ lordSeat' = lordSeat
        /\ turn' = IF cards = hands[turn] THEN NoSeat ELSE Next1(turn)
    BY DEF Announce, RbtInTakeOutCard
  <1> HIDE DEF left
  <1>7. hands' \in [Seats -> Cards] /\ hands'[turn] = left /\ \A s \in Seats \ {turn} : hands'[s] = hands[s]
    BY <1>1, <1>3, <1>5
  <1>8. \A s \in Seats, p \in Point : hands[s][p] \in 0..4 /\ hands'[s][p] \in 0..4
    BY <1>1, <1>7
  <1>9. \A p \in Point : hands[turn][p] \in 0..4 /\ cards[p] \in 0..4 /\ hands'[turn][p] = hands[turn][p] - cards[p]
    BY <1>4, <1>7, <1>8
  <1>10. \A p \in Point : hands'[turn][p] <= hands[turn][p]
    BY <1>9
  <1>11. Deck \in Cards /\ \A p \in Point : Deck[p] \in 0..4
    BY GameAssumption
  <1>12. WithinDeck'
    <2>1. \A s \in Seats, p \in Point : hands[s][p] <= Deck[p]
      BY DEF GameInv, WithinDeck
    <2>2. \A s \in Seats, p \in Point : hands'[s][p] <= Deck[p]
      BY <1>7, <1>8, <1>10, <1>11, <2>1
    <2> QED  BY <2>2 DEF WithinDeck
  <1>13. \A s \in Seats : total'[s] = Size(hands'[s])
    <2>1. \A s \in Seats : total[s] = Size(hands[s])
      BY DEF GameInv, CountsBalance
    <2>2. total \in [Seats -> 0..Size(Deck)]
      BY DEF GameInv, TypeOK
    <2> QED  BY <1>3, <1>6, <1>7, <2>1, <2>2
  <1>14. \A s \in Seats : Size(hands'[s]) \in 0..Size(Deck)
    <2> SUFFICES ASSUME NEW s \in Seats  PROVE  Size(hands'[s]) \in 0..Size(Deck)
      OBVIOUS
    <2>1. \A p \in Point : hands'[s][p] <= Deck[p]
      BY <1>12 DEF WithinDeck
    <2>2. hands'[s] \in Cards
      BY <1>7
    <2> HIDE DEF Cards
    <2> QED  BY <2>1, <2>2, HandsWithinDeck
  <1>15. total' \in [Seats -> 0..Size(Deck)]
    <2>1. total \in [Seats -> 0..Size(Deck)]
      BY DEF GameInv, TypeOK
    <2> QED  BY <1>6, <1>13, <1>14, <2>1
  <1>16. CountsBalance' /\ remainPoints' \in Cards
    <2>1. Seats = 0..2
      BY DEF Seats
    <2>2. \A p \in Point : hands[0][p] + hands[1][p] + hands[2][p] = remainPoints[p]
      BY DEF GameInv, CountsBalance
    <2>3. \A p \in Point : remainPoints'[p] = remainPoints[p] - cards[p]
      BY <1>6 DEF pointsSub
    <2>4. \A p \in Point : remainPoints[p] \in 0..4
      BY DEF GameInv, TypeOK
    <2>5. \A p \in Point : hands'[0][p] + hands'[1][p] + hands'[2][p] = remainPoints'[p]
      <3> SUFFICES ASSUME NEW p \in Point
                   PROVE  hands'[0][p] + hands'[1][p] + hands'[2][p] = remainPoints'[p]
        OBVIOUS
      <3>0. /\ hands[0][p] \in 0..4 /\ hands[1][p] \in 0..4 /\ hands[2][p] \in 0..4
            /\ cards[p] \in 0..4 /\ remainPoints[p] \in 0..4
        BY <1>8, <1>9, <2>1, <2>4
      <3>1. CASE turn = 0
        BY <3>0, <3>1, <1>7, <1>9, <2>1, <2>2, <2>3
      <3>2. CASE turn = 1
        BY <3>0, <3>2, <1>7, <1>9, <2>1, <2>2, <2>3
      <3>3. CASE turn = 2
        BY <3>0, <3>3, <1>7, <1>9, <2>1, <2>2, <2>3
      <3> QED  BY <3>1, <3>2, <3>3, <2>1
    <2>6. \A p \in Point : remainPoints'[p] \in 0..4
      <3> SUFFICES ASSUME NEW p \in Point  PROVE  remainPoints'[p] \in 0..4
        OBVIOUS
      <3>1. /\ hands'[0][p] \in 0..4 /\ hands'[1][p] \in 0..4 /\ hands'[2][p] \in 0..4
        BY <1>8, <2>1
      <3> QED  BY <3>1, <2>3, <2>4, <2>5, <1>9
    <2>7. remainPoints' = [p \in Point |-> remainPoints'[p]]
      BY <1>6 DEF pointsSub
    <2> QED  BY <1>13, <2>5, <2>6, <2>7 DEF CountsBalance
  <1>17. curHand' \in Hand
    <2>1. curHand \in Hand
      BY DEF GameInv, TypeOK
    <2> QED  BY <1>6, <2>1, GetHandIsHand
  <1>18. curHandSeat' \in Seats
    <2>1. curHandSeat \in Seats \/ (curHandSeat = NoSeat /\ MustLead)
      BY DEF GameInv, TypeOK, MustLead
    <2>2. MustLead => ~Nothing(getHand(cards))
      BY DEF IsLegal, IsHand
    <2> QED  BY <1>6, <2>1, <2>2
  <1>19. LordLeads'
    BY <1>18 DEF LordLeads, Seats, NoSeat
  <1>20. turn' \in Seats \cup {NoSeat}
    BY <1>6 DEF Next1, Seats
  <1> QED  BY <1>7, <1>9, <1>12, <1>15, <1>16, <1>17, <1>18, <1>19, <1>20, <1>6

(* The table takes the cards a robot has sent.                             *)
LEMMA TableTakesGameInv ==
  ASSUME GameInv, TableTakes
  PROVE  GameInv'
  <1>1. PICK cards \in sent : IsLegal(cards) /\ sent' = {} /\ Announce(cards)
    BY DEF TableTakes
  <1>2. UNCHANGED <<aiCardsVec, lastTakeOut>>
    BY DEF TableTakes
  <1>3. cards \in Cards /\ turn \in Robots /\ turn \in Seats
    BY DEF GameInv, TypeOK, Cards, RecordsAreHeld, Robots
  <1>4. /\ hands' \in [Seats -> Cards]
        /\ \A s \in Seats \ {turn} : hands'[s] = hands[s]
        /\ \A p \in Point : hands'[turn][p] = hands[turn][p] - cards[p]
        /\ total' \in [Seats -> 0..Size(Deck)]
        /\ curHand' \in Hand /\ curHandSeat' \in Seats
        /\ level' = level /\ lordSeat' = lordSeat
        /\ turn' \in Seats \cup {NoSeat}
        /\ WithinDeck' /\ CountsBalance' /\ LordLeads' /\ remainPoints' \in Cards
    BY <1>1, <1>3, AnnounceFacts
  <1>5. TypeOK'
    BY <1>1, <1>2, <1>4 DEF GameInv, TypeOK, Cards
  <1>6. RecordsAreHeld'
    <2>1. Robots' = Robots /\ \A r \in Robots : r \in Seats
      BY <1>4 DEF Robots
    <2>2. /\ \A r \in Robots, p \in Point : aiCardsVec[r][p] <= hands[r][p]
          /\ \A p \in Point : aiCardsVec[turn][p] + cards[p] <= hands[turn][p]
      BY DEF GameInv, RecordsAreHeld
    <2>3. /\ \A p \in Point : aiCardsVec[turn][p] \in 0..4 /\ hands[turn][p] \in 0..4
          /\ \A p \in Point : cards[p] \in 0..4
      BY <1>3 DEF GameInv, TypeOK, Cards
    <2>4. \A p \in Point : aiCardsVec[turn][p] <= hands'[turn][p]
      BY <1>4, <2>2, <2>3
    <2>5. \A r \in Robots, p \in Point : aiCardsVec[r][p] <= hands'[r][p]
      BY <1>4, <2>1, <2>2, <2>4
    <2> QED  BY <1>1, <1>2, <2>1, <2>5 DEF RecordsAreHeld
  <1>7. SendsHeldAndHigher'
    BY <1>1 DEF SendsHeldAndHigher
  <1> QED  BY <1>4, <1>5, <1>6, <1>7 DEF GameInv

(* A player who is no robot takes out cards; no robot has cards sent then. *)
LEMMA PlayerTakesOutGameInv ==
  ASSUME GameInv, PlayerTakesOut
  PROVE  GameInv'
  <1>1. turn # NoSeat /\ level[turn] = Player /\ UNCHANGED <<aiCardsVec, lastTakeOut, sent>>
    BY DEF PlayerTakesOut
  <1>2. PICK hand : IsLegal(handToPointsArray(hand)) /\ Announce(handToPointsArray(hand))
    BY DEF PlayerTakesOut
  <1>3. PICK cards \in Cards : cards = handToPointsArray(hand)
    BY PointsOfAHand DEF Cards
  <1>4. turn \in Seats /\ turn \notin Robots
    BY <1>1 DEF GameInv, TypeOK, Robots
  <1>5. sent = {}
    BY <1>4 DEF GameInv, RecordsAreHeld
  <1>6. /\ hands' \in [Seats -> Cards]
        /\ \A s \in Seats \ {turn} : hands'[s] = hands[s]
        /\ \A p \in Point : hands'[turn][p] = hands[turn][p] - cards[p]
        /\ total' \in [Seats -> 0..Size(Deck)]
        /\ curHand' \in Hand /\ curHandSeat' \in Seats
        /\ level' = level /\ lordSeat' = lordSeat
        /\ turn' \in Seats \cup {NoSeat}
        /\ WithinDeck' /\ CountsBalance' /\ LordLeads' /\ remainPoints' \in Cards
    BY <1>2, <1>3, <1>4, AnnounceFacts
  <1>7. TypeOK'
    BY <1>1, <1>6 DEF GameInv, TypeOK, Cards
  <1>8. RecordsAreHeld'
    <2>1. Robots' = Robots /\ \A r \in Robots : r \in Seats \ {turn}
      BY <1>4, <1>6 DEF Robots
    <2> QED  BY <1>1, <1>5, <1>6, <2>1 DEF GameInv, RecordsAreHeld
  <1>9. SendsHeldAndHigher'
    BY <1>1, <1>5 DEF SendsHeldAndHigher
  <1> QED  BY <1>6, <1>7, <1>8, <1>9 DEF GameInv

(* A step that changes nothing keeps it.                                   *)
LEMMA StutterGameInv == GameInv /\ UNCHANGED vars => GameInv'
  BY DEF GameInv, vars, TypeOK, WithinDeck, CountsBalance, RecordsAreHeld, Robots, LordLeads,
         SendsHeldAndHigher, MustLead

(* The deck is dealt once: in every state each player holds cards of it,   *)
(* remainPoints and total count just these, and what a robot keeps for its *)
(* own and has sent is among the cards it holds. An induction over the     *)
(* steps of a game.                                                        *)
THEOREM GameInvariant == Spec => []GameInv
  <1>1. GameInv /\ [Next]_vars => GameInv'
    BY RobotTakesOutGameInv, TableTakesGameInv, PlayerTakesOutGameInv, StutterGameInv DEF Next
  <1> QED  BY InitGameInv, <1>1, PTL DEF Spec

(* For every deck, deal and choice of the AI, every state of a game is of  *)
(* its type. Nobody is counted to hold fewer than no cards or more than    *)
(* the deck has, which Announce would break if a hand were counted that    *)
(* its player does not hold.                                               *)
THEOREM TypeCorrect == Spec => []TypeOK
  <1>1. GameInv => TypeOK
    BY DEF GameInv
  <1> QED  BY GameInvariant, <1>1, PTL

(* Whatever hand the AI chooses, the cards RbtOutGetTakeOutCard sends are  *)
(* the robot's, and no hand that is not higher than the one to beat.       *)
THEOREM NeverSendsLower == Spec => []SendsHeldAndHigher
  <1>1. GameInv => SendsHeldAndHigher
    BY DEF GameInv
  <1> QED  BY GameInvariant, <1>1, PTL

-----------------------------------------------------------------------------
(* What is true of the records while the AI chooses well. A robot whose    *)
(* turn it is not, and every robot while nothing is sent, knows its cards; *)
(* while cards are sent, aiCardsVec lacks just these, and of points a bomb *)
(* is emptied only if all of it is sent or nothing.                        *)
VecIsExact(s) == \A p \in Point : aiCardsVec[s][p] = hands[s][p]
PointsAreExact(s) == \A p \in Point : points[s][p] = hands[s][p] \/ Emptied(s, p, points[s][p])
Sending(cards) ==
  /\ IsLegal(cards)
  /\ \A p \in Point :
       /\ aiCardsVec[turn][p] + cards[p] = hands[turn][p]
       /\ \/ points[turn][p] = hands[turn][p]
          \/ Emptied(turn, p, points[turn][p]) /\ (p \in Jokers \/ cards[p] \in {0, hands[turn][p]})
RecordsInv ==
  /\ DOMAIN points = Seats
  /\ \A s \in Robots : sent = {} \/ s # turn => VecIsExact(s) /\ PointsAreExact(s)
  /\ \A cards \in sent : Sending(cards)

(* A choice that is cards of the robot is found among them.                *)
LEMMA FoundAsWanted ==
  ASSUME NEW vec \in Cards, NEW hand,
         \A p \in Point : handToPointsArray(hand)[p] <= vec[p]
  PROVE  takeOutHand(vec, hand) = handToPointsArray(hand)
  <1> DEFINE w == handToPointsArray(hand)
  <1>1. w \in [Point -> 0..4]
    BY PointsOfAHand
  <1> HIDE DEF w
  <1>2. \A p \in Point : w[p] \in 0..4 /\ vec[p] \in 0..4
    BY <1>1 DEF Cards
  <1>3. ASSUME NEW p \in Point
        PROVE  Min({w[p], vec[p]}) = w[p]
    <2>1. Min({w[p], vec[p]}) \in {w[p], vec[p]} /\ Min({w[p], vec[p]}) <= w[p]
      <3>1. {w[p], vec[p]} \in SUBSET (0..4) /\ \A x \in 0..4 : x \in Nat
        BY <1>2
      <3> QED  BY <1>2, <3>1, MinFacts
    <2>2. w[p] <= vec[p]
      BY DEF w
    <2> QED  BY <1>2, <2>1, <2>2
  <1>4. takeOutHand(vec, hand) = [p \in Point |-> Min({w[p], vec[p]})]
    BY DEF takeOutHand, w
  <1>5. takeOutHand(vec, hand) = [p \in Point |-> w[p]]
    BY <1>3, <1>4
  <1>6. w = [p \in Point |-> w[p]]
    BY <1>1
  <1> QED  BY <1>5, <1>6 DEF w

(* What a robot sends when the AI has chosen well: the hand chosen, or     *)
(* nothing where that hand is not higher and nothing is owed.              *)
LEMMA GoodChoiceIsSent ==
  ASSUME NEW asked, NEW ai, NEW vec \in Cards, NEW lead \in BOOLEAN, NEW w,
         w = handToPointsArray(ai.hand), isFree(asked) = lead,
         IsHand(w) \/ (w = NoPoints /\ ~lead),
         \A p \in Point : w[p] <= vec[p]
  PROVE  LET out == Checked(asked, ai, vec) IN
         /\ out.cards = w \/ out.cards = NoPoints
         /\ \A p \in Point : out.left[p] + out.cards[p] = vec[p]
         /\ IF out.cards = NoPoints THEN ~lead
            ELSE IsHand(out.cards) /\ (lead \/ isHandHigherThan(getHand(out.cards), asked.curHand))
  <1> DEFINE first == takeOutHand(vec, ai.hand)
             left == pointsSub(vec, first)
  <1>1. first = w
    BY FoundAsWanted
  <1>2. w \in Cards
    BY PointsOfAHand DEF Cards
  <1>3. \A p \in Point : left[p] = vec[p] - w[p]
    BY <1>1 DEF pointsSub
  <1>4. \A p \in Point : vec[p] \in 0..4 /\ w[p] \in 0..4
    BY <1>2 DEF Cards
  <1>5. \A p \in Point : left[p] + w[p] = vec[p]
    BY <1>3, <1>4
  <1>6. IsHand(w) => w # NoPoints /\ ~Nothing(getHand(w))
    BY NothingToSend DEF IsHand
  <1> HIDE DEF first, left
  <1>a. CASE IsHand(w) /\ ~lead /\ ~isHandHigherThan(getHand(w), asked.curHand)
    <2>1. Checked(asked, ai, vec) = [cards |-> NoPoints, left |-> vec]
      BY <1>a, <1>1, <1>6 DEF Checked, first
    <2>2. \A p \in Point : vec[p] + NoPoints[p] = vec[p]
      BY <1>4, NothingToSend
    <2> QED  BY <2>1, <2>2, <1>a
  <1>b. CASE ~(IsHand(w) /\ ~lead /\ ~isHandHigherThan(getHand(w), asked.curHand))
    <2>1. w = NoPoints => Nothing(getHand(w))
      BY NothingToSend
    <2>2. Checked(asked, ai, vec) = [cards |-> w, left |-> left]
      BY <1>b, <1>1, <1>6, <2>1 DEF Checked, first, left
    <2> QED  BY <2>2, <1>b, <1>5, <1>6
  <1> QED  BY <1>a, <1>b

(* After the deal the records are exact.                                   *)
LEMMA InitRecordsInv == Init => RecordsInv
  <1> SUFFICES ASSUME Init  PROVE  RecordsInv
    OBVIOUS
  <1>1. aiCardsVec = hands /\ points = hands /\ sent = {} /\ DOMAIN hands = Seats
    BY DEF Init
  <1> QED  BY <1>1 DEF RecordsInv, VecIsExact, PointsAreExact

(* A robot that chooses well sends legal cards and knows which it has      *)
(* left.                                                                   *)
LEMMA RobotTakesOutRecords ==
  ASSUME GameInv, RecordsInv, ChoosesWell, RobotTakesOut
  PROVE  RecordsInv'
  <1>1. PICK s \in Seats : turn = s /\ level[s] # Player /\ sent = {} /\ RbtOutGetTakeOutCard(s)
    BY DEF RobotTakesOut
  <1>2. UNCHANGED <<level, lordSeat, hands, otherPoints, remainPoints, total, curHand, curHandSeat, turn>>
    BY DEF RobotTakesOut
  <1>3. PICK ai : ai = TakesOut(level[s], Asked(s))
    OBVIOUS
  <1>4. PICK out : out = Checked(Asked(s), ai, aiCardsVec[s])
    OBVIOUS
  <1>5. PICK w : w = handToPointsArray(ai.hand)
    OBVIOUS
  <1>6. /\ sent' = {out.cards}
        /\ aiCardsVec' = [aiCardsVec EXCEPT ![s] = out.left]
        /\ points' = [points EXCEPT ![s] = ai.points]
    BY <1>1, <1>3, <1>4 DEF RbtOutGetTakeOutCard
  <1>7. /\ IsHand(w) \/ (w = NoPoints /\ ~MustLead)
        /\ \A p \in Point : w[p] <= aiCardsVec[s][p]
        /\ \A p \in Point : \/ ai.points[p] = hands[s][p]
                            \/ Emptied(s, p, ai.points[p]) /\ (p \in Jokers \/ w[p] \in {0, hands[s][p]})
    BY <1>1, <1>3, <1>5 DEF ChoosesWell, ChoiceIsGood
  <1>8. aiCardsVec \in [Seats -> Cards] /\ aiCardsVec[s] \in Cards
    BY DEF GameInv, TypeOK, Cards
  <1>9. isFree(Asked(s)) = MustLead /\ MustLead \in BOOLEAN
    <2>1. isFree(Asked(s)) <=> MustLead
      BY <1>1, FreeIsLeading DEF GameInv
    <2> QED  BY <2>1 DEF isFree, MustLead
  <1>10. Asked(s).curHand = curHand
    BY DEF Asked
  <1>11. /\ out.cards = w \/ out.cards = NoPoints
         /\ \A p \in Point : out.left[p] + out.cards[p] = aiCardsVec[s][p]
         /\ IF out.cards = NoPoints THEN ~MustLead
            ELSE IsHand(out.cards) /\ (MustLead \/ isHandHigherThan(getHand(out.cards), curHand))
    BY <1>4, <1>5, <1>7, <1>8, <1>9, <1>10, GoodChoiceIsSent
  <1>12. s \in Robots /\ VecIsExact(s) /\ \A r \in Robots : VecIsExact(r) /\ PointsAreExact(r)
    BY <1>1 DEF RecordsInv, Robots
  <1>13. Robots' = Robots /\ \A r \in Robots : r \in Seats
    BY <1>2 DEF Robots
  <1>14. DOMAIN points' = Seats
    BY <1>6 DEF RecordsInv
  <1>15. \A r \in Robots : r # s => VecIsExact(r)' /\ PointsAreExact(r)'
    BY <1>2, <1>6, <1>8, <1>12, <1>13 DEF VecIsExact, PointsAreExact, Emptied, RecordsInv
  <1>16. Sending(out.cards)'
    <2>1. aiCardsVec'[s] = out.left /\ points'[s] = ai.points
      BY <1>6, <1>8 DEF RecordsInv
    <2>2. \A p \in Point : NoPoints[p] = 0
      BY NothingToSend
    <2>3. IsLegal(out.cards)'
      <3>1. out.cards \in Cards
        BY <1>4, <1>8, CheckedFacts
      <3>2. out.left \in Cards
        BY <1>4, <1>8, CheckedFacts
      <3>3. \A p \in Point : out.left[p] \in 0..4 /\ out.cards[p] \in 0..4
        BY <3>1, <3>2 DEF Cards
      <3>4. \A p \in Point : aiCardsVec[s][p] = hands[s][p]
        BY <1>12 DEF VecIsExact
      <3>5. \A p \in Point : out.cards[p] <= hands[s][p]
        BY <3>3, <3>4, <1>11
      <3>6. (MustLead)' <=> MustLead
        BY <1>2 DEF MustLead
      <3> QED  BY <1>1, <1>2, <1>11, <3>5, <3>6 DEF IsLegal
    <2>4. \A p \in Point : aiCardsVec'[s][p] + out.cards[p] = hands[s][p]
      BY <1>11, <1>12, <2>1 DEF VecIsExact
    <2>5. \A p \in Point :
            \/ points'[s][p] = hands[s][p]
            \/ Emptied(s, p, points'[s][p]) /\ (p \in Jokers \/ out.cards[p] \in {0, hands[s][p]})
      BY <1>7, <1>11, <2>1, <2>2
    <2> QED  BY <1>1, <1>2, <2>3, <2>4, <2>5 DEF Sending, Emptied
  <1> QED  BY <1>1, <1>2, <1>6, <1>13, <1>14, <1>15, <1>16 DEF RecordsInv

(* The table takes what was sent, and the records lose it with the hand.   *)
LEMMA TableTakesRecords ==
  ASSUME GameInv, RecordsInv, TableTakes
  PROVE  RecordsInv'
  <1>1. PICK cards \in sent : IsLegal(cards) /\ sent' = {} /\ Announce(cards)
    BY DEF TableTakes
  <1>2. UNCHANGED <<aiCardsVec, lastTakeOut>>
    BY DEF TableTakes
  <1>3. cards \in Cards /\ turn \in Robots /\ turn \in Seats
    BY DEF GameInv, TypeOK, Cards, RecordsAreHeld, Robots
  <1>4. /\ hands' \in [Seats -> Cards]
        /\ \A s \in Seats \ {turn} : hands'[s] = hands[s]
        /\ \A p \in Point : hands'[turn][p] = hands[turn][p] - cards[p]
        /\ level' = level /\ lordSeat' = lordSeat
    BY <1>1, <1>3, AnnounceFacts
  <1>5. points' = [points EXCEPT ![turn] = pointsSub(points[turn], cards)] /\ DOMAIN points = Seats
    BY <1>1 DEF Announce, RbtInTakeOutCard, RecordsInv
  <1>6. /\ DOMAIN points' = Seats
        /\ \A p \in Point : points'[turn][p] = points[turn][p] - cards[p]
        /\ \A s \in Seats \ {turn} : points'[s] = points[s]
    BY <1>3, <1>5 DEF pointsSub
  <1>7. Robots' = Robots /\ \A r \in Robots : r \in Seats
    BY <1>4 DEF Robots
  <1>8. \A r \in Robots : r # turn => VecIsExact(r)' /\ PointsAreExact(r)'
    <2>1. \A r \in Robots : r # turn => VecIsExact(r) /\ PointsAreExact(r)
      BY DEF RecordsInv
    <2> QED  BY <1>2, <1>4, <1>6, <1>7, <2>1 DEF VecIsExact, PointsAreExact, Emptied
  <1>9. Sending(cards)
    BY DEF RecordsInv
  <1>10. \A p \in Point : /\ hands[turn][p] \in 0..4 /\ cards[p] \in 0..4
                          /\ aiCardsVec[turn][p] \in 0..4 /\ hands'[turn][p] \in 0..4
    BY <1>3, <1>4 DEF GameInv, TypeOK, Cards
  <1>11. \A p \in Point : aiCardsVec'[turn][p] = hands'[turn][p]
    BY <1>2, <1>4, <1>9, <1>10 DEF Sending
  <1>12. PICK t \in Robots : t = turn
    BY <1>3
  <1>13. ASSUME NEW p \in Point
         PROVE  points'[t][p] = hands'[t][p] \/ Emptied(t, p, points[t][p])'
    <2>1. CASE points[t][p] = hands[t][p]
      BY <2>1, <1>4, <1>6, <1>12
    <2>2. CASE Emptied(t, p, points[t][p]) /\ (p \in Jokers \/ cards[p] \in {0, hands[t][p]})
      <3>1. /\ level[t] >= 1 /\ t = Next1(lordSeat)
            /\ points[t][p] \in Int /\ points[t][p] <= 0
            /\ (p \in Jokers \/ hands[t][p] \in {0, 4})
        BY <2>2 DEF Emptied
      <3>2. points'[t][p] \in Int /\ points'[t][p] <= 0
        BY <3>1, <1>6, <1>10, <1>12
      <3>3. p \in Jokers \/ hands'[t][p] \in {0, 4}
        BY <2>2, <3>1, <1>4, <1>10, <1>12
      <3> QED  BY <3>1, <3>2, <3>3, <1>4 DEF Emptied
    <2> QED  BY <2>1, <2>2, <1>9, <1>12 DEF Sending
  <1>14. \A r \in Robots : VecIsExact(r)' /\ PointsAreExact(r)'
    <2>1. VecIsExact(t)'
      BY <1>11, <1>12 DEF VecIsExact
    <2>2. PointsAreExact(t)'
      BY <1>13 DEF PointsAreExact
    <2> QED  BY <1>8, <1>12, <2>1, <2>2
  <1> QED  BY <1>1, <1>6, <1>7, <1>14 DEF RecordsInv

(* A player's cards are no robot's, and no robot has cards sent then.      *)
LEMMA PlayerTakesOutRecords ==
  ASSUME GameInv, RecordsInv, PlayerTakesOut
  PROVE  RecordsInv'
  <1>1. turn # NoSeat /\ level[turn] = Player /\ UNCHANGED <<aiCardsVec, lastTakeOut, sent>>
    BY DEF PlayerTakesOut
  <1>2. PICK hand : IsLegal(handToPointsArray(hand)) /\ Announce(handToPointsArray(hand))
    BY DEF PlayerTakesOut
  <1>3. PICK cards \in Cards : cards = handToPointsArray(hand)
    BY PointsOfAHand DEF Cards
  <1>4. turn \in Seats /\ turn \notin Robots
    BY <1>1 DEF GameInv, TypeOK, Robots
  <1>5. sent = {}
    BY <1>4 DEF GameInv, RecordsAreHeld
  <1>6. /\ \A s \in Seats \ {turn} : hands'[s] = hands[s]
        /\ level' = level /\ lordSeat' = lordSeat
    BY <1>2, <1>3, <1>4, AnnounceFacts
  <1>7. /\ DOMAIN points' = Seats
        /\ \A s \in Seats \ {turn} : points'[s] = points[s]
    BY <1>2, <1>4 DEF Announce, RbtInTakeOutCard, RecordsInv
  <1>8. Robots' = Robots /\ \A r \in Robots : r \in Seats \ {turn}
    BY <1>4, <1>6 DEF Robots
  <1>9. \A r \in Robots : VecIsExact(r) /\ PointsAreExact(r)
    BY <1>5 DEF RecordsInv
  <1>10. \A r \in Robots : VecIsExact(r)' /\ PointsAreExact(r)'
    BY <1>1, <1>6, <1>7, <1>8, <1>9 DEF VecIsExact, PointsAreExact, Emptied
  <1> QED  BY <1>1, <1>5, <1>7, <1>8, <1>10 DEF RecordsInv

(* A step that changes nothing keeps the records.                          *)
LEMMA StutterRecords ==
  ASSUME RecordsInv, UNCHANGED vars
  PROVE  RecordsInv'
  <1>1. /\ level' = level /\ lordSeat' = lordSeat /\ hands' = hands /\ aiCardsVec' = aiCardsVec
        /\ points' = points /\ curHand' = curHand /\ curHandSeat' = curHandSeat
        /\ turn' = turn /\ sent' = sent
    BY DEF vars
  <1> QED  BY <1>1 DEF RecordsInv, Robots, VecIsExact, PointsAreExact, Emptied, Sending, IsLegal, MustLead

(* The invariant of the records says what the two properties say.          *)
LEMMA RecordsExactFromInv == GameInv /\ RecordsInv => NeverRefused /\ RecordsAreExact
  <1> SUFFICES ASSUME GameInv, RecordsInv  PROVE  NeverRefused /\ RecordsAreExact
    OBVIOUS
  <1>1. NeverRefused
    BY DEF RecordsInv, Sending, NeverRefused
  <1>2. ASSUME NEW s \in Robots, VecIsExact(s)
        PROVE  aiCardsVec[s] = hands[s]
    <2>1. aiCardsVec[s] \in [Point -> 0..4] /\ hands[s] \in [Point -> 0..4]
      BY DEF GameInv, TypeOK, Robots
    <2>2. \A p \in Point : aiCardsVec[s][p] = hands[s][p]
      BY <1>2 DEF VecIsExact
    <2> QED  BY <2>1, <2>2
  <1>3. RecordsAreExact
    BY <1>2 DEF RecordsInv, RecordsAreExact, PointsAreExact
  <1> QED  BY <1>1, <1>3

(* What the two theorems say is kept by every step that starts in a state  *)
(* where the AI chooses well.                                              *)
LEMMA RecordsStep == GameInv /\ RecordsInv /\ ChoosesWell /\ [Next]_vars => RecordsInv'
  BY RobotTakesOutRecords, TableTakesRecords, PlayerTakesOutRecords, StutterRecords DEF Next

(* While the AI chooses well, the table never refuses what a robot sends:  *)
(* between its choice and the send, takeOutHand finds the hand whole, and  *)
(* the look at it puts back only what need not be sent.                    *)
THEOREM NothingIsRefused == Spec /\ []ChoosesWell => []NeverRefused
  BY InitRecordsInv, GameInvariant, RecordsExactFromInv, RecordsStep, PTL DEF Spec

(* While the AI chooses well, a robot's two records of its own cards, of   *)
(* which RbtOutGetTakeOutCard and RbtInTakeOutCard each bring only one up  *)
(* to date, agree with its cards whenever the table has taken them.        *)
THEOREM RecordsStayExact == Spec /\ []ChoosesWell => []RecordsAreExact
  BY InitRecordsInv, GameInvariant, RecordsExactFromInv, RecordsStep, PTL DEF Spec
=============================================================================
