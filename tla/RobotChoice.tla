---------------------------- MODULE RobotChoice ----------------------------
(***************************************************************************)
(* How OGLordRobotAI of new_robot_client judges the game, and chooses the  *)
(* hand it takes out as the lord. An ai is a record of the robot's members: aiSeat,       *)
(* lordSeat, level, points (playerInfo[aiSeat].points), total, otherPoints,*)
(* remainPoints, curHand and curHandSeat, and what a choice computes:      *)
(* lowestControl, controlNum, maxOppNumber, minOppNumber, handsMap,        *)
(* summary, and the hand. It serves as the view HandChoice judges by.      *)
(***************************************************************************)
EXTENDS HandSearch

CONSTANTS
  CARD_8, CARD_T, CARD_J, CARD_K, \* points the rules name (5, 7, 8 and 10 in the game)
  LordLate,    \* cards of the lord in the second half of a game (10 in the game)
  PlayerLate,  \* cards of a player in it (8 in the game)
  LongChain    \* a solo chain the farmers always try to beat (8 in the game)

ASSUME RuleAssumption ==
  {CARD_8, CARD_T, CARD_J, CARD_K} \subseteq Point /\ {LordLate, PlayerLate, LongChain} \subseteq Nat

CARD_A == LastChain
Seats  == 0..2
NoSeat == -1

Next1(s) == (s + 1) % 3
Next2(s) == (s + 2) % 3

(* aiPosition *)
IsLord(ai)       == ai.aiSeat = ai.lordSeat
IsDownFarmer(ai) == ai.aiSeat = Next1(ai.lordSeat)
IsUpFarmer(ai)   == ai.aiSeat = Next2(ai.lordSeat)
Partner(ai)      == IF IsDownFarmer(ai) THEN Next1(ai.aiSeat) ELSE Next2(ai.aiSeat)

Bombs(ai) == Hands(ai.handsMap, "BOMB")
Solos(ai) == Hands(ai.handsMap, "SOLO")
Pairs(ai) == Hands(ai.handsMap, "PAIR")
LastOr(hands, none) == IF hands = <<>> THEN none ELSE Last(hands)
Take(ai, hand) == [ai EXCEPT !.hand = hand]
Pass(ai)       == Take(ai, NothingHand)

(* Mutant: trios get no kickers.                                           *)
SortsWithoutKickers(ai) ==
  LET opps == IF IsLord(ai) THEN {ai.total[s] : s \in Seats \ {ai.aiSeat}} ELSE {ai.total[ai.lordSeat]}
      seen == [ai EXCEPT !.maxOppNumber = Max(opps), !.minOppNumber = Min(opps)]
      best == sortHandsWithBestKind(seen.points, seen, FALSE)
  IN  [seen EXCEPT !.handsMap = best.handMap, !.summary = best.summary]

sortHandMap(ai) ==
  LET opps == IF IsLord(ai) THEN {ai.total[s] : s \in Seats \ {ai.aiSeat}} ELSE {ai.total[ai.lordSeat]}
      seen == [ai EXCEPT !.maxOppNumber = Max(opps), !.minOppNumber = Min(opps)]
      best == sortHandsWithBestKind(seen.points, seen, TRUE)
  IN  [seen EXCEPT !.handsMap = best.handMap, !.summary = best.summary]

(* Mutant: a robot whose hand nobody beat is to beat it itself.            *)
FreeOnFirstTurn(ai) == IsLord(ai) /\ ai.curHandSeat = NoSeat

isFree(ai) == (IsLord(ai) /\ ai.curHandSeat = NoSeat) \/ ai.curHandSeat = ai.aiSeat

(* Is there a bomb above the robot's last one, of the highest four only?   *)
isDanger(ai) ==
  LET fours == {p \in 0..Two : ai.otherPoints[p] = 4} IN
  \/ NukePoints(ai.otherPoints) # {}
  \/ fours # {} /\ (Bombs(ai) = <<>> \/ Last(Bombs(ai)).keyPoint < Max(fours))

isGood(ai, summary, control) ==
  LET low == SelectSeq(Solos(ai), LAMBDA h : h.keyPoint < getHighestPoint(ai.otherPoints)) IN
  /\ ai.minOppNumber # 1 \/ IsLord(ai) => summary.effectiveHandsCount - control < 2
  /\ ai.minOppNumber = 1 => Len(low) <= 1

IsGoodNow(ai) == isGood(ai, ai.summary, ai.controlNum)

isFirstHalf(ai) == ai.total[ai.lordSeat] > LordLate /\ \A s \in Seats : ai.total[s] > PlayerLate

isGoodFarmer(ai) ==
  IF ai.total[ai.lordSeat] = 1 THEN IsGoodNow(ai)
  ELSE ai.summary.effectiveHandsCount - ai.controlNum < IF isFirstHalf(ai) THEN 5 ELSE 3

(* The summary and the control number once hand, of the handsMap's list,   *)
(* is out.                                                                 *)
AfterHand(ai, hand, list) ==
  LET out == handToPointsArray(hand)
      control == getLowestControl(pointsSub(ai.remainPoints, out))
      at == {j \in DOMAIN Hands(ai.handsMap, list) :
               LET h == Hands(ai.handsMap, list)[j] IN
               h.keyPoint = hand.keyPoint /\ (isChain(hand.type) => h.len = hand.len)}
      left == IF at = {} THEN ai.handsMap ELSE [ai.handsMap EXCEPT ![list] = RemoveAt(@, Min(at))]
  IN  [controlNum |-> calControl(pointsSub(ai.points, out), ai.otherPoints, control),
       summary |-> getHandsMapSummary(left, [ai EXCEPT !.lowestControl = control])]

(* Does the robot spend its first bomb?                                    *)
SpendsBomb(ai) ==
  /\ Bombs(ai) # <<>> /\ ~isDanger(ai)
  /\ LET after == AfterHand(ai, Head(Bombs(ai)), "BOMB") IN isGood(ai, after.summary, after.controlNum)

-----------------------------------------------------------------------------
findBestHigherHandFromMap(ai) ==
  LET higher == SelectSeq(Hands(ai.handsMap, ai.curHand.type), LAMBDA h : isHandHigherThan(h, ai.curHand))
      first == Head(higher)
      after == AfterHand(ai, first, first.type)
      most == after.controlNum + after.summary.extraBombCount
  IN  IF /\ higher # <<>>
         /\ \/ isChain(ai.curHand.type)
            \/ ~containsControl(ai.lowestControl, first)
            \/ after.summary.effectiveHandsCount < after.controlNum + 2
            \/ most >= ai.controlNum + ai.summary.extraBombCount
            \/ most >= 3
      THEN first ELSE NothingHand

(* The higher hands the bare points give, from the lowest on, each with    *)
(* the split and the control number it leaves.                             *)
HigherHands(ai) ==
  LET Left(h) == pointsSub(ai.points, handToPointsArray(h))
      Above(h) == findHigherHandFromPoints(h, ai.points, ai)
      With(h) == [hand |-> h, summary |-> sortHandsWithBestKind(Left(h), ai, TRUE).summary,
                  controlNum |-> calControl(Left(h), ai.otherPoints, ai.lowestControl)]
      all == FoldLeft(LAMBDA hs, n : LET h == Above(LastOr(hs, ai.curHand)) IN
                                     IF Nothing(h) THEN hs ELSE Append(hs, h),
                      <<>>, Ascending(Point))
  IN  [n \in DOMAIN all |-> With(all[n])]

(* The order in which one way to beat the hand is preferred to another.    *)
BetterToTake(a, b) ==
  LET s == a.summary
      t == b.summary
      x == s.effectiveHandsCount - a.controlNum
      y == t.effectiveHandsCount - b.controlNum
  IN  \/ x < y
      \/ /\ x = y
         /\ \/ s.effectiveHandsCount < t.effectiveHandsCount
            \/ /\ s.effectiveHandsCount = t.realHandsCount
               /\ s.handsTypeCount < t.handsTypeCount

(* A hand without control that spoils nothing is taken at once.            *)
findBestHigherHandFromPoints(ai, force, lordOnly1Card) ==
  LET all == HigherHands(ai)
      Cheap(a) ==
        /\ calHandControl(a.hand, ai.lowestControl) = 0
        /\ \/ a.summary.effectiveHandsCount < ai.summary.effectiveHandsCount
           \/ /\ a.summary.effectiveHandsCount = ai.summary.effectiveHandsCount
              /\ isChargeHand(a.hand, ai, ai.handsMap)
      Worth(a) ==
        \/ force
        \/ a.summary.effectiveHandsCount - 2 < a.controlNum
        \/ a.summary.effectiveHandsCount - a.controlNum <= ai.summary.effectiveHandsCount - ai.controlNum
        \/ a.controlNum + a.summary.extraBombCount >= 3
      Better(a, b) ==
        IF ~lordOnly1Card THEN BetterToTake(a, b)
        ELSE IF IsDownFarmer(ai) THEN a.summary.sencondLowestSolo > b.summary.sencondLowestSolo
        ELSE a.summary.lowestSolo > b.summary.lowestSolo
      cheap == SelectSeq(all, Cheap)
      worth == SelectSeq(all, Worth)
  IN  CASE cheap # <<>> -> Head(cheap).hand
        [] cheap = <<>> /\ worth = <<>> -> NothingHand
        [] OTHER -> FoldLeft(LAMBDA b, a : IF Better(a, b) THEN a ELSE b, Head(worth), Tail(worth)).hand

-----------------------------------------------------------------------------
(* The lord                                                                *)
FourAndTwo(bomb, solos) ==
  [type |-> "FOUR_DUAL_SOLO", keyPoint |-> bomb.keyPoint, len |-> 1,
   kicker |-> <<solos[1].keyPoint, solos[2].keyPoint>>]

lordTakeOutFreeFarmerOnly1Card(ai) ==
  LET noControl == findLowestHandNotSoloAndNoControl(ai.handsMap, ai.lowestControl)
      noSolo == findLowestHandNotSolo(ai.handsMap)
      solos == Solos(ai)
  IN  CASE ~Nothing(noControl) -> noControl
        [] Nothing(noControl) /\ Len(solos) \in 2..3 /\ isDanger(ai) /\ Bombs(ai) # <<>> ->
             FourAndTwo(Head(Bombs(ai)), solos)
        [] Nothing(noControl) /\ ~(Len(solos) \in 2..3 /\ isDanger(ai) /\ Bombs(ai) # <<>>) /\ Len(solos) >= 2 ->
             solos[2]
        [] OTHER ->
             IF ~Nothing(noSolo) THEN noSolo
             ELSE IF Bombs(ai) = <<>> \/ (Len(solos) = 1 /\ isDanger(ai)) THEN Head(solos)
             ELSE Head(Bombs(ai))

lordTakeOutFreeNormal(ai) ==
  IF ~isDanger(ai) /\ ai.summary.unChargeHandsCount <= Len(Bombs(ai)) + 1
  THEN IF Bombs(ai) # <<>> /\ ai.summary.realHandsCount = 1 THEN Head(Bombs(ai))
       ELSE findChargeHandFirst(ai.handsMap, ai, FALSE)
  ELSE findLowestHand(ai.handsMap)

lordTakeOutFreeFarmerOnly2Cards(ai) ==
  LET highest == getHighestPoint(ai.remainPoints)
      low == SelectSeq(Solos(ai), LAMBDA h : h.keyPoint < ai.lowestControl)
  IN  IF (ai.remainPoints[highest] = 1 /\ ai.points[highest] = 1) \/ Bombs(ai) # <<>>
      THEN CASE low # <<>> -> Last(low)
             [] low = <<>> /\ Pairs(ai) # <<>> -> Solo(Head(Pairs(ai)).keyPoint)
             [] OTHER -> lordTakeOutFreeNormal(ai)
      ELSE lordTakeOutFreeFarmerOnly1Card(ai)

lordTakeOutFree(ai) ==
  LET farmers == {ai.total[s] : s \in Seats \ {ai.aiSeat}} IN
  CASE 1 \in farmers -> lordTakeOutFreeFarmerOnly1Card(ai)
    [] 1 \notin farmers /\ 2 \in farmers /\ Solos(ai) \o Pairs(ai) # <<>> -> lordTakeOutFreeFarmerOnly2Cards(ai)
    [] OTHER -> lordTakeOutFreeNormal(ai)

lordTakeOutHigherRebuild(ai) == findBestHigherHandFromPoints(ai, FALSE, FALSE)

(* From the map, else the bomb, else from the points.                      *)
lordTakeOutHigherNormal(ai) ==
  LET best == findBestHigherHandFromMap(ai) IN
  IF ~Nothing(best) THEN best
  ELSE IF SpendsBomb(ai) THEN Head(Bombs(ai))
  ELSE lordTakeOutHigherRebuild(ai)

lordTakeOutHigherFarmerOnly1Card(ai) ==
  LET solos == Solos(ai)
      above == SelectSeq(IF solos = <<>> THEN <<>> ELSE Tail(solos), LAMBDA h : h.keyPoint > ai.curHand.keyPoint)
      highest == getHighestPoint(ai.points)
  IN  CASE ai.curHand.type # "SOLO" -> lordTakeOutHigherNormal(ai)
        [] ai.curHand.type = "SOLO" /\ above # <<>> -> Head(above)
        [] ai.curHand.type = "SOLO" /\ above = <<>> /\ Len(solos) = 1 /\ isHighestSolo(solos[1].keyPoint, ai.otherPoints) ->
             Head(solos)
        [] OTHER ->
             IF SpendsBomb(ai) THEN Head(Bombs(ai))
             ELSE IF highest > ai.curHand.keyPoint THEN Solo(highest)
             ELSE NothingHand

(* Against anything but a pair the lord passes.                            *)
lordTakeOutHigherFarmerOnly2Cards(ai) ==
  LET theirs == AtLeast(ai.otherPoints, 2) \cap (0..Two)
      above == SelectSeq(Pairs(ai), LAMBDA h : h.keyPoint >= Max(theirs))
  IN  CASE ai.curHand.type # "PAIR" -> NothingHand
        [] ai.curHand.type = "PAIR" /\ theirs = {} -> lordTakeOutHigherNormal(ai)
        [] OTHER -> IF above # <<>> THEN Last(above) ELSE lordTakeOutHigherRebuild(ai)

(* Mutant: a farmer with one card is taken for one with two.               *)
AtMostTwoCards(ai) ==
  IF \E n \in {ai.total[ai.curHandSeat], ai.total[Next2(ai.aiSeat)]} : n <= 2
  THEN lordTakeOutHigherFarmerOnly2Cards(ai) ELSE lordTakeOutHigherNormal(ai)

lordTakeOutHigher(ai) ==
  LET near == {ai.total[ai.curHandSeat], ai.total[Next2(ai.aiSeat)]} IN
  CASE 1 \in near -> lordTakeOutHigherFarmerOnly1Card(ai)
    [] 1 \notin near /\ 2 \in near -> lordTakeOutHigherFarmerOnly2Cards(ai)
    [] OTHER -> lordTakeOutHigherNormal(ai)
=============================================================================
