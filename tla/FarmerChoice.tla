---------------------------- MODULE FarmerChoice ----------------------------
(***************************************************************************)
(* How OGLordRobotAI chooses the hand it takes out as a farmer. The        *)
(* operators that may sort the handsMap anew, or change the points, give   *)
(* the ai with the hand, the others the hand.                              *)
(***************************************************************************)
EXTENDS RobotChoice

(* farmerTakeOutLordOnly1Card sorts the handsMap to leave few solos.       *)
Resorted(ai) ==
  LET best == sortHandsLordOnly1Card(ai.points, ai, TRUE) IN
  [ai EXCEPT !.handsMap = best.handMap, !.summary = best.summary]

(* The robot's highest solo that spoils the least: one above the last hand *)
(* that no opponent's card is above.                                       *)
HighSolo(ai) ==
  LET high == {p \in AtLeast(ai.points, 1) : p > ai.curHand.keyPoint /\ p >= getHighestPoint(ai.otherPoints)}
      LowestSolo(p) == sortHandsLordOnly1Card(Minus(ai.points, {p}, 1), ai, TRUE).summary.lowestSolo
  IN  IF high = {} THEN NothingHand
      ELSE Solo(FoldLeft(LAMBDA q, p : IF LowestSolo(p) > LowestSolo(q) THEN p ELSE q,
                         Min(high), Ascending(high)))

TakesFour(ai) == Bombs(ai) # <<>> /\ Head(Bombs(ai)).keyPoint < BLACK_JOKER

(* The lord has one card left and the robot is free.                       *)
UpFarmerFreeLordOnly1Card(ai) ==
  LET solos == Solos(ai)
      pairs == {p \in 0..Two : ai.points[p] \in 2..3}
  IN  CASE pairs # {} -> Pair(Min(pairs))
        [] pairs = {} /\ Len(solos) \in 2..3 /\ ~isHighestSolo(Last(solos).keyPoint, ai.otherPoints) /\ TakesFour(ai) ->
             FourAndTwo(Head(Bombs(ai)), solos)
        [] OTHER -> LastOr(solos, NothingHand)

DownFarmerFreeLordOnly1Card(ai) ==
  LET solos == Solos(ai)
      pairs == Pairs(ai)
      pair == pairs # <<>> /\ ~isHighestPair(Head(pairs).keyPoint, ai.otherPoints)
      notHighest == SelectSeq(solos, LAMBDA h : ~isHighestSolo(h.keyPoint, ai.otherPoints))
  IN  CASE ai.total[Next2(ai.aiSeat)] = 1 /\ hasUniLowestSolo(ai.points, ai.otherPoints) ->
             Solo(getLowestPoint(ai.points))
        [] OTHER ->
             IF Len(solos) # 2 /\ pair THEN Head(pairs)
             ELSE IF Len(solos) # 2 /\ Len(notHighest) \in 2..3 /\ TakesFour(ai)
             THEN FourAndTwo(Head(Bombs(ai)), solos)
             ELSE LastOr(solos, NothingHand)

farmerMustTakeOutLordOnly1Card(ai) ==
  LET higher == findHigherHandNotBomb(ai.handsMap, ai.curHand) IN
  IF Nothing(higher) THEN findBestHigherHandFromPoints(ai, TRUE, TRUE) ELSE higher

(* A solo is above; the seat, not the position, is compared with           *)
(* DOWNFARMER, which is 2.                                                 *)
OverSoloLordOnly1Card(ai) ==
  LET higher == findHigherHandNotBomb(ai.handsMap, ai.curHand)
      bomb == Bombs(ai) # <<>> /\ Len(Solos(ai)) = 1
      ofLord == ai.curHandSeat = ai.lordSeat
  IN  CASE ~ofLord /\ ai.aiSeat = 2 -> IF IsGoodNow(ai) THEN higher ELSE NothingHand
        [] ofLord /\ ai.aiSeat = 2 /\ ~bomb -> higher
        [] OTHER -> IF bomb \/ (ofLord /\ Bombs(ai) # <<>>) THEN Head(Bombs(ai)) ELSE HighSolo(ai)

farmerTakeOutLordOnly1Card(ai_) ==
  LET ai == Resorted(ai_) IN
  Take(ai,
    CASE isFree(ai) /\ IsGoodNow(ai) -> findMostCardsHand(ai.handsMap)
      [] isFree(ai) /\ ~IsGoodNow(ai) ->
           IF IsUpFarmer(ai) THEN UpFarmerFreeLordOnly1Card(ai) ELSE DownFarmerFreeLordOnly1Card(ai)
      [] ~isFree(ai) /\ ai.curHand.type = "SOLO" -> OverSoloLordOnly1Card(ai)
      [] OTHER -> IF ai.curHandSeat = ai.lordSeat THEN farmerMustTakeOutLordOnly1Card(ai)
                  ELSE findHigherHandNotBomb(ai.handsMap, ai.curHand))

(* The hand of the map, else nothing if what is left is good, else any.    *)
farmerMustTakeOutLordCharge(ai) ==
  LET higher == findHigherHandNotBomb(ai.handsMap, ai.curHand)
      now == getHandsMapSummary(ai.handsMap, ai)
  IN  CASE ~Nothing(higher) -> higher
        [] Nothing(higher) /\ now.effectiveHandsCount < ai.controlNum + 2 -> NothingHand
        [] OTHER -> findBestHigherHandFromPoints(ai, TRUE, FALSE)

farmerTakeOutLordOnly2Cards(ai) ==
  LET solos == Solos(ai)
      pairs == Pairs(ai)
      low == SelectSeq(solos, LAMBDA h : h.keyPoint <= getHighestPoint(ai.otherPoints))
      high == SelectSeq(pairs, LAMBDA h : /\ h.keyPoint > ai.curHand.keyPoint
                                          /\ h.keyPoint >= getHighestPairPoint(ai.otherPoints))
  IN  CASE isFree(ai) /\ solos \o pairs = <<>> -> Pass(ai)
        [] isFree(ai) /\ solos \o pairs # <<>> ->
             IF Bombs(ai) # <<>> \/ hasUniHighestSolo(ai.points, ai.otherPoints)
             THEN Take(ai, IF solos = <<>> THEN Solo(Head(pairs).keyPoint) ELSE LastOr(low, NothingHand))
             ELSE farmerTakeOutLordOnly1Card(ai)
        [] OTHER ->
             Take(ai, IF ai.curHand.type = "PAIR" /\ ai.curHandSeat = ai.lordSeat /\ high # <<>>
                      THEN Head(high) ELSE farmerMustTakeOutLordCharge(ai))

(* Mutant: the hand that finishes the game may be a bomb.                  *)
OverPartnerWithBomb(ai) ==
  LET higher == findHigherHand(ai.handsMap, ai.curHand)
      leaves == \/ ai.total[Partner(ai)] <= 2
                \/ ai.curHand.keyPoint >= CARD_K
                \/ ai.curHand.type \in ChainTypes \cup {"FOUR_DUAL_SOLO", "FOUR_DUAL_PAIR"}
  IN  CASE ~Nothing(higher) /\ ai.summary.realHandsCount - 1 <= Len(Bombs(ai)) -> higher
        [] ~(~Nothing(higher) /\ ai.summary.realHandsCount - 1 <= Len(Bombs(ai))) /\ leaves -> NothingHand
        [] OTHER -> IF ~Nothing(higher) /\ calHandControl(higher, ai.lowestControl) = 0 THEN higher
                    ELSE findBestHigherHandFromPoints(ai, TRUE, FALSE)

goodFarmerOverOtherFarmer(ai) ==
  LET higher == findHigherHandNotBomb(ai.handsMap, ai.curHand)
      leaves == \/ ai.total[Partner(ai)] <= 2
                \/ ai.curHand.keyPoint >= CARD_K
                \/ ai.curHand.type \in ChainTypes \cup {"FOUR_DUAL_SOLO", "FOUR_DUAL_PAIR"}
  IN  CASE ~Nothing(higher) /\ ai.summary.realHandsCount - 1 <= Len(Bombs(ai)) -> higher
        [] ~(~Nothing(higher) /\ ai.summary.realHandsCount - 1 <= Len(Bombs(ai))) /\ leaves -> NothingHand
        [] OTHER -> IF ~Nothing(higher) /\ calHandControl(higher, ai.lowestControl) = 0 THEN higher
                    ELSE findBestHigherHandFromPoints(ai, TRUE, FALSE)

farmerTakeOutWhenLordTakeOutHighSolo(ai) ==
  LET joker == CASE ai.curHand.keyPoint = Two /\ ai.points[BLACK_JOKER] = 1 -> {BLACK_JOKER}
                 [] ai.curHand.keyPoint = Two /\ ai.points[BLACK_JOKER] # 1 ->
                      IF ai.otherPoints[BLACK_JOKER] = 0 THEN {RED_JOKER} ELSE {}
                 [] OTHER -> {RED_JOKER}
  IN  IF \E p \in joker : ai.points[p] = 1 THEN Solo(Max(joker)) ELSE NothingHand

IsHighSolo(hand) == hand.type = "SOLO" /\ hand.keyPoint \in {Two, BLACK_JOKER}

-----------------------------------------------------------------------------
(* The search for bombs takes them out of the robot's own points.          *)
downFarmerTakeOutUpFarmerOnly1Card(ai) ==
  LET found == getBomb(InWork(ai.points, NoHands))
      bombs == found.handMap["BOMB"]
      theirs == getHighestBomb(ai.otherPoints)
      lowest == Solo(getLowestPoint(ai.points))
  IN  CASE hasUniLowestSolo(ai.points, ai.otherPoints) ->
             Take([ai EXCEPT !.points = found.cards],
                  IF bombs = <<>> \/ Last(bombs).keyPoint <= theirs THEN lowest
                  ELSE IF theirs < 0 \/ ai.total[ai.lordSeat] # 4 THEN Head(bombs)
                  ELSE Last(bombs))
        [] ~hasUniLowestSolo(ai.points, ai.otherPoints) /\ ai.total[ai.lordSeat] = 1 -> farmerTakeOutLordOnly1Card(ai)
        [] OTHER -> IF IsGoodNow(ai) THEN Pass(ai) ELSE Take(ai, lowest)

(* The first rules of all farmers: the down farmer lets the up farmer      *)
(* finish, and both see to a lord with one or two cards left.              *)
FirstRules(ai) ==
  LET partner == IF isFree(ai) /\ IsDownFarmer(ai) /\ ai.total[Next1(ai.aiSeat)] = 1
                 THEN downFarmerTakeOutUpFarmerOnly1Card(ai) ELSE Pass(ai)
  IN  CASE ~Nothing(partner.hand) -> partner
        [] Nothing(partner.hand) /\ ai.total[ai.lordSeat] = 1 -> farmerTakeOutLordOnly1Card(partner)
        [] Nothing(partner.hand) /\ ai.total[ai.lordSeat] = 2 -> farmerTakeOutLordOnly2Cards(partner)
        [] OTHER -> partner

DownGoodFarmerFree(ai) ==
  LET s == ai.summary
      theirs == getHighestBomb(ai.otherPoints)
      above == theirs < 0 \/ (Bombs(ai) # <<>> /\ Last(Bombs(ai)).keyPoint > theirs)
      charge == findChargeHandFirst(ai.handsMap, ai, TRUE)
      after == AfterHand(ai, charge, charge.type)
      keeps == \/ s.realHandsCount <= Len(Bombs(ai)) + (IF above THEN 1 ELSE 0)
               \/ after.summary.effectiveHandsCount < after.controlNum + 1
  IN  CASE s.realHandsCount = 2 /\ s.unChargeHandsCount = 2 -> Head(FrontHands(ai.handsMap))
        [] OTHER -> IF IsGoodNow(ai) /\ keeps THEN charge ELSE findLowestHand(ai.handsMap)

DownGoodFarmerHigher(ai) ==
  LET joker == farmerTakeOutWhenLordTakeOutHighSolo(ai)
      must == \/ ai.curHand.type \in ChainTypes \ {"SOLO_CHAIN"}
              \/ ai.curHand.type = "SOLO_CHAIN" /\ ai.curHand.len >= LongChain
              \/ ai.curHand.type = "PAIR" /\ ai.curHand.keyPoint = CARD_A
  IN  CASE ai.curHandSeat # ai.lordSeat -> goodFarmerOverOtherFarmer(ai)
        [] ai.curHandSeat = ai.lordSeat /\ must -> farmerMustTakeOutLordCharge(ai)
        [] OTHER -> IF IsHighSolo(ai.curHand) /\ ~Nothing(joker) THEN joker ELSE lordTakeOutHigherNormal(ai)

DownBadFarmerHigher(ai) ==
  LET joker == farmerTakeOutWhenLordTakeOutHighSolo(ai)
      must == ai.curHand.type \notin {"SOLO", "PAIR"} \/ (ai.curHand.type = "PAIR" /\ ai.curHand.keyPoint = CARD_A)
  IN  CASE ai.curHandSeat # ai.lordSeat -> NothingHand
        [] ai.curHandSeat = ai.lordSeat /\ IsHighSolo(ai.curHand) /\ ~Nothing(joker) -> joker
        [] OTHER -> IF must \/ ~isFirstHalf(ai) THEN farmerMustTakeOutLordCharge(ai)
                    ELSE findBestHigherHandFromMap(ai)

UpGoodFarmerFree(ai) ==
  LET partner == ai.total[Partner(ai)]
      lowest == findLowestHand(ai.handsMap)
      solo == Solos(ai) # <<>> /\ Head(Solos(ai)).keyPoint < ai.lowestControl
      pair == Pairs(ai) # <<>> /\ Head(Pairs(ai)).keyPoint < CARD_T
  IN  CASE IsGoodNow(ai) -> lowest
        [] ~IsGoodNow(ai) /\ partner = 1 /\ solo -> Head(Solos(ai))
        [] ~IsGoodNow(ai) /\ partner = 2 /\ pair -> Head(Pairs(ai))
        [] OTHER -> IF ai.summary.unChargeHandsCount = 2 THEN findChargeHandFirst(ai.handsMap, ai, TRUE)
                    ELSE IF lowest.keyPoint <= getLowestPoint(ai.otherPoints) THEN lowest
                    ELSE findMostCardsHandNotBomb(ai.handsMap)

UpGoodFarmerHigher(ai) ==
  IF ai.curHandSeat # ai.lordSeat THEN goodFarmerOverOtherFarmer(ai) ELSE farmerMustTakeOutLordCharge(ai)

(* Low pairs, then solos, then half a pair, for the partner to take over.  *)
UpBadFarmerFree(ai) ==
  LET pairs == SelectSeq(Pairs(ai), LAMBDA h : h.keyPoint <= CARD_8)
      solos == SelectSeq(Solos(ai), LAMBDA h : h.keyPoint < ai.lowestControl)
      halves == SelectSeq(Pairs(ai), LAMBDA h : h.keyPoint < ai.lowestControl)
  IN  CASE pairs # <<>> -> Last(pairs)
        [] pairs = <<>> /\ solos # <<>> -> Last(solos)
        [] OTHER -> IF halves # <<>> THEN Solo(Last(halves).keyPoint) ELSE findLowestHand(ai.handsMap)

(* The points up to CARD_2 above the hand that are no bomb.                *)
SoloFromPoints(ai) ==
  LET above == {p \in (ai.curHand.keyPoint + 1)..Two : ai.points[p] \in 1..3} IN
  IF above = {} THEN NothingHand ELSE Solo(Min(above))

UpBadFarmerBlocks(ai) ==
  LET key == ai.curHand.keyPoint
      block == Max({CARD_J, key + 1})
      solos == SelectSeq(Solos(ai), LAMBDA h : h.keyPoint \in block..CARD_A)
      above == SelectSeq(Solos(ai), LAMBDA h : h.keyPoint > key /\ h.keyPoint <= Two)
      pairs == Pairs(ai)
  IN  CASE solos # <<>> -> Last(solos)
        [] solos = <<>> /\ pairs # <<>> /\ Head(pairs).keyPoint >= block -> Solo(Last(pairs).keyPoint)
        [] OTHER -> IF above # <<>> THEN Head(above) ELSE SoloFromPoints(ai)

UpBadFarmerHigher(ai) ==
  LET hand == ai.curHand IN
  CASE hand.type = "SOLO" /\ hand.keyPoint < Min({CARD_J, ai.lowestControl}) -> UpBadFarmerBlocks(ai)
    [] OTHER ->
         IF ai.curHandSeat # ai.lordSeat THEN NothingHand
         ELSE IF IsHighSolo(hand) THEN farmerTakeOutWhenLordTakeOutHighSolo(ai)
         ELSE IF hand.type = "SOLO" /\ hand.keyPoint \in CARD_J..CARD_A THEN SoloFromPoints(ai)
         ELSE farmerMustTakeOutLordCharge(ai)
-----------------------------------------------------------------------------
upBadFarmerTakeOut(ai) ==
  LET lord == ai.total[ai.lordSeat]
      partner == ai.total[Partner(ai)]
      pair == getLowestPairPoint(ai.points)
      two == IF lord = 2 THEN farmerTakeOutLordOnly2Cards(ai) ELSE Pass(ai)
  IN  CASE lord = 1 -> farmerTakeOutLordOnly1Card(ai)
        [] lord # 1 /\ isFree(ai) /\ partner = 1 -> Take(ai, Solo(getLowestPoint(ai.points)))
        [] lord \notin 1..2 /\ isFree(ai) /\ partner = 2 /\ ~isHighestPair(pair, ai.otherPoints) ->
             Take(ai, Pair(pair))
        [] OTHER -> IF ~Nothing(two.hand) THEN two
                    ELSE Take(two, IF isFree(ai) THEN UpBadFarmerFree(two) ELSE UpBadFarmerHigher(two))

farmerTakeOut(ai) ==
  LET first == FirstRules(ai) IN
  CASE IsUpFarmer(ai) /\ ~isGoodFarmer(ai) -> upBadFarmerTakeOut(ai)
    [] ~(IsUpFarmer(ai) /\ ~isGoodFarmer(ai)) /\ (~Nothing(first.hand) \/ ai.total[ai.lordSeat] = 1) -> first
    [] OTHER ->
         Take(first,
           CASE IsDownFarmer(ai) /\ isGoodFarmer(ai) ->
                  IF isFree(ai) THEN DownGoodFarmerFree(first) ELSE DownGoodFarmerHigher(first)
             [] IsDownFarmer(ai) /\ ~isGoodFarmer(ai) ->
                  IF isFree(ai) THEN findLowestHand(first.handsMap) ELSE DownBadFarmerHigher(first)
             [] OTHER -> IF isFree(ai) THEN UpGoodFarmerFree(first) ELSE UpGoodFarmerHigher(first))
=============================================================================
