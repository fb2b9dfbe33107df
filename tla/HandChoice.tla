----------------------------- MODULE HandChoice -----------------------------
(***************************************************************************)
(* How AIUtils judges hands and splits, and searches a player's cards for  *)
(* a hand. A view is what a robot judges by: lowestControl, maxOppNumber   *)
(* and otherPoints.                                                        *)
(***************************************************************************)
EXTENDS HandSplit

CONSTANTS
  ChargeLen,    \* SOLO_CHAIN_CHARGE_LEN, by how much a chain is longer than the shortest
  ControlCards  \* cards from the lowest control on (6 in the game)

ASSUME ChoiceAssumption == ChargeLen \in Seq(Nat) /\ ControlCards \in Nat

(* The hand types in the order of the enumeration, which is handMap's.     *)
TypesInOrder ==
  <<"TRIO_CHAIN_PAIR", "TRIO_CHAIN_SOLO", "TRIO_CHAIN", "PAIR_CHAIN", "SOLO_CHAIN", "TRIO_PAIR",
    "TRIO_SOLO", "TRIO", "PAIR", "SOLO", "FOUR_DUAL_PAIR", "FOUR_DUAL_SOLO", "BOMB", "NUKE">>
TrioTypes == {"TRIO", "TRIO_SOLO", "TRIO_PAIR"}

(* All hands of a handMap in order.                                        *)
InOrder(handMap) == FlattenSeq([j \in DOMAIN TypesInOrder |-> Hands(handMap, TypesInOrder[j])])

View(lowestControl, maxOppNumber, otherPoints) ==
  [lowestControl |-> lowestControl, maxOppNumber |-> maxOppNumber, otherPoints |-> otherPoints]

pointsSub(a, b) == [p \in Point |-> a[p] - b[p]]
Sum(points, S)  == FoldFunctionOnSet(+, 0, points, S)
Highest(S, none) == IF S = {} THEN none ELSE Max(S)
Lowest(S, none)  == IF S = {} THEN none ELSE Min(S)
AtLeast(points, n) == {p \in Point : points[p] >= n}

getHighestPoint(points)     == Highest(AtLeast(points, 1), 0)
getLowestPoint(points)      == Lowest(AtLeast(points, 1), RED_JOKER)
getHighestPairPoint(points) == Highest(AtLeast(points, 2), 0)
getLowestPairPoint(points)  == Lowest(AtLeast(points, 2), RED_JOKER)
getHighestBomb(points) ==
  IF NukePoints(points) # {} THEN BLACK_JOKER ELSE Highest({p \in 0..Two : points[p] = 4}, -1)
isHighestSolo(point, oppPoints) == \A p \in AtLeast(oppPoints, 1) : p <= point
isHighestPair(point, oppPoints) == \A p \in AtLeast(oppPoints, 2) : p <= point
hasUniLowestSolo(aiPoints, oppPoints) ==
  AtLeast(aiPoints, 1) # {} /\ \A p \in AtLeast(oppPoints, 1) : getLowestPoint(aiPoints) < p
hasUniHighestSolo(aiPoints, oppPoints) ==
  AtLeast(aiPoints, 1) # {} /\ \A p \in AtLeast(oppPoints, 1) : getHighestPoint(aiPoints) > p

(* It is the lowest trio that is called the highest.                       *)
getHighestTrio(points) == Lowest({p \in 0..Two : points[p] >= 3}, -1)

(* From CARD_A down; start stays where an earlier, shorter run left it.    *)
getHighestSoloChain(points, len) ==
  LET scan[p \in -1..LastChain, end \in -1..LastChain, start \in -1..LastChain] ==
        CASE p < 0 -> start
          [] p >= 0 /\ points[p] <= 0 -> scan[p - 1, -1, start]
          [] p >= 0 /\ points[p] > 0 /\ end < 0 -> scan[p - 1, p, start]
          [] OTHER -> IF end - p + 1 = len THEN p ELSE scan[p - 1, end, p]
  IN  scan[LastChain, -1, -1]

getLowestControl(remainPoints) ==
  Highest({p \in Point : Sum(remainPoints, p..RED_JOKER) >= ControlCards}, 0)

-----------------------------------------------------------------------------
(* The longest run of points from start on the opponents hold.             *)
OppRun(oppCards, start) ==
  Cardinality({e \in start..LastChain : \A p \in start..e : oppCards[p] > 0})

(* Does a hand hold against the opponents' cards, taken by itself? A chain *)
(* too short for the table reads outside it: that value is not modelled.   *)
IsChargeAlone(hand, view) ==
  LET opp == view.otherPoints
      above == (hand.keyPoint + 1)..RED_JOKER
      notAbove(n) == \A p \in above : opp[p] < n
  IN  \/ getHandCount(hand) > view.maxOppNumber
      \/ hand.type = "SOLO" /\ notAbove(1)
      \/ hand.type = "PAIR" /\ notAbove(2)
      \/ hand.type \in TrioTypes /\ notAbove(3)
      \/ /\ hand.type = "SOLO_CHAIN"
         /\ \/ view.maxOppNumber < ChargeLen[hand.len - SoloLen + 1]
            \/ \A s \in (hand.keyPoint + 1)..(LastChain - hand.len + 1) : OppRun(opp, s) < hand.len
      \/ hand.type \notin TrioTypes \cup {"SOLO", "PAIR", "SOLO_CHAIN"}

(* isChargeHand with a handMap: as many of its hands of the kind, the      *)
(* first ones, as beat the opponents' count for higher than this one.      *)
isChargeHand(hand, view, handMap) ==
  LET sameLen == SelectSeq(Hands(handMap, "SOLO_CHAIN"), LAMBDA h : h.len = hand.len)
      trios == Hands(handMap, "TRIO") \o Hands(handMap, "TRIO_SOLO") \o Hands(handMap, "TRIO_PAIR")
      rivals == IF hand.type = "SOLO_CHAIN" THEN sameLen ELSE trios
      highest == IF hand.type = "SOLO_CHAIN" THEN getHighestSoloChain(view.otherPoints, hand.len)
                 ELSE getHighestTrio(view.otherPoints)
      n == Cardinality({j \in DOMAIN rivals : rivals[j].keyPoint > highest})
  IN  \/ IsChargeAlone(hand, view)
      \/ /\ hand.type \in TrioTypes \cup {"SOLO_CHAIN"}
         /\ \E j \in 1..n : hand.keyPoint <= rivals[j].keyPoint

(* A chain counts one control too many.                                    *)
ChainControls(hand, lowestControl) ==
  LET n == hand.keyPoint + hand.len - lowestControl + 1 IN IF n < 0 THEN 0 ELSE n

calHandControl(hand, lowestControl) ==
  LET body == IF isChain(hand.type) THEN ChainControls(hand, lowestControl)
              ELSE IF hand.keyPoint >= lowestControl THEN 1 ELSE 0
      kickers == Cardinality({j \in DOMAIN hand.kicker : hand.kicker[j] >= lowestControl})
  IN  IF hand.type \in {"BOMB", "NUKE"} THEN 0
      ELSE BodyWidth(hand.type) * body + KickerWidth(hand.type) * kickers

containsControl(lowestControl, hand) ==
  \/ hand.type \notin ChainTypes \cup TrioTypes \cup {"SOLO", "PAIR"}
  \/ (IF isChain(hand.type) THEN End(hand) ELSE hand.keyPoint) >= lowestControl
  \/ \E j \in DOMAIN hand.kicker : hand.kicker[j] >= lowestControl

(* One pass over the control points: the two sides take turns, upwards,    *)
(* the robot first. last is the side that had the last card.               *)
ControlPass(my, opp, lowestControl) ==
  FoldLeft(LAMBDA s, p :
             IF s.mine /\ s.my[p] > 0 THEN [s EXCEPT !.my[p] = @ - 1, !.mine = FALSE, !.last = "my"]
             ELSE IF ~s.mine /\ s.opp[p] > 0 THEN [s EXCEPT !.opp[p] = @ - 1, !.mine = TRUE, !.last = "opp"]
             ELSE s,
           [my |-> my, opp |-> opp, mine |-> TRUE, last |-> "none"],
           Ascending(lowestControl..RED_JOKER))

calControl(myPoints, oppPoints, lowestControl) ==
  LET controls == lowestControl..RED_JOKER
      Turn(s) ==
        IF Sum(s.my, controls) <= 0 \/ Sum(s.opp, controls) <= 0 THEN s
        ELSE LET t == ControlPass(s.my, s.opp, lowestControl) IN
             [my |-> t.my, opp |-> t.opp,
              ret |-> s.ret + (CASE t.last = "my" -> 10 [] t.last = "opp" -> -1 [] OTHER -> 0)]
      over == FoldLeft(LAMBDA s, n : Turn(s), [my |-> myPoints, opp |-> oppPoints, ret |-> 0],
                       [n \in 1..Sum(myPoints, controls) |-> n])
      ret == over.ret + 10 * Sum(over.my, controls)
  IN  IF ret < 0 THEN 0 ELSE ret \div 10

-----------------------------------------------------------------------------
(* What a split is judged by. The types counted are the keys of the map,   *)
(* empty ones too, and the key that isChargeHand inserts ahead of the loop.*)
getHandsMapSummary(handMap, view) ==
  LET bombs == Hands(handMap, "BOMB")
      solos == Hands(handMap, "SOLO")
      others == SelectSeq(InOrder(handMap), LAMBDA h : h.type \notin {"BOMB", "NUKE"})
      CountOf(Test(_)) == Len(SelectSeq(others, Test))
      unCharge == CountOf(LAMBDA h : ~isChargeHand(h, view, handMap))
      twoControls == CountOf(LAMBDA h : calHandControl(h, view.lowestControl) >= 2)
      extra == Len(SelectSeq(bombs, LAMBDA h : h.keyPoint < view.lowestControl))
      keys == DOMAIN handMap \cup
              {t \in {"TRIO_SOLO", "TRIO"} : \E h \in ToSet(Hands(handMap, "TRIO_PAIR")) : ~IsChargeAlone(h, view)} \cup
              {t \in {"TRIO"} : \E h \in ToSet(Hands(handMap, "TRIO_SOLO")) : ~IsChargeAlone(h, view)}
  IN  [realHandsCount |-> Len(others),
       unChargeHandsCount |-> unCharge,
       extraBombCount |-> extra,
       effectiveHandsCount |-> unCharge + twoControls - extra,
       handsTypeCount |-> Cardinality(keys \ {"BOMB", "SOLO_CHAIN"})
                          + Cardinality({h.len : h \in ToSet(Hands(handMap, "SOLO_CHAIN"))}),
       soloCount |-> 0,
       lowestSolo |-> IF Len(solos) >= 1 THEN solos[1].keyPoint ELSE RED_JOKER,
       sencondLowestSolo |-> IF Len(solos) >= 2 THEN solos[2].keyPoint ELSE RED_JOKER]

(* Is summary0 the better one, or as good?                                 *)
compareHandMapSummary(s0, s1) ==
  \/ s0.effectiveHandsCount < s1.effectiveHandsCount
  \/ /\ s0.effectiveHandsCount = s1.effectiveHandsCount
     /\ \/ s0.handsTypeCount < s1.handsTypeCount
        \/ s0.handsTypeCount = s1.handsTypeCount /\ s0.lowestSolo >= s1.lowestSolo

Judged(kind, points, view, searchKicker) ==
  LET handMap == splitCardsToHands(kind, points, searchKicker) IN
  [handMap |-> handMap, summary |-> getHandsMapSummary(handMap, view)]

BetterOf(a, b) == IF compareHandMapSummary(a.summary, b.summary) THEN a ELSE b

sortHandsWithBestKind(points, view, searchKicker) ==
  LET j(kind) == Judged(kind, points, view, searchKicker) IN BetterOf(BetterOf(j(1), j(2)), j(3))

(* soloCount is always 0: the lowest solo decides.                         *)
sortHandsLordOnly1Card(points, view, searchKicker) ==
  LET a == Judged(4, points, view, searchKicker)
      b == Judged(5, points, view, searchKicker)
  IN  IF b.summary.lowestSolo > a.summary.lowestSolo THEN b ELSE a
=============================================================================
