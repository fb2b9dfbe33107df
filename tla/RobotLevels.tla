----------------------------- MODULE RobotLevels -----------------------------
(***************************************************************************)
(* The levels of a robot: what its AI chooses when it is asked for cards.  *)
(***************************************************************************)
EXTENDS HighLevel

(* Lower cards of the bare points replace the trio and its kickers.        *)
refindForTrio(ai) ==
  LET hand == ai.hand
      left == sortHandsWithBestKind(pointsSub(ai.points, handToPointsArray(hand)), ai, FALSE).handMap
      lower == SelectSeq(Hands(left, IF isChain(hand.type) THEN "TRIO_CHAIN" ELSE "TRIO"),
                 LAMBDA h : /\ isFree(ai) \/ h.keyPoint > ai.curHand.keyPoint
                            /\ h.keyPoint < hand.keyPoint
                            /\ isChain(hand.type) => h.len = hand.len)
      n == Len(hand.kicker)
      others == {h.keyPoint : h \in ToSet(Hands(left, IF KickerWidth(hand.type) = 1 THEN "SOLO" ELSE "PAIR"))}
      kickers == ToSet(hand.kicker) \cup {p \in others : p < Last(hand.kicker)}
  IN  [hand EXCEPT !.keyPoint = FirstOr(lower, hand).keyPoint,
                   !.kicker = IF n > 0 /\ Cardinality(kickers) > n THEN SubSeq(Ascending(kickers), 1, n) ELSE @]

takeOutLvl0(ai) ==
  LET seen == sortHandMap(ai) IN
  Take(seen, IF isFree(ai) THEN findLowestHand(seen.handsMap) ELSE findHigherHand(seen.handsMap, ai.curHand))

takeOutLvl1(ai) ==
  LET seen == sortHandMap(ai)
      chosen == IF ~IsLord(ai) THEN farmerTakeOut(seen)
                ELSE Take(seen, IF isFree(ai) THEN lordTakeOutFree(seen) ELSE lordTakeOutHigher(seen))
  IN  IF chosen.hand.type \in TrioTypes \cup {"TRIO_CHAIN_SOLO", "TRIO_CHAIN_PAIR"}
      THEN Take(chosen, refindForTrio(chosen)) ELSE chosen

-----------------------------------------------------------------------------
(* What a robot of a level takes out when it is asked: its members as      *)
(* RbtOutGetTakeOutCard sets them first, then the choice of its level.     *)
TakesOutHand(level, asked) ==
  LET control == getLowestControl(asked.remainPoints)
      ai == [lowestControl |-> control, controlNum |-> calControl(asked.points, asked.otherPoints, control),
             maxOppNumber |-> 0, minOppNumber |-> 0, handsMap |-> NoHands,
             summary |-> getHandsMapSummary(NoHands, View(control, 0, asked.otherPoints)),
             hand |-> NothingHand] @@ asked
  IN  CASE level = 0 -> takeOutLvl0(ai) [] level = 1 -> takeOutLvl1(ai) [] OTHER -> takeOutHighLvl(ai)
=============================================================================
