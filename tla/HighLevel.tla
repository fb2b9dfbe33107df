----------------------------- MODULE HighLevel -----------------------------
(***************************************************************************)
(* The choice of OGLordRobotAI from level 2 on. It judges a split by what  *)
(* the opponents hold; but nobody tells a robot (playerInfo of the others  *)
(* is -1 throughout), so no hand of theirs is ever found: each hand of the *)
(* split counts in countHighHand as one that theirs are all below, there   *)
(* is no danger, and the robot knows no pair of a farmer.                  *)
(***************************************************************************)
EXTENDS FarmerChoice

CONSTANT DealtCards  \* cards dealt to a player (17 in the game)
ASSUME DealtAssumption == DealtCards \in Nat

(* A trio or trio chain, the chains first, takes its kickers off the solos,*)
(* or off the pairs when there are more of them, if these are enough.      *)
withKickers(handMap) ==
  FoldLeft(LAMBDA m, trio :
             LET list == IF Len(Hands(m, "SOLO")) >= Len(Hands(m, "PAIR")) THEN "SOLO" ELSE "PAIR"
                 n == trio.len
                 full == [trio EXCEPT !.type = @ \o "_" \o list,
                                      !.kicker = [j \in 1..n |-> Hands(m, list)[j].keyPoint]]
             IN  IF Len(Hands(m, list)) < n THEN m
                 ELSE Add([m EXCEPT ![list] = SubSeq(@, n + 1, Len(@)), ![trio.type] = Remove(@, trio)],
                          full.type, <<full>>),
           Touch(handMap, {"SOLO", "PAIR", "TRIO", "TRIO_CHAIN"}),
           Hands(handMap, "TRIO_CHAIN") \o Hands(handMap, "TRIO"))

(* Of the hands but the bombs none is low, so the hands that count are     *)
(* fewer than none by the bombs.                                           *)
getHandsMapSummaryLvl(handMap) ==
  LET bombs == Len(Hands(handMap, "BOMB"))
      solos == Hands(handMap, "SOLO")
      trios == FoldLeft(LAMBDA n, h : n + h.len, 0, Hands(handMap, "TRIO_CHAIN") \o Hands(handMap, "TRIO"))
      SoloAt(j) == IF j <= Len(solos) THEN solos[j].keyPoint ELSE RED_JOKER
  IN  [realHandsCount |-> Len(InOrder(handMap)) - bombs,
       unChargeHandsCount |-> 0,
       extraBombCount |-> bombs,
       effectiveHandsCount |-> 0 - bombs,
       handsTypeCount |-> Cardinality(DOMAIN handMap \ {"BOMB", "SOLO_CHAIN"})
                          + Cardinality({h.len : h \in ToSet(Hands(handMap, "SOLO_CHAIN"))}),
       soloCount |-> Min({0, trios - Len(solos)}),
       lowestSolo |-> SoloAt(trios + 1),
       sencondLowestSolo |-> SoloAt(trios + 2)]

(* The first split stays: the others are made, but what is summarised for  *)
(* them is the first again. The opponents' numbers are those of the deal.  *)
sortHandMapLvl(ai) ==
  LET lastCard == ai.total[ai.lordSeat] = 1 /\ ~IsLord(ai)
      handMap == withKickers(splitCardsToHands(IF lastCard THEN 4 ELSE 1, ai.points, FALSE))
  IN  [ai EXCEPT !.maxOppNumber = DealtCards, !.minOppNumber = DealtCards,
                 !.handsMap = handMap, !.summary = getHandsMapSummaryLvl(handMap)]

(* The hands that count are never the one that would let the lord charge.  *)
lordTakeOutFreeNormalLvl(ai) == findLowestHand(ai.handsMap)

lordTakeOutFreeLvl(ai) ==
  LET farmers == {ai.total[s] : s \in Seats \ {ai.aiSeat}} IN
  IF 1 \in farmers \/ (2 \in farmers /\ Solos(ai) \o Pairs(ai) # <<>>)
  THEN lordTakeOutFreeFarmerOnly1Card(ai) ELSE lordTakeOutFreeNormalLvl(ai)

takeOutHighLvl(ai) ==
  LET seen == sortHandMapLvl(ai) IN
  IF ~IsLord(ai) THEN farmerTakeOut(seen)
  ELSE Take(seen, IF isFree(ai) THEN lordTakeOutFreeLvl(seen) ELSE lordTakeOutHigher(seen))
=============================================================================
