----------------------------- MODULE HandTypes -----------------------------
(***************************************************************************)
(* The hands of the game (Hand, HandType of RobotConfig.h) and the pure    *)
(* functions of AIUtils that recognise, count and compare them. A set of   *)
(* cards is an array of how often each point occurs.                       *)
(***************************************************************************)
EXTENDS Integers, FiniteSets, SequencesExt

CONSTANTS
  LastChain,  \* CARD_A, the highest point of a chain (11 in the game)
  SoloLen,    \* points of the shortest solo chain (5 in the game)
  PairLen     \* points of the shortest pair chain (3 in the game)

ASSUME HandAssumption ==
  /\ LastChain \in Nat
  /\ SoloLen \in 2..(LastChain + 1) /\ PairLen \in 2..(LastChain + 1)

Two         == LastChain + 1  \* CARD_2
BLACK_JOKER == LastChain + 2
RED_JOKER   == LastChain + 3
Point       == 0..RED_JOKER
Jokers      == {BLACK_JOKER, RED_JOKER}

ChainTypes == {"TRIO_CHAIN_PAIR", "TRIO_CHAIN_SOLO", "TRIO_CHAIN", "PAIR_CHAIN", "SOLO_CHAIN"}
HandType ==
  ChainTypes \cup {"NOTHING", "TRIO_PAIR", "TRIO_SOLO", "TRIO", "PAIR", "SOLO",
                   "FOUR_DUAL_PAIR", "FOUR_DUAL_SOLO", "BOMB", "NUKE"}

(* kicker lists the points of the kickers; len is 1 for a hand that is no  *)
(* chain, and 2 for the two jokers.                                        *)
Hand == [type : HandType, keyPoint : Point, len : Nat, kicker : Seq(Point)]

NothingHand == [type |-> "NOTHING", keyPoint |-> 0, len |-> 0, kicker |-> <<>>]

(* The points of S from the lowest on.                                     *)
Ascending(S) ==
  [n \in 1..Cardinality(S) |-> CHOOSE p \in S : Cardinality({q \in S : q < p}) = n - 1]

(* The hand of a type whose body has the points of set body.               *)
HandOf(type, body, kickers) ==
  [type |-> type, keyPoint |-> Min(body), len |-> Cardinality(body),
   kicker |-> Ascending(kickers)]

-----------------------------------------------------------------------------
isChain(type) == type \in ChainTypes

(* The sortedCard lists of getHand: points that occur exactly n times.     *)
sortedCard(points, n) == {p \in Point : points[p] = n}

IsTrioRun(body) ==
  /\ Cardinality(body) >= 2
  /\ Max(body) <= LastChain
  /\ Max(body) - Min(body) = Cardinality(body) - 1

getHand(points) ==
  LET solo == sortedCard(points, 1)
      pair == sortedCard(points, 2)
      trio == sortedCard(points, 3)
      four == sortedCard(points, 4)
      s == Cardinality(solo)
      d == Cardinality(pair)
      t == Cardinality(trio)
      f == Cardinality(four)
  IN  CASE Jokers \subseteq solo ->
             IF s = 2 /\ d + t + f = 0 THEN HandOf("NUKE", Jokers, {}) ELSE NothingHand
        [] ~(Jokers \subseteq solo) /\ t >= 2 /\ f = 0 ->
             CASE ~IsTrioRun(trio) -> NothingHand
               [] IsTrioRun(trio) /\ s = 0 /\ d = 0 -> HandOf("TRIO_CHAIN", trio, {})
               [] IsTrioRun(trio) /\ s = t /\ d = 0 -> HandOf("TRIO_CHAIN_SOLO", trio, solo)
               [] IsTrioRun(trio) /\ s = 0 /\ d = t -> HandOf("TRIO_CHAIN_PAIR", trio, pair)
               [] OTHER -> NothingHand
        [] ~(Jokers \subseteq solo) /\ t = 1 /\ f = 0 ->
             CASE s = 0 /\ d = 0 -> HandOf("TRIO", trio, {})
               [] s = 0 /\ d = 1 -> HandOf("TRIO_PAIR", trio, pair)
               [] s = 1 /\ d = 0 -> HandOf("TRIO_SOLO", trio, solo)
               [] OTHER -> NothingHand
        [] ~(Jokers \subseteq solo) /\ t = 0 /\ f = 0 /\ d > 0 /\ s = 0 ->
             CASE d >= PairLen /\ Max(pair) <= LastChain -> HandOf("PAIR_CHAIN", pair, {})
               [] d = 1 -> HandOf("PAIR", pair, {})
               [] OTHER -> NothingHand
        [] ~(Jokers \subseteq solo) /\ t = 0 /\ f = 0 /\ d = 0 /\ s > 0 ->
             CASE s >= SoloLen /\ Max(solo) <= LastChain -> HandOf("SOLO_CHAIN", solo, {})
               [] s = 1 -> HandOf("SOLO", solo, {})
               [] OTHER -> NothingHand
        [] ~(Jokers \subseteq solo) /\ t = 0 /\ f = 1 ->
             CASE s = 0 /\ d = 0 -> HandOf("BOMB", four, {})
               [] s = 0 /\ d = 2 -> HandOf("FOUR_DUAL_PAIR", four, pair)
               [] s = 2 /\ d = 0 -> HandOf("FOUR_DUAL_SOLO", four, solo)
               [] OTHER -> NothingHand
        [] OTHER -> NothingHand

-----------------------------------------------------------------------------
(* How often the points of a hand's body and its kickers occur.            *)
BodyWidth(type) ==
  CASE type \in {"SOLO", "SOLO_CHAIN", "NUKE"} -> 1
    [] type \in {"PAIR", "PAIR_CHAIN"} -> 2
    [] type \in {"TRIO", "TRIO_SOLO", "TRIO_PAIR", "TRIO_CHAIN", "TRIO_CHAIN_SOLO", "TRIO_CHAIN_PAIR"} -> 3
    [] type \in {"BOMB", "FOUR_DUAL_SOLO", "FOUR_DUAL_PAIR"} -> 4
    [] OTHER -> 0

KickerWidth(type) ==
  IF type \in {"TRIO_PAIR", "TRIO_CHAIN_PAIR", "FOUR_DUAL_PAIR"} THEN 2 ELSE 1

(* Point by point of the body, handToPointsArray writes the point and then *)
(* its kicker: a kicker inside the body loses to a body point after it.    *)
handToPointsArray(hand) ==
  [p \in Point |->
     LET at == p - hand.keyPoint
         inBody == at >= 0 /\ at < hand.len
         asKicker == {j \in DOMAIN hand.kicker : hand.kicker[j] = p}
     IN  CASE inBody /\ \A j \in asKicker : j <= at -> BodyWidth(hand.type)
           [] ~(inBody /\ \A j \in asKicker : j <= at) /\ asKicker # {} -> KickerWidth(hand.type)
           [] OTHER -> 0]

(* getHandCount and getCardNumber                                          *)
getHandCount(hand) ==
  BodyWidth(hand.type) * hand.len + KickerWidth(hand.type) * Len(hand.kicker)

(* Is h0 higher than h1? Only bombs are higher than nothing.               *)
isHandHigherThan(h0, h1) ==
  /\ h1.type # "NUKE"
  /\ \/ h0.type = "NUKE"
     \/ h0.type = "BOMB" /\ (h1.type = "BOMB" => h0.keyPoint > h1.keyPoint)
     \/ /\ h1.type # "BOMB" /\ h0.type = h1.type /\ h0.keyPoint > h1.keyPoint
        /\ isChain(h0.type) => h0.len = h1.len
=============================================================================
