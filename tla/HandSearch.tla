----------------------------- MODULE HandSearch -----------------------------
(***************************************************************************)
(* How AIUtils searches a split, or the bare points of a player's cards,   *)
(* for a hand.                                                             *)
(***************************************************************************)
EXTENDS HandChoice

Nothing(h)  == h.type = "NOTHING"
IsBomb(h)   == h.type \in {"BOMB", "NUKE"}
Solo(p)     == HandOf("SOLO", {p}, {})
Pair(p)     == HandOf("PAIR", {p}, {})
FirstOr(hands, none) == IF hands = <<>> THEN none ELSE Head(hands)
LowerOrLonger(h, than) ==
  \/ h.keyPoint < than.keyPoint
  \/ h.keyPoint = than.keyPoint /\ getHandCount(h) > getHandCount(than)

(* The best of hands in their order, where Better says whether the next    *)
(* one replaces the one so far.                                            *)
BestOf(hands, Better(_, _)) ==
  FoldLeft(LAMBDA h, next : IF Nothing(h) \/ Better(next, h) THEN next ELSE h, NothingHand, hands)

(* The first hand of each type.                                            *)
Fronts(handMap) ==
  [j \in DOMAIN TypesInOrder |-> FirstOr(Hands(handMap, TypesInOrder[j]), NothingHand)]
FrontHands(handMap) == SelectSeq(Fronts(handMap), LAMBDA h : ~Nothing(h))

findLowestHand(handMap) ==
  BestOf(FrontHands(handMap), LAMBDA next, h : h.type = "BOMB" \/ LowerOrLonger(next, h))

findMostCardsHandNotBomb(handMap) ==
  BestOf(FrontHands(handMap),
         LAMBDA next, h : \/ h.type = "BOMB" \/ getHandCount(next) > getHandCount(h)
                          \/ getHandCount(next) = getHandCount(h) /\ next.keyPoint < h.keyPoint)

(* The comparison by the number of cards is of a hand with itself.         *)
NoSolos(handMap) ==
  SelectSeq(InOrder(handMap), LAMBDA h : ~IsBomb(h) /\ h.type # "SOLO")
findLowestHandNotSolo(handMap) ==
  BestOf(NoSolos(handMap), LAMBDA next, h : next.keyPoint < h.keyPoint)
findLowestHandNotSoloAndNoControl(handMap, lowestControl) ==
  BestOf(SelectSeq(NoSolos(handMap), LAMBDA h : ~containsControl(lowestControl, h)),
         LAMBDA next, h : next.keyPoint < h.keyPoint)
findMostCardsHand(handMap) ==
  BestOf(InOrder(handMap), LAMBDA next, h : IsBomb(h) \/ next.keyPoint < h.keyPoint)

findHigherHandNotBomb(handMap, curHand) ==
  FirstOr(SelectSeq(Hands(handMap, curHand.type),
                    LAMBDA h : /\ h.keyPoint > curHand.keyPoint
                               /\ isChain(curHand.type) => h.len = curHand.len),
          NothingHand)

findHigherHand(handMap, curHand) ==
  LET h == findHigherHandNotBomb(handMap, curHand) IN
  IF Nothing(h) THEN FirstOr(Hands(handMap, "BOMB"), NothingHand) ELSE h

(* Charge hands first; among them, of different types, the one with more   *)
(* hands of its type or with more cards.                                   *)
findChargeHandFirst(handMap, view, typeCountFirst) ==
  LET Charge(h) == isChargeHand(h, view, handMap)
      Size(h) == Len(Hands(handMap, h.type))
      Preferred(next, h) ==
        \/ ~typeCountFirst /\ getHandCount(next) > getHandCount(h)
        \/ typeCountFirst /\ Size(next) > Size(h)
        \/ typeCountFirst /\ Size(next) = Size(h) /\ getHandCount(next) > getHandCount(h)
      Turn(s, next) ==
        CASE Nothing(s.hand) \/ IsBomb(s.hand) ->
               [hand |-> next, charge |-> s.charge \/ Charge(next)]
          [] ~Nothing(s.hand) /\ ~IsBomb(s.hand) /\ IsBomb(next) -> s
          [] OTHER ->
               IF s.charge
               THEN IF Charge(next) /\ next.type # s.hand.type /\ Preferred(next, s.hand)
                    THEN [s EXCEPT !.hand = next] ELSE s
               ELSE IF Charge(next) THEN [hand |-> next, charge |-> TRUE]
               ELSE IF LowerOrLonger(next, s.hand) THEN [s EXCEPT !.hand = next] ELSE s
  IN  FoldLeft(Turn, [hand |-> NothingHand, charge |-> FALSE], InOrder(handMap)).hand

-----------------------------------------------------------------------------
(* The kicker for a trio of point key, found in points, which the trio has *)
(* left: <<>> for none.                                                    *)
SoloKicker(points, handMap, key) ==
  LET chains == Hands(handMap, "SOLO_CHAIN")
      solos == SelectSeq(Hands(handMap, "SOLO"), LAMBDA h : h.keyPoint # key)
      joined == FlattenSeq([j \in DOMAIN chains |->
                  SelectSeq(SubSeq(chains, j + 1, Len(chains)),
                            LAMBDA h : h.keyPoint = End(chains[j]) /\ h.keyPoint # key)])
      long == SelectSeq(chains, LAMBDA h : h.len > SoloLen)
      rest == AtLeast(points, 1) \ {key}
  IN  CASE solos # <<>> -> <<Head(solos).keyPoint>>
        [] solos = <<>> /\ joined # <<>> -> <<Head(joined).keyPoint>>
        [] solos = <<>> /\ joined = <<>> /\ long # <<>> ->
             <<IF Head(long).keyPoint # key THEN Head(long).keyPoint ELSE End(Head(long))>>
        [] OTHER -> IF rest = {} THEN <<>> ELSE <<Min(rest)>>

PairKicker(points, handMap, key) ==
  LET pairs == Hands(handMap, "PAIR")
      chains == Hands(handMap, "PAIR_CHAIN")
      rest == (AtLeast(points, 2) \cap (0..Two)) \ {key}
  IN  CASE pairs # <<>> -> <<Head(pairs).keyPoint>>
        [] pairs = <<>> /\ chains # <<>> /\ Head(chains).len > PairLen -> <<Head(chains).keyPoint>>
        [] OTHER -> IF rest = {} THEN <<>> ELSE <<Min(rest)>>

(* What the n-th solo chain has to spare as kickers of a trio chain: its   *)
(* low end while that, or the n-th solo, is outside the body, else its     *)
(* high end. Bound: a solo that is not there, which the code reads all the *)
(* same, is not above the body.                                            *)
SpareOfChain(h, n, solos, body) ==
  LET above == n <= Len(solos) /\ solos[n].keyPoint > Max(body) IN
  FoldLeft(LAMBDA s, m : IF s.low < Min(body) \/ above
                         THEN [s EXCEPT !.low = @ + 1, !.k = Append(@, s.low)]
                         ELSE [s EXCEPT !.high = @ - 1, !.k = Append(@, s.high)],
           [low |-> h.keyPoint, high |-> End(h), k |-> <<>>], [m \in 1..(h.len - SoloLen) |-> m]).k

(* Kickers of a trio chain: solos outside the body, what solo chains spare,*)
(* then any points from the lowest on, of the body or not, taken or not.   *)
ChainKickers(points, handMap, body) ==
  LET solos == Hands(handMap, "SOLO")
      chains == Hands(handMap, "SOLO_CHAIN")
      outside == SelectSeq(solos, LAMBDA h : h.keyPoint \notin body)
      k == [j \in DOMAIN outside |-> outside[j].keyPoint]
           \o FlattenSeq([n \in DOMAIN chains |-> SpareOfChain(chains[n], n, solos, body)])
           \o Ascending(AtLeast(points, 1))
  IN  IF Len(k) >= Cardinality(body) THEN SubSeq(k, 1, Cardinality(body)) ELSE <<>>

(* A trio chain gets solo kickers and their type whatever it was: its type *)
(* is assigned where it was to be compared.                                *)
findKickerFromPoints(points, view, hand) ==
  LET handMap == sortHandsWithBestKind(points, view, FALSE).handMap
      kicker == CASE hand.type = "TRIO_SOLO" -> SoloKicker(points, handMap, hand.keyPoint)
                  [] hand.type = "TRIO_PAIR" -> PairKicker(points, handMap, hand.keyPoint)
                  [] OTHER -> ChainKickers(points, handMap, hand.keyPoint..End(hand))
  IN  IF kicker = <<>> THEN NothingHand
      ELSE [hand EXCEPT !.kicker = kicker, !.type = IF isChain(@) THEN "TRIO_CHAIN_SOLO" ELSE @]

(* The lowest body of the type of hand that is higher, with new kickers.   *)
(* Bound: four with kickers gets none here where the code leaves what      *)
(* memory held; in no run does a robot hold four that beat another's.      *)
findHigherHandFromPoints(hand, points, view) ==
  LET n == IF hand.type = "NUKE" THEN 4 ELSE BodyWidth(hand.type)
      starts == IF isChain(hand.type)
                THEN {p \in (hand.keyPoint + 1)..(LastChain - hand.len + 1) :
                        \A q \in p..(p + hand.len - 1) : points[q] >= n}
                ELSE {p \in (hand.keyPoint + 1)..RED_JOKER : points[p] >= n}
      higher == ChainOf(hand.type, Min(starts), hand.len)
      rest == Minus(points, higher.keyPoint..End(higher), n)
  IN  CASE starts = {} -> NothingHand
        [] starts # {} /\ hand.type \in {"TRIO_SOLO", "TRIO_PAIR", "TRIO_CHAIN_SOLO", "TRIO_CHAIN_PAIR"} ->
             findKickerFromPoints(rest, view, higher)
        [] OTHER -> higher
=============================================================================
