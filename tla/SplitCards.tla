----------------------------- MODULE SplitCards -----------------------------
(***************************************************************************)
(* A split of a player's cards as it runs: one step is one routine of the  *)
(* split (see HandSplit), for every deal up to a bound and every split.    *)
(***************************************************************************)
EXTENDS HandSplit

CONSTANTS
  Copies,   \* Bound: how often a point up to CARD_2 may be dealt
  MaxCards, \* Bound: cards dealt (20 in the game)
  Kinds     \* the splits looked at

ASSUME SplitAssumption ==
  /\ Copies \subseteq 0..4
  /\ MaxCards \in Nat
  /\ Kinds \subseteq 1..5
  /\ LastChain + 1 <= 2 * (SoloLen + PairLen)  \* else Optimize may cut a chain to less than nothing

VARIABLES
  dealt,  \* the cards to split
  kind,   \* the split: splitCardsToHandsKind<kind>
  todo,   \* routines of the split still to run
  split   \* the split in work

vars == <<dealt, kind, todo, split>>

Total(points) == FoldFunction(+, 0, points)

Dealt ==
  {p \in {[q \in Point |-> IF q \in Jokers THEN joker[q] ELSE card[q]] :
           card \in {c \in [0..Two -> Copies] : Total(c) <= MaxCards},
           joker \in [Jokers -> {0, 1}]} : Total(p) <= MaxCards}

Init ==
  /\ dealt \in Dealt /\ kind \in Kinds
  /\ \E searchKicker \in BOOLEAN : todo = RoutinesOf(kind, searchKicker)
  /\ split = InWork(dealt, NoHands)

RunRoutine(name) ==
  /\ todo # <<>> /\ Head(todo) = name
  /\ split' = Routine(name, split)
  /\ todo' = Tail(todo)
  /\ UNCHANGED <<dealt, kind>>

Next ==
  \/ RunRoutine("getSoloChain") \/ RunRoutine("getBomb") \/ RunRoutine("getTrio")
  \/ RunRoutine("getTrioChain") \/ RunRoutine("getPairChain")
  \/ RunRoutine("getNormalHand") \/ RunRoutine("findKicker")

Spec == Init /\ [][Next]_vars

-----------------------------------------------------------------------------
(* Properties                                                              *)
cards   == split.cards
handMap == split.handMap

(* The hands are hands, each on the list of its type.                      *)
TypeOK ==
  /\ kind \in 1..5
  /\ cards \in [Point -> Int]
  /\ \A t \in DOMAIN handMap : \A h \in ToSet(handMap[t]) :
       h \in Hand /\ h.type \in (IF t = "BOMB" THEN {"BOMB", "NUKE"} ELSE {t})

AllHands == UNION {{<<t, j>> : j \in DOMAIN handMap[t]} : t \in DOMAIN handMap}
HandAt(x) == handMap[x[1]][x[2]]

(* How often point p is in the hands of a list, and in the hands found.    *)
InList(hands, p) == SumFunction([j \in DOMAIN hands |-> handToPointsArray(hands[j])[p]])
InHands(p) == SumFunction([t \in DOMAIN handMap |-> InList(handMap[t], p)])

(* A routine puts every card it takes into one hand: the hands found and   *)
(* the cards left are the cards dealt. Two cards at most are lost, of the  *)
(* point behind a pair chain: what the loop of getPairChain takes too many.*)
BehindPairChain == {End(h) + 1 : h \in ToSet(Hands(handMap, "PAIR_CHAIN"))}
LostCardsFollowPairChains ==
  \A p \in Point :
    \/ InHands(p) + cards[p] = dealt[p]
    \/ p \in BehindPairChain /\ InHands(p) + cards[p] = dealt[p] - 2

(* The splits for a lord's last card, which look for no pair chains, end   *)
(* with every card in a hand.                                              *)
LastCardSplitIsComplete ==
  kind \in {4, 5} /\ todo = <<>> => \A p \in Point : InHands(p) = dealt[p]

(* Every hand of a finished split is one that getHand takes for the same   *)
(* hand when the cards are on the table. Solo chains are left out: at the  *)
(* scale of the game optimizeSoloChain may cut one too short.              *)
IsPlayable(h) == getHand(handToPointsArray(h)) = h
HandsArePlayable ==
  todo = <<>> => \A x \in AllHands : HandAt(x).type # "SOLO_CHAIN" => IsPlayable(HandAt(x))
=============================================================================
