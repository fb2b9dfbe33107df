----------------------------- MODULE HandSplit -----------------------------
(***************************************************************************)
(* How AIUtils splits a player's cards into hands: the routines that       *)
(* splitCardsToHandsKind1 to Kind5 call in their order. A split in work is *)
(* the cards not yet in a hand and the handMap of the hands found. The     *)
(* domain of a handMap is the keys that were touched, with hands or        *)
(* without: getHandsMapSummary counts them.                                *)
(***************************************************************************)
EXTENDS HandTypes, TLC

Hands(handMap, t) == IF t \in DOMAIN handMap THEN handMap[t] ELSE <<>>
Put(handMap, t, hands) ==
  [u \in DOMAIN handMap \cup {t} |-> IF u = t THEN hands ELSE handMap[u]]
Add(handMap, t, hands) == Put(handMap, t, Hands(handMap, t) \o hands)
Touch(handMap, types) == [t \in DOMAIN handMap \cup types |-> Hands(handMap, t)]

InWork(cards, handMap) == [cards |-> cards, handMap |-> handMap]

(* A chain of len points from key on.                                      *)
ChainOf(type, key, len) == [type |-> type, keyPoint |-> key, len |-> len, kicker |-> <<>>]
End(h) == h.keyPoint + h.len - 1

(* Mutant: the run goes on to CARD_2.                                      *)
RunEndWithTwo(cards, start, n) ==
  Max({e \in start..Two : \A p \in start..e : cards[p] >= n})

(* The last point up to CARD_A of the run of points from start on that     *)
(* each occur at least n times.                                            *)
RunEnd(cards, start, n) ==
  Max({e \in start..LastChain : \A p \in start..e : cards[p] >= n})

(* The starts of these runs, up to point last.                             *)
RunStarts(cards, last, n) ==
  {p \in 0..last : cards[p] >= n /\ (p > 0 => cards[p - 1] < n)}

Minus(cards, points, n) == [p \in Point |-> IF p \in points THEN cards[p] - n ELSE cards[p]]
Empty(cards, points)    == [p \in Point |-> IF p \in points THEN 0 ELSE cards[p]]
Singles(type, points)   == LET ps == Ascending(points) IN [j \in DOMAIN ps |-> HandOf(type, {ps[j]}, {})]
(* The hands of a list that have no key point among points.                *)
Without(hands, points) ==
  LET kept == Ascending({j \in DOMAIN hands : hands[j].keyPoint \notin points})
  IN  [n \in DOMAIN kept |-> hands[kept[n]]]

Count(cards, n)         == {p \in 0..Two : cards[p] = n}
NukePoints(cards)       == IF \A p \in Jokers : cards[p] = 1 THEN Jokers ELSE {}
Nuke(cards)             == IF NukePoints(cards) = {} THEN <<>> ELSE <<HandOf("NUKE", Jokers, {})>>

getBomb(s) ==
  InWork(Empty(s.cards, NukePoints(s.cards) \cup Count(s.cards, 4)),
         Add(s.handMap, "BOMB", Nuke(s.cards) \o Singles("BOMB", Count(s.cards, 4))))

getTrio(s) ==
  InWork(Empty(s.cards, Count(s.cards, 3)), Add(s.handMap, "TRIO", Singles("TRIO", Count(s.cards, 3))))

getTrioChain(s) ==
  LET starts == Ascending({p \in RunStarts(s.cards, LastChain - 1, 3) : RunEnd(s.cards, p, 3) > p})
      chains == [j \in DOMAIN starts |->
                   ChainOf("TRIO_CHAIN", starts[j], RunEnd(s.cards, starts[j], 3) - starts[j] + 1)]
  IN  InWork(Minus(s.cards, UNION {h.keyPoint..End(h) : h \in ToSet(chains)}, 3),
             Add(s.handMap, "TRIO_CHAIN", chains))

(* The ends left of the points from start to end when off[<<b, e>>] is the *)
(* end of b to e to take one off, until it is neither.                     *)
Trimmed(off, start, end) ==
  LET trim[z \in (start..end) \X (start..end)] ==
        CASE off[z] = "upper" -> trim[<<z[1], z[2] - 1>>]
          [] off[z] = "lower" -> trim[<<z[1] + 1, z[2]>>]
          [] OTHER -> z
  IN  trim[<<start, end>>]

(* Where optimizePairChain leaves the pair chain from start to end.        *)
optimizePairChain(cards, start, end) ==
  LET off == [z \in (start..end) \X (start..end) |->
                LET longer == z[2] - z[1] + 1 > PairLen
                    low == cards[z[1]]
                    high == cards[z[2]]
                IN  CASE longer /\ high > low -> "upper"
                      [] longer /\ high <= low /\ low > 2 -> "lower"
                      [] OTHER -> "neither"]
      kept == Trimmed(off, start, end)
  IN  ChainOf("PAIR_CHAIN", kept[1], kept[2] - kept[1] + 1)

(* The loop that removes the pairs runs one point past the chain.          *)
getPairChain(s) ==
  LET starts == Ascending({p \in RunStarts(s.cards, LastChain - PairLen + 1, 2) :
                             RunEnd(s.cards, p, 2) - p + 1 >= PairLen})
      chains == [j \in DOMAIN starts |->
                   optimizePairChain(s.cards, starts[j], RunEnd(s.cards, starts[j], 2))]
  IN  InWork(Minus(s.cards, UNION {h.keyPoint..(End(h) + 1) : h \in ToSet(chains)}, 2),
             Add(s.handMap, "PAIR_CHAIN", chains))

-----------------------------------------------------------------------------
(* Solo chains: found in the shortest length, then joined and trimmed.     *)
Chains(s)            == s.handMap["SOLO_CHAIN"]
SetChains(s, chains) == Put(s.handMap, "SOLO_CHAIN", chains)

(* All the chains of the shortest length that start at point p.            *)
TakeSoloChains(s, p) ==
  LET body == p..(p + SoloLen - 1)
      n == Max({m \in 0..4 : m = 0 \/ \A q \in body : s.cards[q] >= m})
  IN  InWork(Minus(s.cards, body, n),
             SetChains(s, Chains(s) \o [j \in 1..n |-> ChainOf("SOLO_CHAIN", p, SoloLen)]))

findSoloChains(s) ==
  FoldLeft(TakeSoloChains, InWork(s.cards, Touch(s.handMap, {"SOLO_CHAIN"})),
           [j \in 1..(LastChain - SoloLen + 2) |-> j - 1])

Expand(s, k) ==
  LET h == Chains(s)[k]
      end == Max({e \in End(h)..LastChain : \A p \in (End(h) + 1)..e : s.cards[p] > 0})
  IN  InWork(Minus(s.cards, (End(h) + 1)..end, 1),
             SetChains(s, [Chains(s) EXCEPT ![k].len = end - h.keyPoint + 1]))

(* Mutant: the joined chain stays on the list.                             *)
MergeKeepsBoth(s, k) ==
  LET next == {j \in (k + 1)..Len(Chains(s)) : Chains(s)[j].keyPoint = End(Chains(s)[k]) + 1} IN
  IF next = {} THEN s
  ELSE InWork(s.cards, SetChains(s, [Chains(s) EXCEPT ![k].len = @ + Chains(s)[Min(next)].len]))

Merge(s, k) ==
  LET next == {j \in (k + 1)..Len(Chains(s)) : Chains(s)[j].keyPoint = End(Chains(s)[k]) + 1} IN
  IF next = {} THEN s
  ELSE InWork(s.cards, SetChains(s,
         RemoveAt([Chains(s) EXCEPT ![k].len = @ + Chains(s)[Min(next)].len], Min(next))))

(* Mutant: the points cut off are lost.                                    *)
CutLosesCards(s, k, start, end) ==
  InWork(s.cards, SetChains(s, [Chains(s) EXCEPT ![k].keyPoint = start, ![k].len = end - start + 1]))

(* The chain is cut to the points from start to end, the others come back. *)
Cut(s, k, start, end) ==
  LET h == Chains(s)[k] IN
  InWork(Minus(s.cards, (h.keyPoint..End(h)) \ (start..end), -1),
         SetChains(s, [Chains(s) EXCEPT ![k].keyPoint = start, ![k].len = end - start + 1]))

(* Both ends that pair up with other cards are cut off; the upper end is   *)
(* cut by the length of the lower.                                         *)
Optimize(s, k) ==
  LET h == Chains(s)[k]
      most == h.len - SoloLen
      ll == Max({n \in 0..most : \A j \in 0..(n - 1) : s.cards[h.keyPoint + j] > 0})
      hl == Max({n \in 0..most : \A j \in 0..(n - 1) : s.cards[End(h) - j] > 0})
      low == ll >= PairLen /\ (ll >= hl \/ ll + hl <= most)
      high == hl >= PairLen /\ (hl > ll \/ ll + hl <= most)
  IN  IF most < PairLen THEN s
      ELSE Cut(s, k, IF low THEN h.keyPoint + ll ELSE h.keyPoint,
                     IF high THEN End(h) - ll ELSE End(h))

Shorten(s, k) ==
  LET h == Chains(s)[k]
      off == [z \in (h.keyPoint..End(h)) \X (h.keyPoint..End(h)) |->
                LET longer == z[2] - z[1] >= SoloLen
                    low == s.cards[z[1]]
                    high == s.cards[z[2]]
                IN  CASE longer /\ low > 0 /\ low >= high -> "lower"
                      [] longer /\ high > low -> "upper"
                      [] OTHER -> "neither"]
      kept == IF h.len > SoloLen THEN Trimmed(off, h.keyPoint, End(h)) ELSE <<h.keyPoint, End(h)>>
  IN  Cut(s, k, kept[1], kept[2])

ChainTurn(name, s, k) ==
  CASE name = "expand" -> Expand(s, k)
    [] name = "merge" -> Merge(s, k)
    [] name = "optimize" -> Optimize(s, k)
    [] name = "shorten" -> Shorten(s, k)

(* A loop over the solo chains, which a turn may make fewer.               *)
OverChains(name, s) ==
  FoldLeft(LAMBDA t, k : IF k <= Len(Chains(t)) THEN ChainTurn(name, t, k) ELSE t,
           s, [k \in DOMAIN Chains(s) |-> k])

expandSoloChain(s)   == OverChains("merge", OverChains("expand", s))
optimizeSoloChain(s) == OverChains("shorten", OverChains("optimize", s))
getSoloChain(s)      == optimizeSoloChain(expandSoloChain(findSoloChains(s)))

-----------------------------------------------------------------------------
(* What is left becomes bombs, trios, pairs and solos.                     *)
getNormalHand(s) ==
  LET cards == s.cards
      found == [BOMB |-> Nuke(cards) \o Singles("BOMB", Count(cards, 4)),
                TRIO |-> Singles("TRIO", Count(cards, 3)),
                PAIR |-> Singles("PAIR", Count(cards, 2)),
                SOLO |-> Singles("SOLO", {p \in Point \ NukePoints(cards) : cards[p] = 1})]
      more == {t \in DOMAIN found : found[t] # <<>>}
  IN  InWork([p \in Point |-> IF cards[p] \in 1..4 THEN 0 ELSE cards[p]],
             [t \in DOMAIN s.handMap \cup more |->
                Hands(s.handMap, t) \o (IF t \in more THEN found[t] ELSE <<>>)])

(* Mutant: the hand with kickers keeps the type of the bare hand.          *)
AttachKeepsType(handMap, body, kickers, from, to) ==
  LET points == [j \in DOMAIN kickers |-> kickers[j].keyPoint] IN
  Add([handMap EXCEPT ![body] = Tail(@),
                      ![from] = Without(@, ToSet(points))],
      to, <<[Head(handMap[body]) EXCEPT !.kicker = points]>>)

(* findKickerForTrioOrTrioChain: the first trio chain or trio takes its    *)
(* kickers of type from the hands of that type.                            *)
Attach(handMap, body, kickers, from, to) ==
  LET points == [j \in DOMAIN kickers |-> kickers[j].keyPoint] IN
  Add([handMap EXCEPT ![body] = Tail(@),
                      ![from] = Without(@, ToSet(points))],
      to, <<[Head(handMap[body]) EXCEPT !.type = to, !.kicker = points]>>)

kickTrioChain(handMap) ==
  IF handMap["TRIO_CHAIN"] = <<>> THEN handMap ELSE
  LET chain == Head(handMap["TRIO_CHAIN"])
      touched == Touch(handMap, {"SOLO"})
      solos == touched["SOLO"]
      useful == Without(solos, chain.keyPoint..End(chain))
      jokers == Cardinality({k \in ToSet(solos) : k.keyPoint \in Jokers})
      pairs == Hands(handMap, "PAIR")
  IN  CASE Len(useful) - (IF jokers = 2 THEN 2 ELSE 0) >= chain.len ->
             Attach(touched, "TRIO_CHAIN", SubSeq(useful, 1, chain.len), "SOLO", "TRIO_CHAIN_SOLO")
        [] Len(useful) - (IF jokers = 2 THEN 2 ELSE 0) < chain.len /\ Len(pairs) >= chain.len ->
             Attach(touched, "TRIO_CHAIN", SubSeq(pairs, 1, chain.len), "PAIR", "TRIO_CHAIN_PAIR")
        [] OTHER -> Touch(touched, {"PAIR"})

kickTrio(handMap) ==
  IF handMap["TRIO"] = <<>> THEN handMap ELSE
  LET touched == Touch(handMap, {"SOLO", "PAIR"})
      solos == touched["SOLO"]
      pairs == touched["PAIR"]
      paired == solos # <<>> => pairs # <<>> /\ Head(pairs).keyPoint < Head(solos).keyPoint
  IN  CASE solos = <<>> /\ pairs = <<>> -> touched
        [] solos # <<>> /\ ~paired -> Attach(touched, "TRIO", <<Head(solos)>>, "SOLO", "TRIO_SOLO")
        [] OTHER -> Attach(touched, "TRIO", <<Head(pairs)>>, "PAIR", "TRIO_PAIR")

(* The loops end where a turn finds no kickers: more turns change nothing. *)
findKickerForTrioOrTrioChain(s) ==
  LET start == Touch(s.handMap, {"TRIO_CHAIN", "TRIO"})
      chained == FoldLeft(LAMBDA m, chain : kickTrioChain(m), start, start["TRIO_CHAIN"])
  IN  InWork(s.cards, FoldLeft(LAMBDA m, trio : kickTrio(m), chained, chained["TRIO"]))

-----------------------------------------------------------------------------
(* The five splits.                                                        *)
Routine(name, s) ==
  CASE name = "getSoloChain" -> getSoloChain(s)
    [] name = "getBomb" -> getBomb(s)
    [] name = "getTrio" -> getTrio(s)
    [] name = "getTrioChain" -> getTrioChain(s)
    [] name = "getPairChain" -> getPairChain(s)
    [] name = "getNormalHand" -> getNormalHand(s)
    [] name = "findKicker" -> findKickerForTrioOrTrioChain(s)

Routines ==
  << <<"getSoloChain", "getBomb", "getTrioChain", "getPairChain", "getNormalHand">>,
     <<"getBomb", "getTrioChain", "getSoloChain", "getPairChain", "getNormalHand">>,
     <<"getSoloChain", "getBomb", "getPairChain", "getTrioChain", "getNormalHand">>,
     <<"getSoloChain", "getBomb", "getNormalHand">>,
     <<"getBomb", "getTrio", "getSoloChain", "getNormalHand">> >>

RoutinesOf(kind, searchKicker) ==
  Routines[kind] \o (IF searchKicker THEN <<"findKicker">> ELSE <<>>)

NoHands == [t \in {} |-> <<>>]

splitCardsToHands(kind, points, searchKicker) ==
  FoldLeft(LAMBDA s, name : Routine(name, s), InWork(points, NoHands), RoutinesOf(kind, searchKicker)).handMap
=============================================================================
