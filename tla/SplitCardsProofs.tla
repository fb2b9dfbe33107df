-------------------------- MODULE SplitCardsProofs --------------------------
(***************************************************************************)
(* A split keeps the cards it is given: theorems about SplitCards for      *)
(* every size of the game and every deal.                                  *)
(*                                                                         *)
(* The lemmas go up from sums over finite sets to the count of a point in  *)
(* a list of hands, in a map of lists, and then through the routines of    *)
(* HandSplit one by one: what each takes off the cards it puts into hands. *)
(* Where a routine is a fold or a recursive function, the lemma unfolds it *)
(* to a function on sets and takes a smallest counterexample. The          *)
(* invariant adds, to the count of the cards, what the routines still to   *)
(* run may rely on.                                                        *)
(***************************************************************************)
EXTENDS SplitCards, HandTypesProofs, FunctionTheorems, SequenceTheorems

-----------------------------------------------------------------------------
(* Sums over finite sets                                                   *)

(* A sum of zeros is zero.                                                 *)
LEMMA SumOfZeros ==
  ASSUME NEW S, IsFiniteSet(S), NEW f, \A x \in S : f[x] = 0
  PROVE  SumFunctionOnSet(f, S) = 0
  <1>1. \A x \in S : f[x] \in Int /\ f[x] = f[x] - f[x]
    OBVIOUS
  <1>2. SumFunctionOnSet(f, S) = SumFunctionOnSet(f, S) - SumFunctionOnSet(f, S)
    BY <1>1, SumLinear
  <1>3. SumFunctionOnSet(f, S) \in Int
    BY <1>1, SumType
  <1> QED  BY <1>2, <1>3

(* A sum depends on the function at the points of the set only.            *)
LEMMA SumCongruence ==
  ASSUME NEW S, IsFiniteSet(S), NEW f, NEW g, \A x \in S : f[x] \in Int /\ g[x] = f[x]
  PROVE  SumFunctionOnSet(g, S) = SumFunctionOnSet(f, S)
  <1> DEFINE z == [x \in S |-> 0]
  <1>1. SumFunctionOnSet(z, S) = 0
    BY SumOfZeros
  <1>2. \A x \in S : f[x] \in Int /\ z[x] \in Int /\ g[x] = f[x] - z[x]
    OBVIOUS
  <1> HIDE DEF z
  <1>3. SumFunctionOnSet(g, S) = SumFunctionOnSet(f, S) - SumFunctionOnSet(z, S)
    BY <1>2, SumLinear
  <1>4. SumFunctionOnSet(f, S) \in Int
    BY <1>2, SumType
  <1> QED  BY <1>1, <1>3, <1>4

(* A sum with one term that is not zero is that term.                      *)
LEMMA SumOfOne ==
  ASSUME NEW S, IsFiniteSet(S), NEW f, NEW x \in S, f[x] \in Int, \A y \in S : y # x => f[y] = 0
  PROVE  SumFunctionOnSet(f, S) = f[x]
  <1>1. \A y \in S : f[y] \in Int
    OBVIOUS
  <1>2. IsFiniteSet(S \ {x}) /\ \A y \in S \ {x} : f[y] = 0
    BY FS_Subset
  <1>3. SumFunctionOnSet(f, S \ {x}) = 0
    BY <1>2, SumOfZeros
  <1>4. SumFunctionOnSet(f, S) = f[x] + SumFunctionOnSet(f, S \ {x})
    BY <1>1, SumStep
  <1> QED  BY <1>3, <1>4

(* The sum over two disjoint sets is the sum of the sums.                  *)
LEMMA SumOfUnion ==
  ASSUME NEW S, IsFiniteSet(S), NEW T, IsFiniteSet(T), S \cap T = {},
         NEW f, \A x \in S \cup T : f[x] \in Int
  PROVE  SumFunctionOnSet(f, S \cup T) = SumFunctionOnSet(f, S) + SumFunctionOnSet(f, T)
  <1> DEFINE Good(U) == SumFunctionOnSet(f, S \cup U) = SumFunctionOnSet(f, S) + SumFunctionOnSet(f, U)
             Bad == {U \in SUBSET T : ~Good(U)}
  <1>1. Bad = {}
    <2> SUFFICES ASSUME Bad # {}  PROVE FALSE
      OBVIOUS
    <2>1. PICK U \in Bad : \A V \in Bad : V \subseteq U => V = U
      <3>1. Bad \in SUBSET SUBSET T
        OBVIOUS
      <3> HIDE DEF Bad
      <3> QED  BY <3>1, SmallestFinite
    <2>2. U \in SUBSET T /\ ~Good(U)
      OBVIOUS
    <2>3. SumFunctionOnSet(f, S) \in Int
      BY SumType
    <2>4. U # {}
      <3>1. SumFunctionOnSet(f, {}) = 0 /\ S \cup {} = S
        BY SumEmpty
      <3>2. Good({})
        BY <2>3, <3>1
      <3> HIDE DEF Good, Bad
      <3> QED  BY <2>2, <3>2
    <2>5. PICK x \in U : TRUE
      BY <2>4
    <2>6. Good(U \ {x})
      <3>1. U \ {x} \in SUBSET T /\ U \ {x} \subseteq U /\ U \ {x} # U
        BY <2>2, <2>5
      <3>2. U \ {x} \notin Bad
        <4> HIDE DEF Bad
        <4> QED  BY <2>1, <3>1
      <3> HIDE DEF Good
      <3> QED  BY <3>1, <3>2
    <2> HIDE DEF Bad
    <2>7. /\ IsFiniteSet(U) /\ IsFiniteSet(S \cup U)
          /\ \A y \in U : f[y] \in Int
          /\ \A y \in S \cup U : f[y] \in Int
      BY <2>2, FS_Subset, FS_Union
    <2>8. (S \cup U) \ {x} = S \cup (U \ {x}) /\ x \in S \cup U
      BY <2>2, <2>5
    <2>9. /\ SumFunctionOnSet(f, U \ {x}) \in Int
          /\ SumFunctionOnSet(f, U) = f[x] + SumFunctionOnSet(f, U \ {x})
      BY <2>7, <2>5, SumStep
    <2>10. SumFunctionOnSet(f, S \cup U) = f[x] + SumFunctionOnSet(f, (S \cup U) \ {x})
      BY <2>7, <2>8, SumStep
    <2>11. f[x] \in Int
      BY <2>7
    <2>12. Good(U)
      <3> DEFINE a == SumFunctionOnSet(f, S)
                 u == SumFunctionOnSet(f, U \ {x})
                 v == f[x]
      <3>1. a \in Int /\ u \in Int /\ v \in Int
        BY <2>3, <2>9, <2>11
      <3>2. SumFunctionOnSet(f, S \cup U) = v + (a + u) /\ SumFunctionOnSet(f, U) = v + u
        BY <2>6, <2>8, <2>9, <2>10
      <3>3. v + (a + u) = a + (v + u)
        <4> HIDE DEF a, u, v
        <4> QED  BY <3>1
      <3> QED  BY <3>2, <3>3
    <2> QED  BY <2>2, <2>12
  <1>2. T \notin Bad /\ T \in SUBSET T
    BY <1>1
  <1> QED  BY <1>2

(* A sum does not change when the points are renamed one to one.           *)
LEMMA SumOfRenamed ==
  ASSUME NEW S, IsFiniteSet(S), NEW b, NEW f, NEW g,
         \A x, y \in S : b[x] = b[y] => x = y,
         \A x \in S : f[x] \in Int /\ g[b[x]] = f[x]
  PROVE  SumFunctionOnSet(g, {b[x] : x \in S}) = SumFunctionOnSet(f, S)
  <1> DEFINE Im(U) == {b[x] : x \in U}
             Good(U) == SumFunctionOnSet(g, Im(U)) = SumFunctionOnSet(f, U)
             Bad == {U \in SUBSET S : ~Good(U)}
  <1>1. Bad = {}
    <2> SUFFICES ASSUME Bad # {}  PROVE FALSE
      OBVIOUS
    <2>1. PICK U \in Bad : \A V \in Bad : V \subseteq U => V = U
      <3>1. Bad \in SUBSET SUBSET S
        OBVIOUS
      <3> HIDE DEF Bad
      <3> QED  BY <3>1, SmallestFinite
    <2>2. U \in SUBSET S /\ ~Good(U)
      OBVIOUS
    <2>4. U # {}
      <3>1. SumFunctionOnSet(f, {}) = 0 /\ SumFunctionOnSet(g, {}) = 0 /\ Im({}) = {}
        BY SumEmpty
      <3>2. Good({})
        BY <3>1
      <3> HIDE DEF Good, Bad
      <3> QED  BY <2>2, <3>2
    <2>5. PICK x \in U : TRUE
      BY <2>4
    <2>6. Good(U \ {x})
      <3>1. U \ {x} \in SUBSET S /\ U \ {x} \subseteq U /\ U \ {x} # U
        BY <2>2, <2>5
      <3>2. U \ {x} \notin Bad
        <4> HIDE DEF Bad
        <4> QED  BY <2>1, <3>1
      <3> HIDE DEF Good
      <3> QED  BY <3>1, <3>2
    <2> HIDE DEF Bad
    <2>7. IsFiniteSet(U) /\ \A y \in U : f[y] \in Int
      BY <2>2, FS_Subset
    <2>a. IsFiniteSet(Im(U)) 
      <3>1. [y \in U |-> b[y]] \in Surjection(U, Im(U))
        BY DEF Surjection
      <3> HIDE DEF Im
      <3> QED  BY <2>7, <3>1, FS_Surjection
    <2>b. \A z \in Im(U) : g[z] \in Int
      BY <2>2
    <2>8. Im(U) \ {b[x]} = Im(U \ {x}) /\ b[x] \in Im(U)
      BY <2>2, <2>5
    <2>9. SumFunctionOnSet(f, U) = f[x] + SumFunctionOnSet(f, U \ {x})
      BY <2>7, <2>5, SumStep
    <2> HIDE DEF Im
    <2>10. SumFunctionOnSet(g, Im(U)) = g[b[x]] + SumFunctionOnSet(g, Im(U) \ {b[x]})
      BY <2>a, <2>b, <2>8, SumStep
    <2>11. g[b[x]] = f[x]
      BY <2>2, <2>5
    <2>12. Good(U)
      BY <2>6, <2>8, <2>9, <2>10, <2>11
    <2> QED  BY <2>2, <2>12
  <1>2. S \notin Bad /\ S \in SUBSET S
    BY <1>1
  <1> QED  BY <1>2
-----------------------------------------------------------------------------
(* How often a point is in a list of hands                                 *)

(* How often a hand has point p; the same for each hand of a list; the     *)
(* lists of hands.                                                         *)
Pts(h, p) == handToPointsArray(h)[p]
PtsOf(hands, p) == [j \in DOMAIN hands |-> handToPointsArray(hands[j])[p]]
Lists == Seq(Hand)

(* No hand counts a point more than four times.                            *)
LEMMA PtsType ==
  ASSUME NEW h, NEW p \in Point
  PROVE  Pts(h, p) \in 0..4 /\ Pts(h, p) \in Nat /\ Pts(h, p) \in Int
  <1>1. Pts(h, p) \in 0..4
    BY PointsOfAHand DEF Pts
  <1> HIDE DEF Pts
  <1> QED  BY <1>1

(* InList is the sum, over the places of the list, of what each hand has   *)
(* of the point.                                                           *)
LEMMA InListIsSum ==
  ASSUME NEW hands \in Lists, NEW p \in Point
  PROVE  /\ DOMAIN hands = 1..Len(hands) /\ Len(hands) \in Nat /\ IsFiniteSet(1..Len(hands))
         /\ DOMAIN PtsOf(hands, p) = 1..Len(hands)
         /\ InList(hands, p) = SumFunctionOnSet(PtsOf(hands, p), 1..Len(hands))
         /\ \A j \in 1..Len(hands) : /\ PtsOf(hands, p)[j] = Pts(hands[j], p)
                                     /\ PtsOf(hands, p)[j] \in Nat
         /\ InList(hands, p) \in Nat
  <1>1. DOMAIN hands = 1..Len(hands) /\ Len(hands) \in Nat
    BY DEF Lists
  <1>2. IsFiniteSet(1..Len(hands))
    BY <1>1, FS_Interval
  <1>3. InList(hands, p) = SumFunctionOnSet(PtsOf(hands, p), 1..Len(hands))
    BY <1>1 DEF InList, SumFunction, PtsOf
  <1>4. \A j \in 1..Len(hands) : PtsOf(hands, p)[j] = Pts(hands[j], p)
    BY <1>1 DEF PtsOf, Pts
  <1>5. \A j \in 1..Len(hands) : PtsOf(hands, p)[j] \in Nat
    BY <1>4, PtsType
  <1>6. InList(hands, p) \in Nat
    <2> DEFINE f == PtsOf(hands, p)
    <2>1. \A j \in 1..Len(hands) : f[j] \in Nat
      BY <1>5
    <2> HIDE DEF f
    <2>2. SumFunctionOnSet(f, 1..Len(hands)) \in Nat
      BY <1>2, <2>1, SumNatural
    <2> QED  BY <1>3, <2>2 DEF f
  <1> QED  BY <1>1, <1>2, <1>3, <1>4, <1>5, <1>6 DEF PtsOf

(* No hands, no cards.                                                     *)
LEMMA InListOfNone == \A p : InList(<<>>, p) = 0
  <1> SUFFICES ASSUME NEW p  PROVE InList(<<>>, p) = 0
    OBVIOUS
  <1>1. InList(<<>>, p) = SumFunctionOnSet(PtsOf(<<>>, p), {})
    BY DEF InList, SumFunction, PtsOf
  <1> QED  BY <1>1, SumEmpty

(* Two lists joined have the cards of both.                                *)
LEMMA InListOfTwo ==
  ASSUME NEW a \in Lists, NEW b \in Lists, NEW p \in Point
  PROVE  a \o b \in Lists /\ InList(a \o b, p) = InList(a, p) + InList(b, p)
  <1> DEFINE m == Len(a)
             n == Len(b)
             f == PtsOf(a, p)
             g == PtsOf(b, p)
             h == PtsOf(a \o b, p)
             later == {[j \in 1..n |-> m + j][x] : x \in 1..n}
  <1>1. a \o b \in Lists /\ Len(a \o b) = m + n
    BY ConcatProperties DEF Lists
  <1>2. /\ m \in Nat /\ n \in Nat /\ IsFiniteSet(1..m) /\ IsFiniteSet(1..n)
        /\ InList(a, p) = SumFunctionOnSet(f, 1..m)
        /\ InList(b, p) = SumFunctionOnSet(g, 1..n)
        /\ InList(a \o b, p) = SumFunctionOnSet(h, 1..(m + n))
        /\ \A j \in 1..m : f[j] = Pts(a[j], p) /\ f[j] \in Nat
        /\ \A j \in 1..n : g[j] = Pts(b[j], p) /\ g[j] \in Nat
        /\ \A j \in 1..(m + n) : h[j] = Pts((a \o b)[j], p) /\ h[j] \in Nat
    BY <1>1, InListIsSum
  <1>3. \A j \in 1..m : h[j] = f[j]
    <2>1. \A j \in 1..m : j \in 1..(m + n) /\ (a \o b)[j] = a[j]
      BY <1>2, ConcatProperties DEF Lists
    <2> HIDE DEF f, h, m, n
    <2> QED  BY <1>2, <2>1
  <1>4. \A j \in 1..n : h[m + j] = g[j]
    <2>1. \A j \in 1..n : m + j \in 1..(m + n) /\ (a \o b)[m + j] = b[j]
      BY <1>2, ConcatProperties DEF Lists
    <2> HIDE DEF g, h, m, n
    <2> QED  BY <1>2, <2>1
  <1>5. later = (m + 1)..(m + n)
    <2> HIDE DEF m, n
    <2>1. \A x \in 1..n : [j \in 1..n |-> m + j][x] = m + x
      OBVIOUS
    <2>2. \A y \in (m + 1)..(m + n) : y - m \in 1..n /\ m + (y - m) = y
      BY <1>2
    <2>3. \A x \in 1..n : m + x \in (m + 1)..(m + n)
      BY <1>2
    <2> QED  BY <2>1, <2>2, <2>3
  <1>6. SumFunctionOnSet(h, 1..m) = SumFunctionOnSet(f, 1..m)
    <2>1. \A j \in 1..m : f[j] \in Int /\ h[j] = f[j]
      BY <1>2, <1>3
    <2> HIDE DEF f, h, m
    <2> QED  BY <1>2, <2>1, SumCongruence
  <1>7. SumFunctionOnSet(h, later) = SumFunctionOnSet(g, 1..n)
    <2> DEFINE up == [j \in 1..n |-> m + j]
    <2>1. \A x \in 1..n : up[x] = m + x
      OBVIOUS
    <2> HIDE DEF g, h, m, n, up
    <2>2. \A x, y \in 1..n : up[x] = up[y] => x = y
      BY <2>1, <1>2
    <2>3. \A x \in 1..n : g[x] \in Int /\ h[up[x]] = g[x]
      BY <2>1, <1>2, <1>4
    <2>4. SumFunctionOnSet(h, {up[x] : x \in 1..n}) = SumFunctionOnSet(g, 1..n)
      <3>1. IsFiniteSet(1..n)
        BY <1>2
      <3> DEFINE D == 1..n
      <3>2. IsFiniteSet(D) /\ \A x, y \in D : up[x] = up[y] => x = y
        BY <3>1, <2>2
      <3>3. \A x \in D : g[x] \in Int /\ h[up[x]] = g[x]
        BY <2>3
      <3> HIDE DEF D
      <3>4. SumFunctionOnSet(h, {up[x] : x \in D}) = SumFunctionOnSet(g, D)
        BY <3>2, <3>3, SumOfRenamed
      <3> QED  BY <3>4 DEF D
    <2> QED  BY <2>4 DEF up
  <1>8. SumFunctionOnSet(h, (1..m) \cup later) = SumFunctionOnSet(h, 1..m) + SumFunctionOnSet(h, later)
    <2>1. IsFiniteSet(later) /\ (1..m) \cap later = {} /\ (1..m) \cup later = 1..(m + n)
      <3> HIDE DEF m, n, later
      <3>1. IsFiniteSet((m + 1)..(m + n))
        BY <1>2, FS_Interval
      <3>2. \A x : x \in (1..m) \cup ((m + 1)..(m + n)) <=> x \in 1..(m + n)
        BY <1>2
      <3>3. \A x \in 1..m : x \notin (m + 1)..(m + n)
        BY <1>2
      <3> QED  BY <1>5, <3>1, <3>2, <3>3
    <2>2. \A x \in (1..m) \cup later : h[x] \in Int
      <3> HIDE DEF h, m, n, later
      <3> QED  BY <2>1, <1>2
    <2> HIDE DEF h, m, n, later
    <2> QED  BY <1>2, <2>1, <2>2, SumOfUnion
  <1>9. (1..m) \cup later = 1..(m + n)
    <2> HIDE DEF m, n, later
    <2>1. \A x : x \in (1..m) \cup ((m + 1)..(m + n)) <=> x \in 1..(m + n)
      BY <1>2
    <2> QED  BY <1>5, <2>1
  <1> HIDE DEF f, g, h, m, n, later
  <1> QED  BY <1>1, <1>2, <1>6, <1>7, <1>8, <1>9

(* Replacing one hand changes the count by the difference of the two       *)
(* hands.                                                                  *)
LEMMA InListReplaced ==
  ASSUME NEW a \in Lists, NEW k \in 1..Len(a), NEW x \in Hand, NEW p \in Point
  PROVE  /\ [a EXCEPT ![k] = x] \in Lists /\ Len([a EXCEPT ![k] = x]) = Len(a)
         /\ InList([a EXCEPT ![k] = x], p) = InList(a, p) - Pts(a[k], p) + Pts(x, p)
  <1> DEFINE b == [a EXCEPT ![k] = x]
             n == Len(a)
             f == PtsOf(a, p)
             g == PtsOf(b, p)
             S == (1..n) \ {k}
  <1>1. b \in Lists /\ Len(b) = n /\ \A j \in 1..n : b[j] = IF j = k THEN x ELSE a[j]
    BY ExceptSeq DEF Lists
  <1> HIDE DEF b
  <1>2. /\ n \in Nat /\ IsFiniteSet(1..n)
        /\ InList(a, p) = SumFunctionOnSet(f, 1..n)
        /\ InList(b, p) = SumFunctionOnSet(g, 1..n)
        /\ \A j \in 1..n : f[j] = Pts(a[j], p) /\ f[j] \in Nat
        /\ \A j \in 1..n : g[j] = Pts(b[j], p) /\ g[j] \in Nat
    BY <1>1, InListIsSum
  <1>3. k \in 1..n
    OBVIOUS
  <1> HIDE DEF f, g, n
  <1>4. SumFunctionOnSet(g, S) = SumFunctionOnSet(f, S)
    <2>1. IsFiniteSet(S) /\ \A j \in S : f[j] \in Int /\ g[j] = f[j]
      BY <1>1, <1>2, FS_Subset
    <2> HIDE DEF S
    <2> QED  BY <2>1, SumCongruence
  <1>5. /\ SumFunctionOnSet(f, S) \in Int
        /\ SumFunctionOnSet(f, 1..n) = f[k] + SumFunctionOnSet(f, S)
    <2>1. \A j \in 1..n : f[j] \in Int
      BY <1>2
    <2> QED  BY <1>2, <1>3, <2>1, SumStep
  <1>6. SumFunctionOnSet(g, 1..n) = g[k] + SumFunctionOnSet(g, S)
    <2>1. \A j \in 1..n : g[j] \in Int
      BY <1>2
    <2> QED  BY <1>2, <1>3, <2>1, SumStep
  <1>7. f[k] = Pts(a[k], p) /\ g[k] = Pts(x, p) /\ f[k] \in Nat /\ g[k] \in Nat
    BY <1>1, <1>2, <1>3
  <1>8. InList(b, p) = InList(a, p) - Pts(a[k], p) + Pts(x, p)
    <2> DEFINE r == SumFunctionOnSet(f, S)
               c == f[k]
               d == g[k]
    <2>1. r \in Int /\ c \in Nat /\ d \in Nat /\ InList(b, p) = d + r /\ InList(a, p) = c + r
      BY <1>2, <1>4, <1>5, <1>6, <1>7
    <2>2. c = Pts(a[k], p) /\ d = Pts(x, p)
      BY <1>7
    <2> HIDE DEF r, c, d
    <2> QED  BY <2>1, <2>2
  <1> QED  BY <1>1, <1>8 DEF b, n

(* RemoveAt takes one hand's cards off the count and moves the later hands *)
(* down.                                                                   *)
LEMMA InListRemoved ==
  ASSUME NEW a \in Lists, NEW k \in 1..Len(a), NEW p \in Point
  PROVE  /\ RemoveAt(a, k) \in Lists /\ Len(RemoveAt(a, k)) = Len(a) - 1
         /\ \A j \in 1..(Len(a) - 1) : RemoveAt(a, k)[j] = IF j < k THEN a[j] ELSE a[j + 1]
         /\ InList(RemoveAt(a, k), p) = InList(a, p) - Pts(a[k], p)
  <1> DEFINE n == Len(a)
             b == SubSeq(a, 1, k - 1)
             c == SubSeq(a, k + 1, n)
  <1>0. n \in Nat /\ k \in Nat /\ 1 <= k /\ k <= n /\ \A i \in 1..n : a[i] \in Hand
    BY DEF Lists
  <1>1. b \in Lists /\ Len(b) = k - 1 /\ \A i \in 1..(k - 1) : b[i] = a[i]
    <2>1. \A i \in 1..(k - 1) : a[i] \in Hand
      <3> HIDE DEF n
      <3> QED  BY <1>0
    <2>2. SubSeq(a, 1, k - 1) \in Seq(Hand) /\ Len(SubSeq(a, 1, k - 1)) = k - 1
          /\ \A i \in 1..(k - 1) : SubSeq(a, 1, k - 1)[i] = a[i]
      <3> HIDE DEF n
      <3> QED  BY <1>0, <2>1, SubSeqProperties
    <2> QED  BY <2>2 DEF Lists
  <1>2. c \in Lists /\ Len(c) = n - k /\ \A i \in 1..(n - k) : c[i] = a[k + i]
    <2>1. \A i \in (k + 1)..n : a[i] \in Hand
      <3> HIDE DEF n
      <3> QED  BY <1>0
    <2>2. SubSeq(a, k + 1, n) \in Seq(Hand) /\ Len(SubSeq(a, k + 1, n)) = n - k
          /\ \A i \in 1..(n - k) : SubSeq(a, k + 1, n)[i] = a[k + i]
      <3> HIDE DEF n
      <3> QED  BY <1>0, <2>1, SubSeqProperties
    <2> QED  BY <2>2 DEF Lists
  <1>3. RemoveAt(a, k) = b \o c
    BY DEF RemoveAt
  <1> DEFINE f == PtsOf(a, p)
             g == PtsOf(b \o c, p)
             S == (1..n) \ {k}
             down == [j \in S |-> IF j < k THEN j ELSE j - 1]
  <1> HIDE DEF b, c
  <1>4. b \o c \in Lists /\ Len(b \o c) = n - 1
        /\ \A j \in 1..(n - 1) : (b \o c)[j] = IF j < k THEN a[j] ELSE a[j + 1]
    <2> HIDE DEF n
    <2>1. b \o c \in Lists /\ Len(b \o c) = n - 1
      <3>1. b \o c \in Lists /\ Len(b \o c) = Len(b) + Len(c)
        BY <1>1, <1>2, ConcatProperties DEF Lists
      <3> QED  BY <3>1, <1>0, <1>1, <1>2
    <2>2. \A j \in 1..(n - 1) : (b \o c)[j] = IF j <= k - 1 THEN b[j] ELSE c[j - (k - 1)]
      BY <1>0, <1>1, <1>2, ConcatProperties DEF Lists
    <2>3. \A j \in 1..(n - 1) : j < k => (j <= k - 1 /\ j \in 1..(k - 1))
      BY <1>0
    <2>4. \A j \in 1..(n - 1) : ~(j < k) => (~(j <= k - 1) /\ j - (k - 1) \in 1..(n - k) /\ k + (j - (k - 1)) = j + 1)
      BY <1>0
    <2>5. \A j \in 1..(n - 1) : (b \o c)[j] = IF j < k THEN a[j] ELSE a[j + 1]
      BY <1>1, <1>2, <2>2, <2>3, <2>4
    <2> QED  BY <2>1, <2>5
  <1>5. /\ IsFiniteSet(1..n)
        /\ InList(a, p) = SumFunctionOnSet(f, 1..n)
        /\ InList(b \o c, p) = SumFunctionOnSet(g, 1..(n - 1))
        /\ \A j \in 1..n : f[j] = Pts(a[j], p) /\ f[j] \in Nat
        /\ \A j \in 1..(n - 1) : g[j] = Pts((b \o c)[j], p) /\ g[j] \in Nat
    <2>1. /\ IsFiniteSet(1..n)
          /\ InList(a, p) = SumFunctionOnSet(f, 1..n)
          /\ \A j \in 1..n : f[j] = Pts(a[j], p) /\ f[j] \in Nat
      BY InListIsSum
    <2>2. /\ InList(b \o c, p) = SumFunctionOnSet(g, 1..(n - 1))
          /\ \A j \in 1..(n - 1) : g[j] = Pts((b \o c)[j], p) /\ g[j] \in Nat
      <3> HIDE DEF n
      <3> QED  BY <1>4, InListIsSum
    <2> QED  BY <2>1, <2>2
  <1> HIDE DEF f, g, n
  <1>6. {down[x] : x \in S} = 1..(n - 1)
    <2>1. \A x \in S : down[x] \in 1..(n - 1)
      BY <1>0
    <2>2. \A y \in 1..(n - 1) : y < k => (y \in S /\ down[y] = y)
      BY <1>0
    <2>3. \A y \in 1..(n - 1) : ~(y < k) => (y + 1 \in S /\ down[y + 1] = y)
      BY <1>0
    <2> HIDE DEF down, S
    <2> QED  BY <2>1, <2>2, <2>3
  <1>7. SumFunctionOnSet(g, {down[x] : x \in S}) = SumFunctionOnSet(f, S)
    <2>1. IsFiniteSet(S)
      BY <1>5, FS_Subset
    <2>2. \A x, y \in S : down[x] = down[y] => x = y
      BY <1>0
    <2>3. \A x \in S : f[x] \in Int /\ f[x] = Pts(a[x], p)
      BY <1>5
    <2>4. \A x \in S : down[x] \in 1..(n - 1) /\ (b \o c)[down[x]] = a[x]
      <3> SUFFICES ASSUME NEW x \in S  PROVE down[x] \in 1..(n - 1) /\ (b \o c)[down[x]] = a[x]
        OBVIOUS
      <3>1. down[x] \in 1..(n - 1) /\ IF x < k THEN down[x] = x /\ down[x] < k ELSE down[x] + 1 = x /\ ~(down[x] < k)
        BY <1>0
      <3> HIDE DEF down
      <3> QED  BY <3>1, <1>4
    <2> HIDE DEF down, S
    <2>5. \A x \in S : f[x] \in Int /\ g[down[x]] = f[x]
      BY <1>5, <2>3, <2>4
    <2> QED  BY <2>1, <2>2, <2>5, SumOfRenamed
  <1>8. /\ SumFunctionOnSet(f, S) \in Int
        /\ SumFunctionOnSet(f, 1..n) = f[k] + SumFunctionOnSet(f, S)
    <2>1. k \in 1..n /\ \A j \in 1..n : f[j] \in Int
      BY <1>0, <1>5
    <2> QED  BY <1>5, <2>1, SumStep
  <1>9. InList(b \o c, p) = InList(a, p) - Pts(a[k], p)
    <2> DEFINE r == SumFunctionOnSet(f, S)
               d == f[k]
    <2>1. r \in Int /\ d \in Nat /\ InList(b \o c, p) = r /\ InList(a, p) = d + r /\ d = Pts(a[k], p)
      <3> HIDE DEF S, down
      <3>1. r \in Int /\ d \in Nat /\ d = Pts(a[k], p)
        BY <1>0, <1>5, <1>8
      <3>2. InList(b \o c, p) = r
        BY <1>5, <1>6, <1>7
      <3>3. InList(a, p) = d + r
        BY <1>5, <1>8
      <3> QED  BY <3>1, <3>2, <3>3
    <2> HIDE DEF r, d
    <2> QED  BY <2>1
  <1> QED  BY <1>3, <1>4, <1>9 DEF n

(* When one hand only has the point, the list has it as often as that      *)
(* hand.                                                                   *)
LEMMA InListOnce ==
  ASSUME NEW a \in Lists, NEW p \in Point, NEW k \in 1..Len(a),
         \A j \in 1..Len(a) : j # k => Pts(a[j], p) = 0
  PROVE  InList(a, p) = Pts(a[k], p)
  <1> DEFINE n == Len(a)
             f == PtsOf(a, p)
  <1>1. /\ IsFiniteSet(1..n)
        /\ InList(a, p) = SumFunctionOnSet(f, 1..n)
        /\ \A j \in 1..n : f[j] = Pts(a[j], p) /\ f[j] \in Nat
    BY InListIsSum
  <1>2. k \in 1..n /\ f[k] \in Int /\ \A j \in 1..n : j # k => f[j] = 0
    BY <1>1
  <1> HIDE DEF n, f
  <1>3. SumFunctionOnSet(f, 1..n) = f[k]
    BY <1>1, <1>2, SumOfOne
  <1> QED  BY <1>1, <1>2, <1>3

(* When no hand has the point, the list does not.                          *)
LEMMA InListNever ==
  ASSUME NEW a \in Lists, NEW p \in Point, \A j \in 1..Len(a) : Pts(a[j], p) = 0
  PROVE  InList(a, p) = 0
  <1> DEFINE n == Len(a)
             f == PtsOf(a, p)
  <1>1. /\ IsFiniteSet(1..n)
        /\ InList(a, p) = SumFunctionOnSet(f, 1..n)
        /\ \A j \in 1..n : f[j] = 0
    BY InListIsSum
  <1> HIDE DEF n, f
  <1> QED  BY <1>1, SumOfZeros
-----------------------------------------------------------------------------
(* Maps from types to lists of hands                                       *)

(* The types without kickers; what the hands on the list of a type look    *)
(* like while a split runs (a bomb's list also takes the nuke, a chain     *)
(* ends at the last chain point); the maps a split works on.               *)
Bare == {"SOLO", "PAIR", "TRIO"}
BareChains == {"SOLO_CHAIN", "PAIR_CHAIN", "TRIO_CHAIN"}
Shaped(t) ==
  {h \in Hand :
     /\ h.type \in (IF t = "BOMB" THEN {"BOMB", "NUKE"} ELSE {t})
     /\ t \in Bare \cup BareChains \cup {"BOMB"} => h.kicker = <<>>
     /\ t \in Bare => h.len = 1
     /\ t \in BareChains => End(h) <= LastChain}

Maps ==
  {m \in UNION {[D -> Lists] : D \in SUBSET HandType} : \A t \in DOMAIN m : m[t] \in Seq(Shaped(t))}

(* How often point p is in all hands of a map.                             *)
InMap(m, p) == SumFunction([t \in DOMAIN m |-> InList(m[t], p)])

(* A list of shaped hands is a list of hands.                              *)
LEMMA ShapedAreHands ==
  ASSUME NEW t, NEW hs \in Seq(Shaped(t))
  PROVE  hs \in Lists /\ DOMAIN hs = 1..Len(hs) /\ Len(hs) \in Nat
         /\ \A j \in 1..Len(hs) : hs[j] \in Shaped(t) /\ hs[j] \in Hand
  <1>1. Shaped(t) \subseteq Hand
    BY DEF Shaped
  <1>2. hs \in Seq(Hand)
    BY <1>1, SeqMonotonic
  <1> QED  BY <1>1, <1>2, ElementOfSeq, LenProperties DEF Lists

(* There are finitely many types of hands.                                 *)
LEMMA TypesFinite == IsFiniteSet(HandType)
  <1> DEFINE f == <<"TRIO_CHAIN_PAIR", "TRIO_CHAIN_SOLO", "TRIO_CHAIN", "PAIR_CHAIN", "SOLO_CHAIN",
                    "NOTHING", "TRIO_PAIR", "TRIO_SOLO", "TRIO", "PAIR", "SOLO",
                    "FOUR_DUAL_PAIR", "FOUR_DUAL_SOLO", "BOMB", "NUKE">>
  <1>1. f \in Surjection(1..15, HandType)
    <2>1. \A n \in 1..15 : f[n] \in HandType
      BY DEF HandType, ChainTypes
    <2>2. f \in [1..15 -> HandType]
      BY <2>1
    <2>3. \A t \in HandType : \E n \in 1..15 : f[n] = t
      BY DEF HandType, ChainTypes
    <2> QED  BY <2>2, <2>3 DEF Surjection
  <1>2. IsFiniteSet(1..15)
    <2>1. 1 \in Int /\ 15 \in Int
      OBVIOUS
    <2> QED  BY <2>1, FS_Interval
  <1> QED  BY <1>1, <1>2, FS_Surjection

(* Hands reads a map's list of a type, or no hands.                        *)
LEMMA MapHands ==
  ASSUME NEW m \in Maps
  PROVE  /\ DOMAIN m \in SUBSET HandType
         /\ \A t \in HandType : Hands(m, t) \in Seq(Shaped(t)) /\ Hands(m, t) \in Lists
         /\ \A t \in DOMAIN m : Hands(m, t) = m[t]
         /\ \A t \in HandType : t \notin DOMAIN m => Hands(m, t) = <<>>
         /\ m = [t \in DOMAIN m |-> m[t]]
  <1>1. DOMAIN m \in SUBSET HandType /\ m = [t \in DOMAIN m |-> m[t]]
    BY DEF Maps
  <1>2. \A t \in DOMAIN m : Hands(m, t) = m[t] /\ m[t] \in Seq(Shaped(t))
    BY DEF Maps, Hands
  <1>3. \A t \in HandType : t \notin DOMAIN m => Hands(m, t) = <<>>
    BY DEF Hands
  <1>4. \A t \in HandType : Hands(m, t) \in Seq(Shaped(t))
    BY <1>2, <1>3, EmptySeq
  <1>5. \A t \in HandType : Hands(m, t) \in Lists
    BY <1>4, ShapedAreHands
  <1> QED  BY <1>1, <1>2, <1>3, <1>4, <1>5

(* A map of lists is one for the types of hands.                           *)
ListSums(m, p) == [t \in HandType |-> InList(Hands(m, t), p)]

(* The count in a map is a sum over all types of hands.                    *)
LEMMA InMapIsSum ==
  ASSUME NEW m \in Maps, NEW p \in Point
  PROVE  /\ \A t \in HandType : ListSums(m, p)[t] \in Nat
         /\ InMap(m, p) = SumFunctionOnSet(ListSums(m, p), HandType)
         /\ InMap(m, p) \in Nat
  <1> DEFINE f == [t \in DOMAIN m |-> InList(m[t], p)]
             g == ListSums(m, p)
             D == DOMAIN m
             R == HandType \ D
  <1>1. \A t \in HandType : g[t] \in Nat /\ g[t] = InList(Hands(m, t), p)
    BY MapHands, InListIsSum DEF ListSums
  <1>2. \A t \in D : f[t] = g[t]
    BY MapHands, <1>1
  <1>3. \A t \in R : g[t] = 0
    BY MapHands, <1>1, InListOfNone
  <1>4. D \in SUBSET HandType /\ IsFiniteSet(D) /\ IsFiniteSet(R) /\ D \cup R = HandType /\ D \cap R = {}
    <2>1. D \in SUBSET HandType
      BY MapHands
    <2> QED  BY <2>1, TypesFinite, FS_Subset
  <1>5. InMap(m, p) = SumFunctionOnSet(f, D)
    BY DEF InMap, SumFunction
  <1> HIDE DEF f, g, D, R
  <1>6. SumFunctionOnSet(f, D) = SumFunctionOnSet(g, D)
    <2>1. \A t \in D : g[t] \in Int /\ f[t] = g[t]
      BY <1>1, <1>2, <1>4
    <2> QED  BY <1>4, <2>1, SumCongruence
  <1>7. SumFunctionOnSet(g, R) = 0
    BY <1>3, <1>4, SumOfZeros
  <1>8. SumFunctionOnSet(g, HandType) = SumFunctionOnSet(g, D) + SumFunctionOnSet(g, R)
    <2>1. \A t \in D \cup R : g[t] \in Int
      BY <1>1, <1>4
    <2>2. SumFunctionOnSet(g, D \cup R) = SumFunctionOnSet(g, D) + SumFunctionOnSet(g, R)
      BY <1>4, <2>1, SumOfUnion
    <2> QED  BY <2>2, <1>4
  <1>9. SumFunctionOnSet(g, D) \in Nat
    BY <1>1, <1>4, SumNatural
  <1> QED  BY <1>1, <1>5, <1>6, <1>7, <1>8, <1>9 DEF g

(* A change of one list changes the count by that of the list.             *)
LEMMA MapChange ==
  ASSUME NEW m \in Maps, NEW n \in Maps, NEW t \in HandType, NEW p \in Point,
         \A u \in HandType : u # t => Hands(n, u) = Hands(m, u)
  PROVE  InMap(n, p) = InMap(m, p) - InList(Hands(m, t), p) + InList(Hands(n, t), p)
  <1> DEFINE f == ListSums(m, p)
             g == ListSums(n, p)
             R == HandType \ {t}
  <1>1. /\ \A u \in HandType : f[u] \in Nat /\ g[u] \in Nat
        /\ InMap(m, p) = SumFunctionOnSet(f, HandType)
        /\ InMap(n, p) = SumFunctionOnSet(g, HandType)
    BY InMapIsSum
  <1>2. \A u \in R : g[u] = f[u]
    BY DEF ListSums
  <1>3. f[t] = InList(Hands(m, t), p) /\ g[t] = InList(Hands(n, t), p)
    BY DEF ListSums
  <1> HIDE DEF f, g
  <1>4. /\ SumFunctionOnSet(f, R) \in Int
        /\ SumFunctionOnSet(f, HandType) = f[t] + SumFunctionOnSet(f, R)
    <2>1. \A u \in HandType : f[u] \in Int
      BY <1>1
    <2> QED  BY <2>1, TypesFinite, SumStep
  <1>5. SumFunctionOnSet(g, HandType) = g[t] + SumFunctionOnSet(g, R)
    <2>1. \A u \in HandType : g[u] \in Int
      BY <1>1
    <2> QED  BY <2>1, TypesFinite, SumStep
  <1>6. SumFunctionOnSet(g, R) = SumFunctionOnSet(f, R)
    <2>1. IsFiniteSet(R) /\ \A u \in R : f[u] \in Int /\ g[u] = f[u]
      BY <1>1, <1>2, TypesFinite, FS_Subset
    <2> HIDE DEF R
    <2> QED  BY <2>1, SumCongruence
  <1>7. f[t] \in Nat /\ g[t] \in Nat
    BY <1>1
  <1> HIDE DEF R
  <1> DEFINE r == SumFunctionOnSet(f, R)
             c == f[t]
             d == g[t]
  <1>8. r \in Int /\ c \in Nat /\ d \in Nat /\ InMap(m, p) = c + r /\ InMap(n, p) = d + r
    BY <1>1, <1>4, <1>5, <1>6, <1>7
  <1>9. c = InList(Hands(m, t), p) /\ d = InList(Hands(n, t), p)
    BY <1>3
  <1> HIDE DEF r, c, d
  <1> QED  BY <1>8, <1>9

(* Maps with the same lists have the same cards.                           *)
LEMMA MapSame ==
  ASSUME NEW m \in Maps, NEW n \in Maps, NEW p \in Point,
         \A u \in HandType : Hands(n, u) = Hands(m, u)
  PROVE  InMap(n, p) = InMap(m, p)
  <1>1. ListSums(n, p) = ListSums(m, p)
    BY DEF ListSums
  <1> QED  BY <1>1, InMapIsSum

(* Put, Add and Touch as seen by Hands.                                    *)
LEMMA PutFacts ==
  ASSUME NEW m \in Maps, NEW t \in HandType, NEW hs \in Seq(Shaped(t))
  PROVE  /\ Put(m, t, hs) \in Maps /\ t \in DOMAIN Put(m, t, hs)
         /\ DOMAIN Put(m, t, hs) = {t} \cup DOMAIN m
         /\ \A u \in HandType : Hands(Put(m, t, hs), u) = IF u = t THEN hs ELSE Hands(m, u)
         /\ Put(m, t, hs)[t] = hs
  <1> DEFINE n == Put(m, t, hs)
  <1>1. /\ DOMAIN n = {t} \cup DOMAIN m /\ n[t] = hs
        /\ \A u \in DOMAIN m : u # t => n[u] = m[u]
        /\ n = [u \in {t} \cup DOMAIN m |-> n[u]]
    <2>1. n = [u \in DOMAIN m \cup {t} |-> IF u = t THEN hs ELSE m[u]]
      BY DEF Put
    <2> HIDE DEF n
    <2>2. n = [u \in DOMAIN m \cup {t} |-> n[u]]
      BY <2>1
    <2>3. DOMAIN m \cup {t} = {t} \cup DOMAIN m
      OBVIOUS
    <2> QED  BY <2>1, <2>2, <2>3
  <1> HIDE DEF n
  <1>2. DOMAIN m \in SUBSET HandType /\ \A u \in DOMAIN m : m[u] \in Lists /\ m[u] \in Seq(Shaped(u))
    BY DEF Maps
  <1>3. hs \in Lists
    BY ShapedAreHands
  <1>4. \A u \in DOMAIN n : n[u] \in Lists /\ n[u] \in Seq(Shaped(u))
    BY <1>1, <1>2, <1>3
  <1>5. DOMAIN n \in SUBSET HandType /\ n \in [DOMAIN n -> Lists]
    <2>1. DOMAIN n \in SUBSET HandType
      BY <1>1, <1>2
    <2> DEFINE D == {t} \cup DOMAIN m
    <2>2. DOMAIN n = D /\ n = [u \in D |-> n[u]]
      BY <1>1
    <2> HIDE DEF D
    <2>3. n \in [D -> Lists]
      BY <2>2, <1>4
    <2> QED  BY <2>1, <2>2, <2>3
  <1>6. n \in Maps
    BY <1>4, <1>5 DEF Maps
  <1>7. \A u \in HandType : Hands(n, u) = IF u = t THEN hs ELSE Hands(m, u)
    BY <1>1 DEF Hands
  <1> QED  BY <1>1, <1>6, <1>7 DEF n

(* Add appends to one list: the count grows by what is appended.           *)
LEMMA AddFacts ==
  ASSUME NEW m \in Maps, NEW t \in HandType, NEW hs \in Seq(Shaped(t))
  PROVE  /\ Add(m, t, hs) \in Maps
         /\ \A u \in HandType : Hands(Add(m, t, hs), u) = IF u = t THEN Hands(m, t) \o hs ELSE Hands(m, u)
         /\ \A p \in Point : InMap(Add(m, t, hs), p) = InMap(m, p) + InList(hs, p)
  <1> DEFINE n == Add(m, t, hs)
             all == Hands(m, t) \o hs
  <1>1. Hands(m, t) \in Seq(Shaped(t)) /\ Hands(m, t) \in Lists /\ hs \in Lists
    BY MapHands, ShapedAreHands
  <1>2. all \in Seq(Shaped(t))
    BY <1>1, ConcatProperties
  <1>3. n = Put(m, t, all)
    BY DEF Add
  <1> HIDE DEF all
  <1>4. n \in Maps /\ \A u \in HandType : Hands(n, u) = IF u = t THEN all ELSE Hands(m, u)
    <2>1. /\ Put(m, t, all) \in Maps
          /\ \A u \in HandType : Hands(Put(m, t, all), u) = IF u = t THEN all ELSE Hands(m, u)
      BY <1>2, PutFacts
    <2> HIDE DEF n
    <2> QED  BY <2>1, <1>3
  <1>5. ASSUME NEW p \in Point
        PROVE  InMap(n, p) = InMap(m, p) + InList(hs, p)
    <2>1. InMap(n, p) = InMap(m, p) - InList(Hands(m, t), p) + InList(all, p)
      BY <1>4, MapChange
    <2>2. InList(all, p) = InList(Hands(m, t), p) + InList(hs, p)
      BY <1>1, InListOfTwo DEF all
    <2>3. InMap(m, p) \in Nat /\ InList(Hands(m, t), p) \in Nat /\ InList(hs, p) \in Nat
      BY <1>1, InMapIsSum, InListIsSum
    <2> QED  BY <2>1, <2>2, <2>3
  <1> QED  BY <1>4, <1>5 DEF all

(* Touch, the lookup that leaves an empty list behind, changes no list and *)
(* no count.                                                               *)
LEMMA TouchFacts ==
  ASSUME NEW m \in Maps, NEW T \in SUBSET HandType
  PROVE  /\ Touch(m, T) \in Maps /\ DOMAIN Touch(m, T) = T \cup DOMAIN m
         /\ \A u \in HandType : Hands(Touch(m, T), u) = Hands(m, u)
         /\ \A p \in Point : InMap(Touch(m, T), p) = InMap(m, p)
  <1> DEFINE n == Touch(m, T)
  <1>1. /\ DOMAIN n = T \cup DOMAIN m /\ \A u \in DOMAIN m : n[u] = m[u]
        /\ \A u \in T : u \notin DOMAIN m => n[u] = <<>>
        /\ n = [u \in T \cup DOMAIN m |-> n[u]]
    <2>1. n = [u \in DOMAIN m \cup T |-> Hands(m, u)]
      BY DEF Touch
    <2> HIDE DEF n
    <2>2. n = [u \in DOMAIN m \cup T |-> n[u]]
      BY <2>1
    <2>3. DOMAIN m \cup T = T \cup DOMAIN m
      OBVIOUS
    <2>4. \A u \in DOMAIN m \cup T : n[u] = Hands(m, u)
      BY <2>1
    <2> QED  BY <2>1, <2>2, <2>3, <2>4 DEF Hands
  <1> HIDE DEF n
  <1>2. DOMAIN m \in SUBSET HandType /\ \A u \in DOMAIN m : m[u] \in Lists /\ m[u] \in Seq(Shaped(u))
    BY DEF Maps
  <1>3. \A u : <<>> \in Lists /\ <<>> \in Seq(Shaped(u))
    BY EmptySeq DEF Lists
  <1>4. \A u \in DOMAIN n : n[u] \in Lists /\ n[u] \in Seq(Shaped(u))
    BY <1>1, <1>2, <1>3
  <1>5. DOMAIN n \in SUBSET HandType /\ n \in [DOMAIN n -> Lists]
    <2>1. DOMAIN n \in SUBSET HandType
      BY <1>1, <1>2
    <2> DEFINE D == T \cup DOMAIN m
    <2>2. DOMAIN n = D /\ n = [u \in D |-> n[u]]
      BY <1>1
    <2> HIDE DEF D
    <2>3. n \in [D -> Lists]
      BY <2>2, <1>4
    <2> QED  BY <2>1, <2>2, <2>3
  <1>6. n \in Maps
    BY <1>4, <1>5 DEF Maps
  <1>7. \A u \in HandType : Hands(n, u) = Hands(m, u)
    BY <1>1 DEF Hands
  <1>8. \A p \in Point : InMap(n, p) = InMap(m, p)
    BY <1>6, <1>7, MapSame
  <1> QED  BY <1>1, <1>6, <1>7, <1>8 DEF n

(* The points of a hand without kickers.                                   *)
LEMMA BarePoints ==
  ASSUME NEW h \in Hand, h.kicker = <<>>, NEW p \in Point
  PROVE  Pts(h, p) = IF p \in h.keyPoint..End(h) THEN BodyWidth(h.type) ELSE 0
  <1>1. h.keyPoint \in Nat /\ h.len \in Nat /\ p \in Nat
    BY PointFacts DEF Hand
  <1>2. {j \in DOMAIN h.kicker : h.kicker[j] = p} = {}
    OBVIOUS
  <1>3. (p - h.keyPoint >= 0 /\ p - h.keyPoint < h.len) <=> p \in h.keyPoint..End(h)
    BY <1>1 DEF End
  <1>4. Pts(h, p) = IF p - h.keyPoint >= 0 /\ p - h.keyPoint < h.len THEN BodyWidth(h.type) ELSE 0
    BY <1>2 DEF Pts, handToPointsArray
  <1> QED  BY <1>3, <1>4
-----------------------------------------------------------------------------
(* Loops: what FoldLeft does when unfolded                                 *)

(* A set of places of a list has a last one.                               *)
LEMMA LastOfSome ==
  ASSUME NEW n \in Nat, NEW T \in SUBSET (1..n), T # {}
  PROVE  Max(T) \in T
  <1>1. T \in SUBSET (0..n)
    OBVIOUS
  <1> QED  BY <1>1, MaxFacts

(* FoldLeft over n places, as the library unfolds it: the value for a set  *)
(* of places comes from the set without its last one.                      *)
IsLoop(g, F, base, n) ==
  \A T \in SUBSET (1..n) : g[T] = IF T = {} THEN base ELSE F[<<g[T \ {Max(T)}], Max(T)>>]

(* There is such a function, so the one FoldLeft chooses is one.           *)
LEMMA LoopExists ==
  ASSUME NEW n \in Nat, NEW A, NEW base \in A, NEW F, Steps(F, 1..n, A)
  PROVE  \E g \in [SUBSET (1..n) -> A] : IsLoop(g, F, base, n)
  <1> DEFINE S == 1..n
             c == [T \in SUBSET S |-> Max(T)]
  <1>1. IsFiniteSet(S)
    BY FS_Interval
  <1>2. Picks(c, S)
    BY LastOfSome DEF Picks
  <1>3. \A T \in SUBSET S : c[T] = Max(T)
    OBVIOUS
  <1>4. Steps(F, S, A)
    OBVIOUS
  <1> HIDE DEF S, c
  <1>5. PICK g \in [SUBSET S -> A] : IsFold(g, F, base, c, S)
    BY <1>1, <1>2, <1>4, FoldExists
  <1>6. \A T \in SUBSET S : g[T] = IF T = {} THEN base ELSE F[<<g[T \ {Max(T)}], Max(T)>>]
    BY <1>3, <1>5 DEF IsFold
  <1> QED  BY <1>6 DEF S, IsLoop

(* A loop stays where every turn of it stays.                              *)
LEMMA LoopStays ==
  ASSUME NEW n \in Nat, NEW A, NEW h, h[{}] \in A,
         \A T \in SUBSET (1..n) : (T # {} /\ h[T \ {Max(T)}] \in A) => h[T] \in A
  PROVE  h[1..n] \in A
  <1> DEFINE S == 1..n
             Bad == {T \in SUBSET S : h[T] \notin A}
  <1>1. Bad = {}
    <2> SUFFICES ASSUME Bad # {}  PROVE FALSE
      OBVIOUS
    <2>1. IsFiniteSet(S) /\ Bad \in SUBSET SUBSET S
      BY FS_Interval
    <2> HIDE DEF Bad, S
    <2>2. PICK T \in Bad : \A U \in Bad : U \subseteq T => U = T
      BY <2>1, SmallestFinite
    <2>3. T \in SUBSET S /\ h[T] \notin A
      BY <2>2 DEF Bad
    <2>4. T # {}
      BY <2>3
    <2>5. Max(T) \in T
      BY <2>3, <2>4, LastOfSome DEF S
    <2>6. T \ {Max(T)} \in SUBSET S /\ T \ {Max(T)} # T
      BY <2>3, <2>5
    <2>7. T \ {Max(T)} \notin Bad
      BY <2>2, <2>6
    <2>8. h[T \ {Max(T)}] \in A
      BY <2>6, <2>7 DEF Bad
    <2> QED  BY <2>3, <2>4, <2>8 DEF S
  <1> QED  BY <1>1
-----------------------------------------------------------------------------
(* Solo chains: what a routine keeps, and replacing one chain              *)

(* The states of a split; what is kept of a point: in hands, or left; and  *)
(* what most routines keep: the cards of every point, no count lower than  *)
(* it was if below zero, and the lists of all types but some. A turn of    *)
(* the loops of getSoloChain touches the solo chains only.                 *)
Splits == [cards : [Point -> Int], handMap : Maps]
Kept(s, p) == InMap(s.handMap, p) + s.cards[p]
KeepsBut(types, s, t) ==
  /\ t \in Splits
  /\ \A p \in Point : Kept(t, p) = Kept(s, p)
  /\ \A p \in Point : t.cards[p] >= 0 \/ t.cards[p] >= s.cards[p]
  /\ \A u \in HandType \ types : Hands(t.handMap, u) = Hands(s.handMap, u)
SoloTurn(s, t) == KeepsBut({"SOLO_CHAIN"}, s, t) /\ "SOLO_CHAIN" \in DOMAIN t.handMap
SoloSplits == {s \in Splits : "SOLO_CHAIN" \in DOMAIN s.handMap}
SoloChains == Shaped("SOLO_CHAIN")

(* A sum of ones is the size of the set.                                   *)
LEMMA SumOfOnes ==
  ASSUME NEW S, IsFiniteSet(S), NEW f, \A x \in S : f[x] = 1
  PROVE  SumFunctionOnSet(f, S) = Cardinality(S)
  <1> DEFINE Good(T) == SumFunctionOnSet(f, T) = Cardinality(T)
             Bad == {T \in SUBSET S : ~Good(T)}
  <1>1. Bad = {}
    <2> SUFFICES ASSUME Bad # {}  PROVE FALSE
      OBVIOUS
    <2>1. Bad \in SUBSET SUBSET S
      OBVIOUS
    <2> HIDE DEF Bad
    <2>2. PICK T \in Bad : \A U \in Bad : U \subseteq T => U = T
      BY <2>1, SmallestFinite
    <2>3. T \in SUBSET S /\ ~Good(T)
      BY <2>2 DEF Bad
    <2>4. IsFiniteSet(T)
      BY <2>3, FS_Subset
    <2>5. T # {}
      BY <2>3, SumEmpty, FS_EmptySet
    <2>6. PICK x \in T : TRUE
      BY <2>5
    <2>7. SumFunctionOnSet(f, T) = f[x] + SumFunctionOnSet(f, T \ {x})
      <3>1. \A y \in T : f[y] \in Int
        BY <2>3
      <3> QED  BY <2>4, <3>1, SumStep
    <2>8. T \ {x} \notin Bad
      BY <2>2, <2>6
    <2>9. Good(T \ {x})
      BY <2>3, <2>8 DEF Bad
    <2>10. Cardinality(T \ {x}) = Cardinality(T) - 1 /\ Cardinality(T) \in Nat
      BY <2>4, <2>6, FS_RemoveElement, FS_CardinalityType
    <2>11. f[x] = 1
      BY <2>3, <2>6
    <2> QED  BY <2>3, <2>7, <2>9, <2>10, <2>11
  <1> QED  BY <1>1

(* Chains that all have a point count it once each.                        *)
LEMMA InListOfOnes ==
  ASSUME NEW hs \in Lists, NEW p \in Point, \A j \in 1..Len(hs) : Pts(hs[j], p) = 1
  PROVE  InList(hs, p) = Len(hs)
  <1> DEFINE n == Len(hs)
             f == PtsOf(hs, p)
  <1>1. /\ IsFiniteSet(1..n) /\ n \in Nat
        /\ InList(hs, p) = SumFunctionOnSet(f, 1..n)
        /\ \A j \in 1..n : f[j] = 1
    BY InListIsSum
  <1> HIDE DEF n, f
  <1>2. SumFunctionOnSet(f, 1..n) = Cardinality(1..n)
    BY <1>1, SumOfOnes
  <1>3. Cardinality(1..n) = n
    <2>1. 1 \in Int /\ n \in Int
      BY <1>1
    <2>2. Cardinality(1..n) = IF 1 > n THEN 0 ELSE n - 1 + 1
      BY <2>1, FS_Interval
    <2> QED  BY <2>2, <1>1
  <1> QED  BY <1>1, <1>2, <1>3 DEF n

(* Hands are equal when their fields are.                                  *)
LEMMA HandEqual ==
  ASSUME NEW g \in Hand, NEW h \in Hand,
         g.type = h.type, g.keyPoint = h.keyPoint, g.len = h.len, g.kicker = h.kicker
  PROVE  g = h
  BY DEF Hand

(* A solo chain has each point from its key point to its end once.         *)
LEMMA ChainFacts ==
  ASSUME NEW h \in SoloChains
  PROVE  /\ h \in Hand /\ h.keyPoint \in Nat /\ h.len \in Nat /\ h.type = "SOLO_CHAIN" /\ h.kicker = <<>>
         /\ End(h) \in Int /\ End(h) = h.keyPoint + h.len - 1 /\ End(h) <= LastChain
         /\ \A p \in Point : Pts(h, p) = IF p \in h.keyPoint..End(h) THEN 1 ELSE 0
  <1>1. h \in Hand /\ h.type = "SOLO_CHAIN" /\ h.kicker = <<>> /\ End(h) <= LastChain
    BY DEF SoloChains, Shaped, BareChains
  <1>2. h.keyPoint \in Nat /\ h.len \in Nat
    BY <1>1, PointFacts DEF Hand
  <1>3. \A p \in Point : Pts(h, p) = IF p \in h.keyPoint..End(h) THEN 1 ELSE 0
    BY <1>1, BarePoints DEF BodyWidth
  <1> QED  BY <1>1, <1>2, <1>3 DEF End

(* ChainOf makes a solo chain, and so does a change of the key point and   *)
(* the length.                                                             *)
LEMMA ChainOfPoints ==
  ASSUME NEW a \in Nat, NEW n \in Nat, a + n - 1 <= LastChain, a <= LastChain + 3, NEW h \in SoloChains
  PROVE  /\ ChainOf("SOLO_CHAIN", a, n) \in SoloChains
         /\ End(ChainOf("SOLO_CHAIN", a, n)) = a + n - 1
         /\ [h EXCEPT !.keyPoint = a, !.len = n] = ChainOf("SOLO_CHAIN", a, n)
  <1> DEFINE c == ChainOf("SOLO_CHAIN", a, n)
  <1>1. c = [type |-> "SOLO_CHAIN", keyPoint |-> a, len |-> n, kicker |-> <<>>]
    BY DEF ChainOf
  <1>2. "SOLO_CHAIN" \in HandType /\ a \in Point
    BY HandAssumption DEF HandType, ChainTypes, Point, RED_JOKER
  <1>3. c \in Hand /\ c.type = "SOLO_CHAIN" /\ c.kicker = <<>> /\ End(c) = a + n - 1
    <2>1. <<>> \in Seq(Point)
      BY EmptySeq
    <2> HIDE DEF c
    <2>2. c.type = "SOLO_CHAIN" /\ c.kicker = <<>> /\ c.keyPoint = a /\ c.len = n
      BY <1>1
    <2>3. c \in Hand
      BY <1>1, <1>2, <2>1 DEF Hand
    <2> QED  BY <2>2, <2>3 DEF End
  <1>4. c \in SoloChains
    BY <1>3 DEF SoloChains, Shaped, BareChains, Bare
  <1>5. [h EXCEPT !.keyPoint = a, !.len = n] = c
    <2> DEFINE d == [h EXCEPT !.keyPoint = a, !.len = n]
    <2>1. h \in Hand /\ h.type = "SOLO_CHAIN" /\ h.kicker = <<>>
      BY ChainFacts
    <2>2. d \in Hand /\ d.keyPoint = a /\ d.len = n /\ d.type = h.type /\ d.kicker = h.kicker
      BY <2>1, <1>2 DEF Hand
    <2>3. c.keyPoint = a /\ c.len = n
      BY <1>1
    <2> HIDE DEF c, d
    <2>4. d = c
      BY <2>1, <2>2, <2>3, <1>3, HandEqual
    <2> QED  BY <2>4 DEF d
  <1> QED  BY <1>3, <1>4, <1>5

(* Routines that keep the cards do so one after another.                   *)
LEMMA KeepsTransitive ==
  ASSUME NEW types, NEW s \in Splits, NEW t, NEW u, KeepsBut(types, s, t), KeepsBut(types, t, u)
  PROVE  KeepsBut(types, s, u)
  <1>1. t \in Splits /\ u \in Splits
    BY DEF KeepsBut
  <1>2. ASSUME NEW p \in Point
        PROVE  u.cards[p] >= 0 \/ u.cards[p] >= s.cards[p]
    <2>1. t.cards[p] \in Int /\ u.cards[p] \in Int
      BY <1>1 DEF Splits
    <2>2. /\ t.cards[p] >= 0 \/ t.cards[p] >= s.cards[p]
          /\ u.cards[p] >= 0 \/ u.cards[p] >= t.cards[p]
      BY DEF KeepsBut
    <2>3. s \in Splits => s.cards[p] \in Int
      BY DEF Splits
    <2> QED  BY <2>1, <2>2, <2>3
  <1> QED  BY <1>2 DEF KeepsBut

(* So do the turns of getSoloChain.                                        *)
LEMMA SoloTransitive ==
  ASSUME NEW s \in Splits, NEW t, NEW u, SoloTurn(s, t), SoloTurn(t, u)
  PROVE  SoloTurn(s, u)
  BY KeepsTransitive DEF SoloTurn

(* And doing nothing is such a turn.                                       *)
LEMMA SoloReflexive ==
  ASSUME NEW s \in SoloSplits
  PROVE  SoloTurn(s, s)
  <1>1. s \in Splits /\ "SOLO_CHAIN" \in DOMAIN s.handMap
    BY DEF SoloSplits
  <1>2. \A p \in Point : s.cards[p] \in Int
    BY <1>1 DEF Splits
  <1> QED  BY <1>1, <1>2 DEF SoloTurn, KeepsBut

(* The solo chains of a split.                                             *)
LEMMA ChainsOf ==
  ASSUME NEW s \in SoloSplits
  PROVE  /\ s \in Splits /\ s.handMap \in Maps /\ s.cards \in [Point -> Int]
         /\ Chains(s) = Hands(s.handMap, "SOLO_CHAIN")
         /\ Chains(s) \in Seq(SoloChains) /\ Chains(s) \in Lists
         /\ Len(Chains(s)) \in Nat /\ DOMAIN Chains(s) = 1..Len(Chains(s))
         /\ \A k \in 1..Len(Chains(s)) : Chains(s)[k] \in SoloChains
  <1>1. s \in Splits /\ s.handMap \in Maps /\ s.cards \in [Point -> Int] /\ "SOLO_CHAIN" \in DOMAIN s.handMap
    BY DEF SoloSplits, Splits
  <1>2. "SOLO_CHAIN" \in HandType
    BY DEF HandType, ChainTypes
  <1>3. Chains(s) = Hands(s.handMap, "SOLO_CHAIN")
    BY <1>1, MapHands DEF Chains
  <1>4. Chains(s) \in Seq(SoloChains) /\ Chains(s) \in Lists
    BY <1>1, <1>2, <1>3, MapHands DEF SoloChains
  <1>5. Len(Chains(s)) \in Nat /\ DOMAIN Chains(s) = 1..Len(Chains(s))
        /\ \A k \in 1..Len(Chains(s)) : Chains(s)[k] \in SoloChains
    BY <1>4, ShapedAreHands DEF SoloChains
  <1> QED  BY <1>1, <1>3, <1>4, <1>5

(* Setting the list of solo chains keeps the cards when the new list and   *)
(* the new counts balance.                                                 *)
LEMMA SetChainsKeeps ==
  ASSUME NEW s \in Splits, NEW hs \in Seq(SoloChains), NEW c \in [Point -> Int],
         \A p \in Point : InList(hs, p) + c[p] = InList(Hands(s.handMap, "SOLO_CHAIN"), p) + s.cards[p],
         \A p \in Point : c[p] >= 0 \/ c[p] >= s.cards[p]
  PROVE  SoloTurn(s, InWork(c, SetChains(s, hs)))
  <1> DEFINE m == s.handMap
             n == SetChains(s, hs)
             t == InWork(c, n)
  <1>1. m \in Maps /\ s.cards \in [Point -> Int] /\ "SOLO_CHAIN" \in HandType
    BY DEF Splits, HandType, ChainTypes
  <1>2. /\ n \in Maps /\ "SOLO_CHAIN" \in DOMAIN n
        /\ \A u \in HandType : Hands(n, u) = IF u = "SOLO_CHAIN" THEN hs ELSE Hands(m, u)
    <2>1. hs \in Seq(Shaped("SOLO_CHAIN")) /\ n = Put(m, "SOLO_CHAIN", hs)
      BY DEF SoloChains, SetChains
    <2> HIDE DEF m, n
    <2>2. /\ Put(m, "SOLO_CHAIN", hs) \in Maps
          /\ DOMAIN Put(m, "SOLO_CHAIN", hs) = {"SOLO_CHAIN"} \cup DOMAIN m
      BY <1>1, <2>1, PutFacts
    <2>3. \A u \in HandType : Hands(Put(m, "SOLO_CHAIN", hs), u)
                               = IF u = "SOLO_CHAIN" THEN hs ELSE Hands(m, u)
      BY <1>1, <2>1, PutFacts
    <2> QED  BY <2>1, <2>2, <2>3
  <1> HIDE DEF m, n
  <1>3. t = [cards |-> c, handMap |-> n] /\ t \in Splits /\ t.cards = c /\ t.handMap = n
    BY <1>2 DEF InWork, Splits
  <1>4. ASSUME NEW p \in Point
        PROVE  InMap(n, p) + c[p] = InMap(m, p) + s.cards[p]
    <2>1. InMap(n, p) = InMap(m, p) - InList(Hands(m, "SOLO_CHAIN"), p) + InList(Hands(n, "SOLO_CHAIN"), p)
      <3>1. \A u \in HandType : u # "SOLO_CHAIN" => Hands(n, u) = Hands(m, u)
        BY <1>2
      <3> QED  BY <1>1, <1>2, <3>1, MapChange
    <2>2. Hands(n, "SOLO_CHAIN") = hs
      BY <1>1, <1>2
    <2>3. InList(hs, p) + c[p] = InList(Hands(m, "SOLO_CHAIN"), p) + s.cards[p]
      BY DEF m
    <2>4. InMap(m, p) \in Nat /\ InList(Hands(m, "SOLO_CHAIN"), p) \in Nat /\ InList(hs, p) \in Nat
      <3>1. hs \in Lists
        BY ShapedAreHands DEF SoloChains
      <3> QED  BY <1>1, <3>1, MapHands, InMapIsSum, InListIsSum
    <2>5. c[p] \in Int /\ s.cards[p] \in Int
      BY <1>1
    <2> DEFINE a == InMap(m, p)
               b == InMap(n, p)
               d == InList(Hands(m, "SOLO_CHAIN"), p)
               e == InList(hs, p)
               x == c[p]
               y == s.cards[p]
    <2>6. /\ a \in Int /\ d \in Int /\ e \in Int /\ x \in Int /\ y \in Int
          /\ b = a - d + e /\ e + x = d + y
      BY <2>1, <2>2, <2>3, <2>4, <2>5
    <2>7. b + x = a + y
      <3> HIDE DEF a, b, d, e, x, y
      <3> QED  BY <2>6
    <2> QED  BY <2>7
  <1>5. \A p \in Point : Kept(t, p) = Kept(s, p)
    BY <1>3, <1>4 DEF Kept, m
  <1>6. KeepsBut({"SOLO_CHAIN"}, s, t)
    BY <1>2, <1>3, <1>5 DEF KeepsBut, m
  <1> QED  BY <1>2, <1>3, <1>6 DEF SoloTurn, n

(* So does replacing one chain when that chain and the counts balance.     *)
LEMMA ChainReplaced ==
  ASSUME NEW s \in SoloSplits, NEW k \in 1..Len(Chains(s)), NEW x \in SoloChains, NEW c \in [Point -> Int],
         \A p \in Point : Pts(x, p) + c[p] = Pts(Chains(s)[k], p) + s.cards[p],
         \A p \in Point : c[p] >= 0 \/ c[p] >= s.cards[p]
  PROVE  SoloTurn(s, InWork(c, SetChains(s, [Chains(s) EXCEPT ![k] = x])))
  <1> DEFINE a == Chains(s)
             b == [a EXCEPT ![k] = x]
  <1>1. a \in Seq(SoloChains) /\ a \in Lists /\ s \in Splits /\ a = Hands(s.handMap, "SOLO_CHAIN")
        /\ s.cards \in [Point -> Int]
    BY ChainsOf
  <1>2. x \in Hand /\ a[k] \in Hand
    BY ChainsOf, ChainFacts
  <1> HIDE DEF a
  <1>3. b \in Seq(SoloChains)
    BY <1>1, ExceptSeq DEF a
  <1>4. ASSUME NEW p \in Point
        PROVE  InList(b, p) + c[p] = InList(a, p) + s.cards[p]
    <2>1. InList(b, p) = InList(a, p) - Pts(a[k], p) + Pts(x, p)
      <3>1. k \in 1..Len(a)
        BY DEF a
      <3> QED  BY <1>1, <1>2, <3>1, InListReplaced
    <2>2. Pts(x, p) + c[p] = Pts(a[k], p) + s.cards[p]
      BY DEF a
    <2>3. InList(a, p) \in Nat
      BY <1>1, InListIsSum
    <2>4. Pts(x, p) \in Int /\ Pts(a[k], p) \in Int /\ c[p] \in Int /\ s.cards[p] \in Int
      BY <1>1, PtsType
    <2> DEFINE d == InList(a, p)
               e == InList(b, p)
               v == Pts(a[k], p)
               w == Pts(x, p)
               y == c[p]
               z == s.cards[p]
    <2>5. /\ d \in Int /\ v \in Int /\ w \in Int /\ y \in Int /\ z \in Int
          /\ e = d - v + w /\ w + y = v + z
      BY <2>1, <2>2, <2>3, <2>4
    <2>6. e + y = d + z
      <3> HIDE DEF d, e, v, w, y, z
      <3> QED  BY <2>5
    <2> QED  BY <2>6
  <1> HIDE DEF b
  <1>5. SoloTurn(s, InWork(c, SetChains(s, b)))
    BY <1>1, <1>3, <1>4, SetChainsKeeps
  <1> QED  BY <1>5 DEF a, b
-----------------------------------------------------------------------------
(* Solo chains: cutting, expanding and merging                             *)

(* A set within an interval has a greatest element, the one Max names.     *)
LEMMA MaxOfInterval ==
  ASSUME NEW a \in Int, NEW n \in Int, NEW S \in SUBSET (a..n), S # {}
  PROVE  Max(S) \in S /\ Max(S) \in a..n /\ \A x \in S : x <= Max(S)
  <1> DEFINE D == {n - x : x \in S}
  <1>1. PICK d \in D : \A e \in D : d <= e
    <2>1. \A x \in S : x \in Int /\ x <= n
      OBVIOUS
    <2>2. D # {}
      OBVIOUS
    <2>3. D \in SUBSET Nat
      BY <2>1
    <2> HIDE DEF D
    <2> QED  BY <2>2, <2>3, LeastOfNat
  <1>2. PICK x \in S : d = n - x
    BY <1>1
  <1>3. \A y \in S : y <= x
    <2>1. \A y \in S : y \in Int /\ n - y \in D
      OBVIOUS
    <2>2. \A y \in S : d <= n - y
      BY <1>1, <2>1
    <2> HIDE DEF D
    <2> QED  BY <1>2, <2>1, <2>2
  <1> QED  BY <1>3 DEF Max

(* The sizes of the game as numbers, for arithmetic.                       *)
LEMMA GameSize ==
  /\ LastChain \in Nat /\ SoloLen \in Nat /\ PairLen \in Nat /\ SoloLen >= 2 /\ PairLen >= 2
  /\ SoloLen <= LastChain + 1 /\ PairLen <= LastChain + 1
  /\ LastChain + 1 <= 2 * (SoloLen + PairLen)
  /\ Point = 0..(LastChain + 3)
  /\ Two = LastChain + 1 /\ BLACK_JOKER = LastChain + 2 /\ RED_JOKER = LastChain + 3
  BY HandAssumption, SplitAssumption DEF Point, RED_JOKER, BLACK_JOKER, Two

(* Cut puts back what it takes off a chain's ends.                         *)
LEMMA CutTurn ==
  ASSUME NEW s \in SoloSplits, NEW k \in 1..Len(Chains(s)), NEW start \in Int, NEW end \in Int,
         Chains(s)[k].keyPoint <= start, end <= End(Chains(s)[k]), start <= end + 1
  PROVE  SoloTurn(s, Cut(s, k, start, end))
  <1> DEFINE a == Chains(s)
             h == a[k]
             n == end - start + 1
             x == ChainOf("SOLO_CHAIN", start, n)
             c == Minus(s.cards, (h.keyPoint..End(h)) \ (start..end), -1)
  <1>1. h \in SoloChains /\ a \in Seq(SoloChains) /\ s.cards \in [Point -> Int]
    BY ChainsOf
  <1>2. h \in Hand /\ h.keyPoint \in Nat /\ End(h) \in Int /\ End(h) <= LastChain
    BY <1>1, ChainFacts
  <1>3. start \in Nat /\ n \in Nat /\ start + n - 1 = end /\ end <= LastChain /\ start <= LastChain + 3
    <2> HIDE DEF h
    <2>1. h.keyPoint <= start /\ end <= End(h)
      BY DEF h
    <2> QED  BY <1>2, <2>1, GameSize
  <1> HIDE DEF n
  <1>4. x \in SoloChains /\ End(x) = end /\ [h EXCEPT !.keyPoint = start, !.len = n] = x /\ x.keyPoint = start
    <2>1. x \in SoloChains /\ End(x) = end /\ [h EXCEPT !.keyPoint = start, !.len = n] = x
      <3> HIDE DEF x, h
      <3> QED  BY <1>1, <1>3, ChainOfPoints DEF x
    <2> QED  BY <2>1 DEF ChainOf
  <1>5. [a EXCEPT ![k].keyPoint = start, ![k].len = n] = [a EXCEPT ![k] = x]
    <2>1. [a EXCEPT ![k].keyPoint = start, ![k].len = n]
          = [a EXCEPT ![k] = [a[k] EXCEPT !.keyPoint = start, !.len = n]]
      <3> HIDE DEF a
      <3> QED  OBVIOUS
    <2> HIDE DEF a, x
    <2> QED  BY <2>1, <1>4
  <1>6. c \in [Point -> Int]
        /\ \A p \in Point : c[p] = IF p \in h.keyPoint..End(h) /\ p \notin start..end
                                   THEN s.cards[p] + 1 ELSE s.cards[p]
    <2> HIDE DEF h
    <2> QED  BY <1>1 DEF Minus
  <1>7. ASSUME NEW p \in Point
        PROVE  Pts(x, p) + c[p] = Pts(h, p) + s.cards[p] /\ (c[p] >= 0 \/ c[p] >= s.cards[p])
    <2>1. Pts(x, p) = IF p \in start..end THEN 1 ELSE 0
      <3> HIDE DEF x
      <3> QED  BY <1>4, ChainFacts
    <2>2. Pts(h, p) = IF p \in h.keyPoint..End(h) THEN 1 ELSE 0
      BY <1>1, ChainFacts
    <2>3. p \in start..end => p \in h.keyPoint..End(h)
      BY <1>2
    <2>4. s.cards[p] \in Int
      BY <1>1
    <2>5. c[p] = IF p \in h.keyPoint..End(h) /\ p \notin start..end THEN s.cards[p] + 1 ELSE s.cards[p]
      BY <1>6
    <2> DEFINE v == s.cards[p]
               w == c[p]
               inH == p \in h.keyPoint..End(h)
               inX == p \in start..end
    <2> HIDE DEF v, w, inH, inX, c, h, x
    <2>6. /\ Pts(x, p) = (IF inX THEN 1 ELSE 0) /\ Pts(h, p) = (IF inH THEN 1 ELSE 0)
          /\ (inX => inH) /\ v \in Int /\ w = IF inH /\ ~inX THEN v + 1 ELSE v
      BY <2>1, <2>2, <2>3, <2>4, <2>5 DEF v, w, inH, inX
    <2>7. Pts(x, p) + w = Pts(h, p) + v /\ (w >= 0 \/ w >= v)
      BY <2>6
    <2> QED  BY <2>7 DEF v, w
  <1>8. SoloTurn(s, InWork(c, SetChains(s, [a EXCEPT ![k] = x])))
    <2> HIDE DEF c, x
    <2> QED  BY <1>4, <1>6, <1>7, ChainReplaced
  <1>9. Cut(s, k, start, end) = InWork(c, SetChains(s, [a EXCEPT ![k] = x]))
    BY <1>5 DEF Cut, n
  <1> QED  BY <1>8, <1>9

(* Expand takes the cards it adds at a chain's end.                        *)
LEMMA ExpandTurn ==
  ASSUME NEW s \in SoloSplits, NEW k \in 1..Len(Chains(s))
  PROVE  SoloTurn(s, Expand(s, k))
  <1> DEFINE a == Chains(s)
             h == a[k]
             M == {e \in End(h)..LastChain : \A p \in (End(h) + 1)..e : s.cards[p] > 0}
             end == Max(M)
             n == end - h.keyPoint + 1
             x == ChainOf("SOLO_CHAIN", h.keyPoint, n)
             c == Minus(s.cards, (End(h) + 1)..end, 1)
  <1>1. h \in SoloChains /\ a \in Seq(SoloChains) /\ s.cards \in [Point -> Int]
    BY ChainsOf
  <1>2. h \in Hand /\ h.keyPoint \in Nat /\ h.len \in Nat /\ End(h) \in Int /\ End(h) <= LastChain
        /\ End(h) = h.keyPoint + h.len - 1
    BY <1>1, ChainFacts
  <1> HIDE DEF h, a
  <1>3. end \in M /\ end \in End(h)..LastChain
    <2>1. End(h) \in M
      BY <1>2, GameSize
    <2>2. M \in SUBSET (End(h)..LastChain) /\ M # {} /\ LastChain \in Int
      BY <2>1, GameSize
    <2> HIDE DEF M
    <2> QED  BY <2>2, <1>2, MaxOfInterval
  <1>4. \A p \in (End(h) + 1)..end : s.cards[p] > 0
    BY <1>3
  <1> HIDE DEF M, end
  <1>5. n \in Nat /\ h.keyPoint + n - 1 = end /\ end <= LastChain /\ h.keyPoint <= LastChain + 3
    BY <1>2, <1>3, GameSize DEF Hand
  <1>6. x \in SoloChains /\ End(x) = end /\ x.keyPoint = h.keyPoint
        /\ [h EXCEPT !.keyPoint = h.keyPoint, !.len = n] = x
    <2> HIDE DEF n
    <2>1. x \in SoloChains /\ End(x) = end /\ [h EXCEPT !.keyPoint = h.keyPoint, !.len = n] = x
      BY <1>1, <1>2, <1>5, ChainOfPoints
    <2> QED  BY <2>1 DEF ChainOf
  <1> HIDE DEF n
  <1>7. [h EXCEPT !.len = n] = x
    <2> DEFINE d == [h EXCEPT !.len = n]
    <2>1. d \in Hand /\ d.keyPoint = h.keyPoint /\ d.len = n /\ d.type = h.type /\ d.kicker = h.kicker
      BY <1>2, <1>5 DEF Hand
    <2>2. x \in Hand /\ x.keyPoint = h.keyPoint /\ x.len = n /\ x.type = h.type /\ x.kicker = h.kicker
      <3>1. x \in Hand
        BY <1>6, ChainFacts
      <3>2. x.keyPoint = h.keyPoint /\ x.len = n /\ x.type = "SOLO_CHAIN" /\ x.kicker = <<>>
        BY DEF ChainOf
      <3> QED  BY <3>1, <3>2, <1>1, ChainFacts
    <2>3. d = x
      <3> HIDE DEF d, x
      <3> QED  BY <2>1, <2>2, HandEqual
    <2> QED  BY <2>3
  <1>8. [a EXCEPT ![k].len = n] = [a EXCEPT ![k] = x]
    <2>1. [a EXCEPT ![k].len = n] = [a EXCEPT ![k] = [a[k] EXCEPT !.len = n]]
      OBVIOUS
    <2> HIDE DEF x
    <2> QED  BY <2>1, <1>7 DEF h
  <1>9. c \in [Point -> Int]
        /\ \A p \in Point : c[p] = IF p \in (End(h) + 1)..end THEN s.cards[p] - 1 ELSE s.cards[p]
    BY <1>1 DEF Minus
  <1>10. ASSUME NEW p \in Point
        PROVE  Pts(x, p) + c[p] = Pts(h, p) + s.cards[p] /\ (c[p] >= 0 \/ c[p] >= s.cards[p])
    <2> DEFINE v == s.cards[p]
               w == c[p]
               inH == p \in h.keyPoint..End(h)
               inX == p \in h.keyPoint..end
               more == p \in (End(h) + 1)..end
    <2>1. Pts(x, p) = IF inX THEN 1 ELSE 0
      <3> HIDE DEF x
      <3> QED  BY <1>6, ChainFacts
    <2>2. Pts(h, p) = IF inH THEN 1 ELSE 0
      BY <1>1, ChainFacts
    <2>3. (inX <=> (inH \/ more)) /\ ~(inH /\ more)
      <3>1. p \in Nat
        BY PointFacts
      <3> QED  BY <1>2, <1>3, <3>1
    <2>4. v \in Int /\ (more => v > 0)
      BY <1>1, <1>4
    <2>5. w = IF more THEN v - 1 ELSE v
      BY <1>9
    <2> HIDE DEF v, w, inH, inX, more, c, x
    <2>7. Pts(x, p) + w = Pts(h, p) + v /\ (w >= 0 \/ w >= v)
      BY <2>1, <2>2, <2>3, <2>4, <2>5
    <2> QED  BY <2>7 DEF v, w
  <1>11. SoloTurn(s, InWork(c, SetChains(s, [a EXCEPT ![k] = x])))
    <2> HIDE DEF c, x
    <2> QED  BY <1>6, <1>9, <1>10, ChainReplaced DEF a, h
  <1>12. Expand(s, k) = InWork(c, SetChains(s, [a EXCEPT ![k] = x]))
    BY <1>8 DEF Expand, n, end, M, h, a
  <1> QED  BY <1>11, <1>12

(* Merge makes one chain of two that meet; no card is counted twice.       *)
LEMMA MergeTurn ==
  ASSUME NEW s \in SoloSplits, NEW k \in 1..Len(Chains(s))
  PROVE  SoloTurn(s, Merge(s, k))
  <1> DEFINE a == Chains(s)
             h == a[k]
             next == {j \in (k + 1)..Len(a) : a[j].keyPoint = End(h) + 1}
             m == Min(next)
             g == a[m]
             n == h.len + g.len
             x == ChainOf("SOLO_CHAIN", h.keyPoint, n)
             b == [a EXCEPT ![k] = x]
             r == RemoveAt(b, m)
  <1>0. a \in Seq(SoloChains) /\ a \in Lists /\ s.cards \in [Point -> Int] /\ s \in Splits
        /\ Len(a) \in Nat /\ a = Hands(s.handMap, "SOLO_CHAIN")
        /\ \A j \in 1..Len(a) : a[j] \in SoloChains
    BY ChainsOf
  <1>1. CASE next = {}
    <2>1. Merge(s, k) = s
      BY <1>1 DEF Merge
    <2> QED  BY <2>1, SoloReflexive
  <1>2. CASE next # {}
    <2>1. m \in (k + 1)..Len(a) /\ g.keyPoint = End(h) + 1
      <3>1. next \in SUBSET Nat /\ next # {}
        BY <1>2, <1>0
      <3>2. m \in next
        <4> HIDE DEF next
        <4> QED  BY <3>1, MinFacts
      <3> HIDE DEF m, h, a
      <3> QED  BY <3>2 DEF g
    <2> HIDE DEF m
    <2>2. m \in 1..Len(a) /\ m # k /\ k \in 1..Len(a)
      BY <2>1, <1>0
    <2>3. h \in SoloChains /\ g \in SoloChains
      BY <2>2, <1>0
    <2> HIDE DEF a, h, g
    <2>4. /\ h \in Hand /\ h.keyPoint \in Nat /\ h.len \in Nat /\ End(h) = h.keyPoint + h.len - 1
          /\ g \in Hand /\ g.keyPoint \in Nat /\ g.len \in Nat /\ End(g) = g.keyPoint + g.len - 1
          /\ End(g) <= LastChain /\ End(h) <= LastChain /\ End(g) \in Int /\ End(h) \in Int
      BY <2>3, ChainFacts
    <2>5. /\ n \in Nat /\ h.keyPoint + n - 1 = End(g) /\ h.keyPoint <= LastChain + 3
          /\ h.keyPoint + n - 1 <= LastChain
      <3> DEFINE hk == h.keyPoint
                 hl == h.len
                 gk == g.keyPoint
                 gl == g.len
                 he == End(h)
                 ge == End(g)
      <3>1. /\ hk \in Nat /\ hl \in Nat /\ gk \in Nat /\ gl \in Nat /\ he = hk + hl - 1
            /\ ge = gk + gl - 1 /\ gk = he + 1 /\ ge <= LastChain
        BY <2>1, <2>4
      <3>2. hk \in Point
        BY <2>4 DEF Hand
      <3> HIDE DEF hk, hl, gk, gl, he, ge
      <3>3. hl + gl \in Nat /\ hk + (hl + gl) - 1 = ge /\ hk <= LastChain + 3
        BY <3>1, <3>2, GameSize
      <3> QED  BY <3>1, <3>3 DEF hk, hl, gl, ge
    <2>6. x \in SoloChains /\ End(x) = End(g) /\ x.keyPoint = h.keyPoint
      <3> HIDE DEF n
      <3>1. x \in SoloChains /\ End(x) = h.keyPoint + n - 1
        BY <2>3, <2>4, <2>5, ChainOfPoints
      <3> QED  BY <3>1, <2>5 DEF ChainOf
    <2> HIDE DEF n
    <2>7. [h EXCEPT !.len = n] = x
      <3> DEFINE d == [h EXCEPT !.len = n]
      <3>1. d \in Hand /\ d.keyPoint = h.keyPoint /\ d.len = n /\ d.type = h.type /\ d.kicker = h.kicker
        BY <2>4, <2>5 DEF Hand
      <3>2. x \in Hand /\ x.keyPoint = h.keyPoint /\ x.len = n /\ x.type = h.type /\ x.kicker = h.kicker
        <4>1. x \in Hand
          BY <2>6, ChainFacts
        <4>2. x.keyPoint = h.keyPoint /\ x.len = n /\ x.type = "SOLO_CHAIN" /\ x.kicker = <<>>
          BY DEF ChainOf
        <4> QED  BY <4>1, <4>2, <2>3, ChainFacts
      <3>3. d = x
        <4> HIDE DEF d, x
        <4> QED  BY <3>1, <3>2, HandEqual
      <3> QED  BY <3>3
    <2>8. [a EXCEPT ![k].len = @ + g.len] = b
      <3>1. [a EXCEPT ![k].len = @ + g.len] = [a EXCEPT ![k] = [a[k] EXCEPT !.len = a[k].len + g.len]]
        OBVIOUS
      <3>2. [a[k] EXCEPT !.len = a[k].len + g.len] = x
        <4> HIDE DEF x
        <4> QED  BY <2>7 DEF h, n
      <3> HIDE DEF x
      <3> QED  BY <3>1, <3>2
    <2> HIDE DEF x
    <2>9. /\ b \in Seq(SoloChains) /\ b \in Lists /\ Len(b) = Len(a) /\ b[m] = g
          /\ \A p \in Point : InList(b, p) = InList(a, p) - Pts(h, p) + Pts(x, p)
      <3>1. x \in Hand
        BY <2>6, ChainFacts
      <3>2. b \in Seq(SoloChains) /\ b[m] = g
        BY <1>0, <2>2, <2>6, ExceptSeq DEF a, g
      <3>3. b \in Lists /\ Len(b) = Len(a)
            /\ \A p \in Point : InList(b, p) = InList(a, p) - Pts(h, p) + Pts(x, p)
        <4>1. \A p \in Point : /\ b \in Lists /\ Len(b) = Len(a)
                                /\ InList(b, p) = InList(a, p) - Pts(a[k], p) + Pts(x, p)
          BY <1>0, <2>2, <3>1, InListReplaced
        <4>2. 0 \in Point
          BY PointFacts
        <4> HIDE DEF b
        <4> QED  BY <4>1, <4>2 DEF h
      <3> QED  BY <3>2, <3>3
    <2> HIDE DEF b
    <2>10. /\ r \in Seq(SoloChains)
           /\ \A p \in Point : InList(r, p) = InList(b, p) - Pts(g, p)
      <3>1. m \in 1..Len(b) /\ Len(b) \in Nat
        BY <2>2, <2>9, <1>0
      <3>2. \A p \in Point :
              /\ r \in Lists /\ Len(r) = Len(b) - 1
              /\ \A j \in 1..(Len(b) - 1) : r[j] = IF j < m THEN b[j] ELSE b[j + 1]
              /\ InList(r, p) = InList(b, p) - Pts(b[m], p)
        BY <2>9, <3>1, InListRemoved
      <3>3. 0 \in Point
        BY PointFacts
      <3> HIDE DEF r
      <3>4. \A j \in 1..(Len(b) - 1) : r[j] \in SoloChains
        <4>1. \A j \in 1..Len(b) : b[j] \in SoloChains
          BY <2>9, ElementOfSeq
        <4>2. \A j \in 1..(Len(b) - 1) : j \in 1..Len(b) /\ j + 1 \in 1..Len(b)
          BY <3>1
        <4> QED  BY <4>1, <4>2, <3>2, <3>3
      <3>5. r \in Seq(SoloChains)
        <4>1. r \in Seq(Hand) /\ Len(r) = Len(b) - 1
          BY <3>2, <3>3 DEF Lists
        <4>2. \A j \in 1..Len(r) : r[j] \in SoloChains
          BY <4>1, <3>4
        <4> QED  BY <4>1, <4>2, SeqDef
      <3> QED  BY <3>2, <3>5, <2>9
    <2> HIDE DEF r
    <2>11. ASSUME NEW p \in Point
           PROVE  InList(r, p) + s.cards[p] = InList(a, p) + s.cards[p]
      <3>1. Pts(x, p) = (IF p \in h.keyPoint..End(g) THEN 1 ELSE 0)
        BY <2>6, ChainFacts
      <3>2. /\ Pts(h, p) = (IF p \in h.keyPoint..End(h) THEN 1 ELSE 0)
            /\ Pts(g, p) = (IF p \in (End(h) + 1)..End(g) THEN 1 ELSE 0)
        BY <2>1, <2>3, ChainFacts
      <3>3. Pts(x, p) = Pts(h, p) + Pts(g, p)
        <4>1. p \in Nat
          BY PointFacts
        <4> DEFINE hk == h.keyPoint
                   he == End(h)
                   ge == End(g)
                   inX == p \in hk..ge
                   inH == p \in hk..he
                   inG == p \in (he + 1)..ge
        <4>2. hk \in Nat /\ he \in Int /\ ge \in Int /\ he <= ge /\ hk <= he + 1
          <5> DEFINE gl == g.len
                     hl == h.len
                     gk == g.keyPoint
          <5>1. hk \in Nat /\ he \in Int /\ ge \in Int /\ gl \in Nat /\ hl \in Nat /\ gk = he + 1
                /\ he = hk + hl - 1 /\ ge = gk + gl - 1
            BY <2>1, <2>4
          <5> HIDE DEF hk, he, ge, gl, hl, gk
          <5> QED  BY <5>1
        <4> HIDE DEF hk, he, ge
        <4>3. (inX <=> (inH \/ inG)) /\ ~(inH /\ inG)
          BY <4>1, <4>2
        <4> HIDE DEF inX, inH, inG
        <4> QED  BY <4>3, <3>1, <3>2 DEF inX, inH, inG, hk, he, ge
      <3>4. InList(r, p) = InList(b, p) - Pts(g, p) /\ InList(b, p) = InList(a, p) - Pts(h, p) + Pts(x, p)
        BY <2>9, <2>10
      <3>5. InList(a, p) \in Nat /\ Pts(h, p) \in Int /\ Pts(g, p) \in Int
        BY <1>0, InListIsSum, PtsType
      <3>6. InList(r, p) = InList(a, p)
        BY <3>3, <3>4, <3>5
      <3> QED  BY <3>6
    <2>12. \A p \in Point : s.cards[p] \in Int
      BY <1>0
    <2>13. SoloTurn(s, InWork(s.cards, SetChains(s, r)))
      <3>1. \A p \in Point : s.cards[p] >= 0 \/ s.cards[p] >= s.cards[p]
        BY <2>12
      <3> QED  BY <1>0, <2>10, <2>11, <3>1, SetChainsKeeps
    <2>14. Merge(s, k) = InWork(s.cards, SetChains(s, r))
      <3>1. Merge(s, k) = InWork(s.cards, SetChains(s, RemoveAt([a EXCEPT ![k].len = @ + g.len], m)))
        BY <1>2 DEF Merge, a, h, g, m
      <3> QED  BY <3>1, <2>8 DEF r
    <2> QED  BY <2>13, <2>14
  <1> QED  BY <1>1, <1>2
-----------------------------------------------------------------------------
(* Solo chains: trimming both ends                                         *)

(* The pairs of ends Trimmed goes through; those with at most n steps      *)
(* between the ends; one step of the trimming, which goes on only while    *)
(* the ends differ.                                                        *)
Cell(start, end) == (start..end) \X (start..end)
Narrow(start, end, n) == {z \in Cell(start, end) : z[2] - z[1] <= n}
TrimOf(off, t, z) ==
  CASE off[z] = "upper" -> t[<<z[1], z[2] - 1>>]
    [] off[z] = "lower" -> t[<<z[1] + 1, z[2]>>]
    [] OTHER -> z
Trims(off, start, end) == \A z \in Cell(start, end) : off[z] # "neither" => z[2] - z[1] >= 1

(* A step of the trimming narrows the pair.                                *)
LEMMA TrimStep ==
  ASSUME NEW start \in Int, NEW end \in Int, NEW off, Trims(off, start, end),
         NEW z \in Cell(start, end), off[z] # "neither", NEW n \in Nat, z[2] - z[1] <= n
  PROVE  /\ n - 1 \in Nat
         /\ <<z[1], z[2] - 1>> \in Narrow(start, end, n - 1)
         /\ <<z[1] + 1, z[2]>> \in Narrow(start, end, n - 1)
  <1> DEFINE b == z[1]
             e == z[2]
  <1>1. b \in start..end /\ e \in start..end /\ e - b >= 1 /\ e - b <= n
    BY DEF Cell, Trims
  <1> HIDE DEF b, e
  <1>2. /\ n - 1 \in Nat /\ e - 1 \in start..end /\ b + 1 \in start..end
        /\ (e - 1) - b <= n - 1 /\ e - (b + 1) <= n - 1
    BY <1>1
  <1>3. /\ n - 1 \in Nat /\ <<b, e - 1>> \in Narrow(start, end, n - 1)
        /\ <<b + 1, e>> \in Narrow(start, end, n - 1)
    BY <1>1, <1>2 DEF Narrow, Cell
  <1> QED  BY <1>3 DEF b, e

(* The recursion of Trimmed is well defined: there is a function that      *)
(* satisfies it, by induction on the distance of the ends.                 *)
LEMMA TrimExists ==
  ASSUME NEW start \in Int, NEW end \in Int, NEW off, Trims(off, start, end), NEW n \in Nat,
         \A z \in Cell(start, end) : off[z] \in {"upper", "lower", "neither"}
  PROVE  \E t \in [Narrow(start, end, n) -> Cell(start, end)] :
            \A z \in Narrow(start, end, n) : t[z] = TrimOf(off, t, z)
  <1> DEFINE C == Cell(start, end)
             W(k) == Narrow(start, end, k)
             Good(k) == \E t \in [W(k) -> C] : \A z \in W(k) : t[z] = TrimOf(off, t, z)
             Bad == {k \in Nat : ~Good(k)}
  <1>1. Bad = {}
    <2> SUFFICES ASSUME Bad # {}  PROVE FALSE
      OBVIOUS
    <2>1. Bad \in SUBSET Nat
      OBVIOUS
    <2> HIDE DEF Bad
    <2>2. PICK k \in Bad : \A j \in Bad : k <= j
      BY <2>1, LeastOfNat
    <2>3. k \in Nat /\ ~Good(k)
      BY <2>2 DEF Bad
    <2>4. CASE \A z \in W(k) : off[z] = "neither"
      <3> DEFINE t == [z \in W(k) |-> z]
      <3>1. t \in [W(k) -> C]
        BY DEF Narrow
      <3>2. \A z \in W(k) : t[z] = TrimOf(off, t, z)
        BY <2>4 DEF TrimOf
      <3> HIDE DEF t
      <3> QED  BY <3>1, <3>2, <2>3
    <2>5. CASE ~ \A z \in W(k) : off[z] = "neither"
      <3>1. PICK y \in W(k) : off[y] # "neither"
        BY <2>5
      <3>2. k - 1 \in Nat
        <4>1. y \in C /\ y[2] - y[1] <= k
          BY DEF Narrow
        <4> QED  BY <3>1, <4>1, <2>3, TrimStep
      <3>3. Good(k - 1)
        <4>1. k - 1 \notin Bad
          BY <2>2, <2>3, <3>2
        <4> QED  BY <3>2, <4>1 DEF Bad
      <3>4. PICK u \in [W(k - 1) -> C] : \A z \in W(k - 1) : u[z] = TrimOf(off, u, z)
        BY <3>3
      <3>5. ASSUME NEW z \in W(k), off[z] # "neither"
            PROVE  <<z[1], z[2] - 1>> \in W(k - 1) /\ <<z[1] + 1, z[2]>> \in W(k - 1)
        <4>1. z \in C /\ z[2] - z[1] <= k
          BY DEF Narrow
        <4> QED  BY <3>5, <4>1, <2>3, TrimStep
      <3>6. W(k - 1) \subseteq W(k)
        <4>1. \A z \in C : z[1] \in Int /\ z[2] \in Int
          BY DEF Cell
        <4>2. \A z \in C : z[2] - z[1] <= k - 1 => z[2] - z[1] <= k
          BY <4>1, <2>3
        <4> QED  BY <4>2 DEF Narrow
      <3> DEFINE t == [z \in W(k) |-> TrimOf(off, u, z)]
      <3>7. ASSUME NEW z \in W(k)
            PROVE  t[z] = TrimOf(off, u, z) /\ t[z] \in C
        <4>1. t[z] = TrimOf(off, u, z)
          OBVIOUS
        <4>2. z \in C
          BY DEF Narrow
        <4>3. TrimOf(off, u, z) \in C
          <5>1. CASE off[z] = "neither"
            BY <5>1, <4>2 DEF TrimOf
          <5>2. CASE off[z] # "neither"
            <6>1. u[<<z[1], z[2] - 1>>] \in C /\ u[<<z[1] + 1, z[2]>>] \in C
              <7> HIDE DEF C, W
              <7> QED  BY <3>5, <3>4, <5>2
            <6> QED  BY <6>1, <5>2, <4>2 DEF TrimOf
          <5> QED  BY <5>1, <5>2
        <4> QED  BY <4>1, <4>3
      <3>8. \A z \in W(k - 1) : t[z] = u[z]
        BY <3>4, <3>6, <3>7
      <3>9. t \in [W(k) -> C]
        BY <3>7
      <3>10. \A z \in W(k) : t[z] = TrimOf(off, t, z)
        <4> SUFFICES ASSUME NEW z \in W(k)  PROVE t[z] = TrimOf(off, t, z)
          OBVIOUS
        <4>1. t[z] = TrimOf(off, u, z)
          BY <3>7
        <4>2. off[z] # "neither" => /\ t[<<z[1], z[2] - 1>>] = u[<<z[1], z[2] - 1>>]
                                    /\ t[<<z[1] + 1, z[2]>>] = u[<<z[1] + 1, z[2]>>]
          <5> HIDE DEF t, W, C
          <5> QED  BY <3>5, <3>8
        <4>3. off[z] \in {"upper", "lower", "neither"}
          BY DEF Narrow
        <4> HIDE DEF t, W, C
        <4> QED  BY <4>1, <4>2, <4>3 DEF TrimOf
      <3> HIDE DEF t
      <3> QED  BY <3>9, <3>10, <2>3
    <2> QED  BY <2>4, <2>5
  <1> QED  BY <1>1

(* What Trimmed returns lies within the ends it was given, in order.       *)
LEMMA TrimmedFacts ==
  ASSUME NEW start \in Int, NEW end \in Int, start <= end, NEW off, Trims(off, start, end),
         \A z \in Cell(start, end) : off[z] \in {"upper", "lower", "neither"}
  PROVE  \E b \in start..end : \E e \in b..end : Trimmed(off, start, end) = <<b, e>>
  <1> DEFINE C == Cell(start, end)
             n == end - start
             Def(t) == t = [z \in C |-> CASE off[z] = "upper" -> t[<<z[1], z[2] - 1>>]
                                          [] off[z] = "lower" -> t[<<z[1] + 1, z[2]>>]
                                          [] OTHER -> z]
             trim == CHOOSE t : Def(t)
  <1>1. n \in Nat
    OBVIOUS
  <1>2. Narrow(start, end, n) = C
    <2>1. \A z \in C : z[1] \in start..end /\ z[2] \in start..end
      BY DEF Cell
    <2>2. \A z \in C : z[2] - z[1] <= n
      BY <2>1
    <2> QED  BY <2>2 DEF Narrow
  <1>3. \E t : Def(t)
    <2>1. PICK t \in [C -> C] : \A z \in C : t[z] = TrimOf(off, t, z)
      <3> HIDE DEF C, n
      <3> QED  BY <1>1, <1>2, TrimExists DEF C
    <2>2. t = [z \in C |-> TrimOf(off, t, z)]
      <3> HIDE DEF C
      <3> QED  BY <2>1
    <2>3. Def(t)
      BY <2>2 DEF TrimOf
    <2> HIDE DEF Def
    <2> QED  BY <2>3
  <1>4. Def(trim)
    <2> HIDE DEF Def
    <2> QED  BY <1>3
  <1>5. Trimmed(off, start, end) = trim[<<start, end>>]
    BY DEF Trimmed, Cell
  <1>6. \A z \in C : trim[z] = TrimOf(off, trim, z)
    <2>1. trim = [z \in C |-> TrimOf(off, trim, z)]
      BY <1>4 DEF TrimOf
    <2> HIDE DEF trim
    <2> QED  BY <2>1
  <1> HIDE DEF trim, Def
  <1> DEFINE Ends(z) == z[1] <= z[2] => \E b \in z[1]..z[2] : \E e \in b..z[2] : trim[z] = <<b, e>>
             Bad == {k \in Nat : \E z \in C : z[2] - z[1] = k /\ ~Ends(z)}
  <1>7. Bad = {}
    <2> SUFFICES ASSUME Bad # {}  PROVE FALSE
      OBVIOUS
    <2>1. Bad \in SUBSET Nat
      OBVIOUS
    <2> HIDE DEF Bad
    <2>2. PICK k \in Bad : \A j \in Bad : k <= j
      BY <2>1, LeastOfNat
    <2>3. k \in Nat /\ \E z \in C : z[2] - z[1] = k /\ ~Ends(z)
      BY <2>2 DEF Bad
    <2>4. PICK z \in C : z[2] - z[1] = k /\ ~Ends(z)
      BY <2>3
    <2>5. z[1] \in start..end /\ z[2] \in start..end /\ z = <<z[1], z[2]>>
      BY DEF Cell
    <2>6. z[1] <= z[2]
      BY <2>4
    <2>7. CASE off[z] = "neither"
      <3>1. trim[z] = <<z[1], z[2]>>
        BY <1>6, <2>5, <2>7 DEF TrimOf
      <3>2. Ends(z)
        BY <2>5, <2>6, <3>1
      <3> QED  BY <3>2, <2>4
    <2>8. CASE off[z] # "neither"
      <3> DEFINE up == <<z[1], z[2] - 1>>
                 lo == <<z[1] + 1, z[2]>>
      <3>1. z[2] - z[1] >= 1
        BY <2>8 DEF Trims
      <3>2. up \in C /\ lo \in C /\ k - 1 \in Nat
        BY <2>4, <2>5, <3>1 DEF Cell
      <3>3. up[1] = z[1] /\ up[2] = z[2] - 1 /\ lo[1] = z[1] + 1 /\ lo[2] = z[2]
        OBVIOUS
      <3>4. k - 1 \notin Bad
        BY <2>2, <2>3, <3>2
      <3>5. \A y \in C : y[2] - y[1] = k - 1 => Ends(y)
        <4> HIDE DEF Ends, C
        <4> QED  BY <3>2, <3>4 DEF Bad
      <3>6. up[2] - up[1] = k - 1 /\ lo[2] - lo[1] = k - 1
        BY <2>4, <2>5
      <3>7. Ends(up) /\ Ends(lo)
        <4> HIDE DEF Ends, C, up, lo
        <4> QED  BY <3>2, <3>5, <3>6
      <3>8. trim[z] = trim[up] \/ trim[z] = trim[lo]
        <4>1. off[z] \in {"upper", "lower"}
          BY <2>8
        <4>2. trim[z] = TrimOf(off, trim, z)
          BY <1>6
        <4> QED  BY <4>1, <4>2 DEF TrimOf
      <3>9. ASSUME trim[z] = trim[up]  PROVE Ends(z)
        <4>1. PICK b \in z[1]..(z[2] - 1) : \E e \in b..(z[2] - 1) : trim[up] = <<b, e>>
          <5>1. up[1] <= up[2]
            BY <3>1, <3>3, <2>5
          <5> QED  BY <5>1, <3>3, <3>7
        <4>2. PICK e \in b..(z[2] - 1) : trim[up] = <<b, e>>
          BY <4>1
        <4>3. b \in z[1]..z[2] /\ e \in b..z[2]
          BY <2>5, <4>1, <4>2
        <4> QED  BY <3>9, <4>2, <4>3
      <3>10. ASSUME trim[z] = trim[lo]  PROVE Ends(z)
        <4>1. PICK b \in (z[1] + 1)..z[2] : \E e \in b..z[2] : trim[lo] = <<b, e>>
          <5>1. lo[1] <= lo[2]
            BY <3>1, <3>3, <2>5
          <5> QED  BY <5>1, <3>3, <3>7
        <4>2. PICK e \in b..z[2] : trim[lo] = <<b, e>>
          BY <4>1
        <4>3. b \in z[1]..z[2]
          BY <2>5, <4>1
        <4> QED  BY <3>10, <4>2, <4>3
      <3> QED  BY <3>8, <3>9, <3>10, <2>4
    <2> QED  BY <2>7, <2>8
  <1>8. <<start, end>> \in C
    BY DEF Cell
  <1>9. Ends(<<start, end>>)
    <2> DEFINE z == <<start, end>>
    <2>1. z[2] - z[1] = n /\ z \in C
      BY <1>8
    <2> HIDE DEF Ends, z, C, n
    <2>2. n \notin Bad
      BY <1>7
    <2>3. Ends(z)
      BY <1>1, <2>1, <2>2 DEF Bad
    <2> QED  BY <2>3 DEF z
  <1> QED  BY <1>5, <1>9
-----------------------------------------------------------------------------
(* Solo chains: shortening and optimizing                                  *)

(* Shorten puts back what it takes off.                                    *)
LEMMA ShortenTurn ==
  ASSUME NEW s \in SoloSplits, NEW k \in 1..Len(Chains(s))
  PROVE  SoloTurn(s, Shorten(s, k))
  <1> DEFINE h == Chains(s)[k]
             b == h.keyPoint
             e == End(h)
             off == [z \in (b..e) \X (b..e) |->
                       CASE z[2] - z[1] >= SoloLen /\ s.cards[z[1]] > 0 /\ s.cards[z[1]] >= s.cards[z[2]] -> "lower"
                         [] z[2] - z[1] >= SoloLen /\ s.cards[z[2]] > s.cards[z[1]] -> "upper"
                         [] OTHER -> "neither"]
             kept == IF h.len > SoloLen THEN Trimmed(off, b, e) ELSE <<b, e>>
  <1>1. h \in SoloChains
    BY ChainsOf
  <1>2. b \in Nat /\ h.len \in Nat /\ e \in Int /\ e = b + h.len - 1
    BY <1>1, ChainFacts
  <1>3. Shorten(s, k) = Cut(s, k, kept[1], kept[2])
    BY DEF Shorten
  <1>4. \E x, y \in Int : kept = <<x, y>> /\ b <= x /\ y <= e /\ x <= y + 1
    <2>1. CASE h.len > SoloLen
      <3>1. b <= e
        BY <1>2, <2>1, GameSize
      <3>2. ASSUME NEW z \in Cell(b, e)
            PROVE  /\ off[z] \in {"upper", "lower", "neither"}
                   /\ off[z] # "neither" => z[2] - z[1] >= 1
        <4>1. z \in (b..e) \X (b..e)
          BY DEF Cell
        <4>2. z[1] \in b..e /\ z[2] \in b..e
          BY <4>1
        <4>3. off[z] = CASE z[2] - z[1] >= SoloLen /\ s.cards[z[1]] > 0 /\ s.cards[z[1]] >= s.cards[z[2]] -> "lower"
                         [] z[2] - z[1] >= SoloLen /\ s.cards[z[2]] > s.cards[z[1]] -> "upper"
                         [] OTHER -> "neither"
          BY <4>1
        <4>4. off[z] \in {"upper", "lower", "neither"} /\ (off[z] # "neither" => z[2] - z[1] >= SoloLen)
          <5> HIDE DEF off
          <5> QED  BY <4>3
        <4> HIDE DEF off
        <4> QED  BY <4>2, <4>4, <1>2, GameSize
      <3>3. Trims(off, b, e)
        <4> HIDE DEF off
        <4> QED  BY <3>2 DEF Trims
      <3> HIDE DEF off, b, e
      <3>4. \E x \in b..e : \E y \in x..e : Trimmed(off, b, e) = <<x, y>>
        BY <1>2, <3>1, <3>2, <3>3, TrimmedFacts
      <3>5. PICK x \in b..e : \E y \in x..e : Trimmed(off, b, e) = <<x, y>>
        BY <3>4
      <3>6. PICK y \in x..e : Trimmed(off, b, e) = <<x, y>>
        BY <3>5
      <3>7. x \in Int /\ y \in Int /\ b <= x /\ y <= e /\ x <= y + 1
        BY <1>2
      <3>8. kept = <<x, y>>
        BY <2>1, <3>6
      <3> QED  BY <3>7, <3>8
    <2>2. CASE ~(h.len > SoloLen)
      <3>1. kept = <<b, e>>
        BY <2>2
      <3>2. b \in Int /\ e \in Int /\ b <= b /\ e <= e /\ b <= e + 1
        BY <1>2
      <3> HIDE DEF b, e, kept
      <3> QED  BY <3>1, <3>2
    <2> QED  BY <2>1, <2>2
  <1> HIDE DEF kept
  <1>5. PICK x, y \in Int : kept = <<x, y>> /\ b <= x /\ y <= e /\ x <= y + 1
    BY <1>4
  <1>6. SoloTurn(s, Cut(s, k, x, y))
    BY <1>5, CutTurn
  <1> QED  BY <1>3, <1>5, <1>6

(* Optimize puts back what it takes off both ends; that a chain it cuts    *)
(* twice is not shorter than nothing is the last conjunct of               *)
(* SplitAssumption.                                                        *)
LEMMA OptimizeTurn ==
  ASSUME NEW s \in SoloSplits, NEW k \in 1..Len(Chains(s))
  PROVE  SoloTurn(s, Optimize(s, k))
  <1> DEFINE h == Chains(s)[k]
             most == h.len - SoloLen
             L == {n \in 0..most : \A j \in 0..(n - 1) : s.cards[h.keyPoint + j] > 0}
             U == {n \in 0..most : \A j \in 0..(n - 1) : s.cards[End(h) - j] > 0}
             ll == Max(L)
             hl == Max(U)
             low == ll >= PairLen /\ (ll >= hl \/ ll + hl <= most)
             high == hl >= PairLen /\ (hl > ll \/ ll + hl <= most)
             start == IF low THEN h.keyPoint + ll ELSE h.keyPoint
             end == IF high THEN End(h) - ll ELSE End(h)
  <1>1. h \in SoloChains
    BY ChainsOf
  <1>2. h.keyPoint \in Nat /\ h.len \in Nat /\ End(h) \in Int /\ End(h) = h.keyPoint + h.len - 1
        /\ End(h) <= LastChain
    BY <1>1, ChainFacts
  <1>3. Optimize(s, k) = IF most < PairLen THEN s ELSE Cut(s, k, start, end)
    BY DEF Optimize
  <1>4. CASE most < PairLen
    BY <1>3, <1>4, SoloReflexive
  <1>5. CASE ~(most < PairLen)
    <2>1. most \in Nat
      BY <1>2, <1>5, GameSize
    <2>2. 0 \in L /\ 0 \in U
      BY <2>1
    <2>3. ll \in 0..most /\ hl \in 0..most
      <3>1. L \in SUBSET (0..most) /\ L # {} /\ U \in SUBSET (0..most) /\ U # {}
        BY <2>2
      <3> HIDE DEF L, U, most
      <3> QED  BY <2>1, <3>1, MaxFacts
    <2>4. start \in Int /\ end \in Int /\ h.keyPoint <= start /\ end <= End(h) /\ start <= end + 1
      <3> DEFINE b == h.keyPoint
                 n == h.len
                 e == End(h)
      <3>1. b \in Nat /\ n \in Nat /\ e = b + n - 1 /\ e <= LastChain /\ most = n - SoloLen
        BY <1>2
      <3> HIDE DEF ll, hl, b, n, e, most
      <3>2. /\ start = (IF low THEN b + ll ELSE b)
            /\ end = (IF high THEN e - ll ELSE e)
        BY DEF b, e
      <3>3. n <= LastChain + 1 /\ e \in Int /\ ll \in Int /\ hl \in Int /\ 0 <= ll /\ ll <= most /\ 0 <= hl /\ hl <= most
        BY <3>1, <2>1, <2>3, GameSize
      <3>4. CASE low /\ high
        <4>1. ll + hl <= most /\ hl >= PairLen
          BY <3>3, <3>4
        <4>2. ll <= n - SoloLen - PairLen
          BY <4>1, <3>1, <3>3, GameSize
        <4>3. 2 * ll <= n
          <5> DEFINE sp == SoloLen + PairLen
          <5>1. sp \in Nat /\ n <= 2 * sp /\ ll <= n - sp
            <6>1. LastChain + 1 <= 2 * sp /\ sp \in Nat
              BY GameSize
            <6> HIDE DEF sp
            <6>2. n <= 2 * sp
              BY <3>1, <3>3, <6>1, GameSize
            <6>3. ll <= n - sp
              BY <4>2, <3>1, <3>3, GameSize DEF sp
            <6> QED  BY <6>1, <6>2, <6>3
          <5> HIDE DEF sp
          <5> QED  BY <5>1, <3>1, <3>3
        <4> HIDE DEF start, end, low, high
        <4>4. start = b + ll /\ end = e - ll
          BY <3>2, <3>4
        <4>5. start \in Int /\ end \in Int /\ b <= start /\ end <= e /\ start <= end + 1
          BY <4>3, <4>4, <3>1, <3>3
        <4> QED  BY <4>5 DEF b, e
      <3>5. CASE ~(low /\ high)
        <4>1. start \in {b, b + ll} /\ end \in {e, e - ll} /\ (start = b \/ end = e)
          BY <3>2, <3>5
        <4> HIDE DEF start, end, low, high
        <4>2. ll <= n
          BY <3>1, <3>3, GameSize
        <4>3. start \in Int /\ end \in Int /\ b <= start /\ end <= e /\ start <= end + 1
          BY <4>1, <4>2, <3>1, <3>3
        <4> QED  BY <4>3 DEF b, e
      <3> QED  BY <3>4, <3>5
    <2> HIDE DEF start, end
    <2>5. SoloTurn(s, Cut(s, k, start, end))
      BY <2>4, CutTurn
    <2> QED  BY <2>5, <1>3, <1>5
  <1> QED  BY <1>4, <1>5
-----------------------------------------------------------------------------
(* Solo chains: finding them, and the whole routine                        *)

(* TakeSoloChains takes one card of each point of the chains it adds.      *)
LEMMA TakeTurn ==
  ASSUME NEW s \in SoloSplits, NEW p \in Nat, p + SoloLen - 1 <= LastChain
  PROVE  SoloTurn(s, TakeSoloChains(s, p))
  <1> DEFINE a == Chains(s)
             e == p + SoloLen - 1
             body == p..e
             M == {m \in 0..4 : m = 0 \/ \A q \in body : s.cards[q] >= m}
             n == Max(M)
             x == ChainOf("SOLO_CHAIN", p, SoloLen)
             new == [j \in 1..n |-> x]
             c == Minus(s.cards, body, n)
  <1>1. a \in Seq(SoloChains) /\ a \in Lists /\ s \in Splits /\ a = Hands(s.handMap, "SOLO_CHAIN")
        /\ s.cards \in [Point -> Int]
    BY ChainsOf
  <1>2. n \in M /\ n \in 0..4
    <2>1. M \in SUBSET (0..4) /\ M # {}
      BY 0 \in M
    <2> HIDE DEF M
    <2> QED  BY <2>1, MaxFacts
  <1>3. \A q \in body : n > 0 => s.cards[q] >= n
    <2>1. n = 0 \/ \A q \in body : s.cards[q] >= n
      BY <1>2
    <2> HIDE DEF n
    <2> QED  BY <2>1, <1>2
  <1> HIDE DEF M, n, a
  <1>4. x \in SoloChains /\ x \in Hand /\ \A q \in Point : Pts(x, q) = IF q \in body THEN 1 ELSE 0
    <2>1. x = [type |-> "SOLO_CHAIN", keyPoint |-> p, len |-> SoloLen, kicker |-> <<>>]
      BY DEF ChainOf
    <2>2. "SOLO_CHAIN" \in HandType /\ p \in Point /\ SoloLen \in Nat
      BY GameSize DEF HandType, ChainTypes
    <2>3. x \in Hand /\ x.type = "SOLO_CHAIN" /\ x.kicker = <<>> /\ End(x) = e /\ x.keyPoint = p
      <3>1. <<>> \in Seq(Point)
        BY EmptySeq
      <3> HIDE DEF x
      <3>2. x.type = "SOLO_CHAIN" /\ x.kicker = <<>> /\ x.keyPoint = p /\ x.len = SoloLen
        BY <2>1
      <3>3. x \in Hand
        BY <2>1, <2>2, <3>1 DEF Hand
      <3> QED  BY <3>2, <3>3 DEF End
    <2> HIDE DEF x
    <2>4. x \in SoloChains
      BY <2>3 DEF SoloChains, Shaped, BareChains, Bare
    <2> QED  BY <2>3, <2>4, ChainFacts
  <1> HIDE DEF x
  <1>5. new \in Seq(SoloChains) /\ new \in Lists /\ Len(new) = n /\ \A j \in 1..n : new[j] = x
    <2>1. n \in Nat
      BY <1>2
    <2>2. new \in Seq(SoloChains) /\ Len(new) = n
      BY <1>4, <2>1
    <2>3. new \in Lists
      BY <1>4, <2>1 DEF Lists
    <2> QED  BY <2>2, <2>3
  <1> HIDE DEF new
  <1>6. a \o new \in Seq(SoloChains)
    BY <1>1, <1>5, ConcatProperties
  <1>7. c \in [Point -> Int] /\ \A q \in Point : c[q] = IF q \in body THEN s.cards[q] - n ELSE s.cards[q]
    BY <1>1, <1>2 DEF Minus
  <1>8. ASSUME NEW q \in Point
        PROVE  /\ InList(a \o new, q) + c[q] = InList(a, q) + s.cards[q]
               /\ c[q] >= 0 \/ c[q] >= s.cards[q]
    <2>1. InList(a \o new, q) = InList(a, q) + InList(new, q)
      BY <1>1, <1>5, InListOfTwo
    <2>2. CASE q \in body
      <3>1. \A j \in 1..Len(new) : Pts(new[j], q) = 1
        BY <1>4, <1>5, <2>2
      <3>2. InList(new, q) = n
        BY <1>5, <3>1, InListOfOnes
      <3>3. c[q] = s.cards[q] - n /\ s.cards[q] \in Int /\ InList(a, q) \in Nat /\ n \in Nat
        BY <1>1, <1>2, <1>7, <2>2, InListIsSum
      <3>4. n = 0 \/ s.cards[q] >= n
        BY <1>3, <2>2, <1>2
      <3> DEFINE i == InList(a, q)
                 v == s.cards[q]
                 w == c[q]
      <3>5. /\ InList(a \o new, q) = i + n /\ i \in Nat /\ v \in Int /\ n \in Nat /\ w = v - n /\ (n = 0 \/ v >= n)
        BY <2>1, <3>2, <3>3, <3>4
      <3> HIDE DEF i, v, w, c
      <3>6. (i + n) + w = i + v /\ (w >= 0 \/ w >= v)
        BY <3>5
      <3> QED  BY <3>5, <3>6 DEF i, v, w
    <2>3. CASE q \notin body
      <3>1. \A j \in 1..Len(new) : Pts(new[j], q) = 0
        BY <1>4, <1>5, <2>3
      <3>2. InList(new, q) = 0
        BY <1>5, <3>1, InListNever
      <3>3. c[q] = s.cards[q] /\ s.cards[q] \in Int /\ InList(a, q) \in Nat
        BY <1>1, <1>7, <2>3, InListIsSum
      <3> HIDE DEF c
      <3> QED  BY <2>1, <3>2, <3>3
    <2> QED  BY <2>2, <2>3
  <1> HIDE DEF c
  <1>9. SoloTurn(s, InWork(c, SetChains(s, a \o new)))
    BY <1>1, <1>6, <1>7, <1>8, SetChainsKeeps
  <1>10. TakeSoloChains(s, p) = InWork(c, SetChains(s, a \o new))
    BY DEF TakeSoloChains, c, a, new, n, M, x
  <1> QED  BY <1>9, <1>10

(* findSoloChains, the loop over the points, keeps the cards.              *)
LEMMA FindSoloChains ==
  ASSUME NEW s \in Splits
  PROVE  SoloTurn(s, findSoloChains(s))
  <1> DEFINE base == InWork(s.cards, Touch(s.handMap, {"SOLO_CHAIN"}))
             n == LastChain - SoloLen + 2
             seq == [j \in 1..n |-> j - 1]
             S == 1..n
             A == {t \in SoloSplits : SoloTurn(s, t)}
             F == [z \in A \X S |-> TakeSoloChains(z[1], seq[z[2]])]
             Def(g) == g = [T \in SUBSET DOMAIN seq |->
                              IF T = {} THEN base ELSE TakeSoloChains(g[T \ {Max(T)}], seq[Max(T)])]
             h == CHOOSE g : Def(g)
  <1>1. n \in Nat /\ DOMAIN seq = S
    BY GameSize
  <1>2. base \in A
    <2>1. s.handMap \in Maps /\ s.cards \in [Point -> Int] /\ {"SOLO_CHAIN"} \in SUBSET HandType
      BY DEF Splits, HandType, ChainTypes
    <2>2. /\ Touch(s.handMap, {"SOLO_CHAIN"}) \in Maps
          /\ "SOLO_CHAIN" \in DOMAIN Touch(s.handMap, {"SOLO_CHAIN"})
          /\ \A u \in HandType : Hands(Touch(s.handMap, {"SOLO_CHAIN"}), u) = Hands(s.handMap, u)
          /\ \A p \in Point : InMap(Touch(s.handMap, {"SOLO_CHAIN"}), p) = InMap(s.handMap, p)
      BY <2>1, TouchFacts
    <2>3. base \in Splits /\ base.cards = s.cards /\ base.handMap = Touch(s.handMap, {"SOLO_CHAIN"})
      BY <2>1, <2>2 DEF InWork, Splits
    <2> HIDE DEF base
    <2>4. \A p \in Point : s.cards[p] \in Int
      BY <2>1
    <2> QED  BY <2>2, <2>3, <2>4 DEF SoloTurn, KeepsBut, Kept, SoloSplits
  <1>3. ASSUME NEW t \in A, NEW j \in S
        PROVE  TakeSoloChains(t, seq[j]) \in A
    <2>1. seq[j] \in Nat /\ seq[j] + SoloLen - 1 <= LastChain
      BY GameSize
    <2> HIDE DEF seq
    <2>2. SoloTurn(t, TakeSoloChains(t, seq[j]))
      BY <2>1, TakeTurn
    <2>3. SoloTurn(s, TakeSoloChains(t, seq[j]))
      BY <2>2, SoloTransitive
    <2> QED  BY <2>3 DEF SoloTurn, KeepsBut, SoloSplits
  <1>4. Steps(F, 1..n, A)
    <2>1. \A z \in A \X S : F[z] = TakeSoloChains(z[1], seq[z[2]])
      OBVIOUS
    <2>2. \A a \in A, j \in S : F[<<a, j>>] = TakeSoloChains(a, seq[j])
      BY <2>1
    <2> HIDE DEF F, A, seq
    <2> QED  BY <1>3, <2>2 DEF Steps
  <1>5. PICK g \in [SUBSET S -> A] : \A T \in SUBSET S :
           g[T] = IF T = {} THEN base ELSE F[<<g[T \ {Max(T)}], Max(T)>>]
    <2> HIDE DEF A, F, base, n
    <2>1. n \in Nat /\ base \in A /\ Steps(F, 1..n, A)
      BY <1>1, <1>2, <1>4
    <2>2. \E g \in [SUBSET (1..n) -> A] : IsLoop(g, F, base, n)
      BY <2>1, LoopExists
    <2> QED  BY <2>2 DEF IsLoop
  <1>6. Def(g)
    <2>1. \A T \in SUBSET S : T # {} => Max(T) \in S /\ g[T \ {Max(T)}] \in A
      <3> HIDE DEF A, n
      <3> QED  BY <1>1, <1>5, LastOfSome
    <2>2. \A T \in SUBSET S : T # {} => F[<<g[T \ {Max(T)}], Max(T)>>] = TakeSoloChains(g[T \ {Max(T)}], seq[Max(T)])
      <3> HIDE DEF A, S, seq
      <3> QED  BY <2>1
    <2>3. \A T \in SUBSET S : g[T] = IF T = {} THEN base ELSE TakeSoloChains(g[T \ {Max(T)}], seq[Max(T)])
      <3> HIDE DEF F, A, S, seq, base
      <3> QED  BY <1>5, <2>2
    <2> HIDE DEF A, F, S, seq, base
    <2> QED  BY <1>1, <1>5, <2>3
  <1>7. Def(h)
    <2> HIDE DEF Def
    <2> QED  BY <1>6
  <1>8. h[1..n] \in A
    <2>1. \A T \in SUBSET S : h[T] = IF T = {} THEN base ELSE TakeSoloChains(h[T \ {Max(T)}], seq[Max(T)])
      <3> HIDE DEF h, seq, base, S
      <3> QED  BY <1>1, <1>7
    <2> HIDE DEF h, Def
    <2>2. h[{}] \in A
      <3> HIDE DEF base, A
      <3> QED  BY <2>1, <1>2
    <2>3. \A T \in SUBSET S : (T # {} /\ h[T \ {Max(T)}] \in A) => h[T] \in A
      <3> SUFFICES ASSUME NEW T \in SUBSET S, T # {}, h[T \ {Max(T)}] \in A  PROVE h[T] \in A
        OBVIOUS
      <3>1. Max(T) \in S
        <4> HIDE DEF n
        <4> QED  BY <1>1, LastOfSome
      <3> HIDE DEF base, A, S, seq
      <3> QED  BY <2>1, <1>3, <3>1
    <2> HIDE DEF A, n
    <2> QED  BY <1>1, <2>2, <2>3, LoopStays
  <1>9. findSoloChains(s) = h[1..n]
    BY <1>1 DEF findSoloChains, FoldLeft, MapThenFoldSet
  <1> QED  BY <1>8, <1>9

(* The four passes of getSoloChain over the chains.                        *)
Turns == {"expand", "merge", "optimize", "shorten"}

(* One turn of a pass keeps the cards.                                     *)
LEMMA TurnKeeps ==
  ASSUME NEW s \in SoloSplits, NEW k \in 1..Len(Chains(s)), NEW name \in Turns
  PROVE  SoloTurn(s, ChainTurn(name, s, k))
  BY ExpandTurn, MergeTurn, OptimizeTurn, ShortenTurn DEF ChainTurn, Turns

(* A pass over all chains keeps the cards, though the list changes under   *)
(* it.                                                                     *)
LEMMA OverChainsKeeps ==
  ASSUME NEW s \in SoloSplits, NEW name \in Turns
  PROVE  SoloTurn(s, OverChains(name, s))
  <1> DEFINE Step(t, k) == IF k <= Len(Chains(t)) THEN ChainTurn(name, t, k) ELSE t
             n == Len(Chains(s))
             seq == [k \in DOMAIN Chains(s) |-> k]
             S == 1..n
             A == {t \in SoloSplits : SoloTurn(s, t)}
             F == [z \in A \X S |-> Step(z[1], z[2])]
             Def(g) == g = [T \in SUBSET DOMAIN seq |->
                              IF T = {} THEN s ELSE Step(g[T \ {Max(T)}], seq[Max(T)])]
             h == CHOOSE g : Def(g)
  <1>1. n \in Nat /\ DOMAIN seq = S /\ \A k \in S : seq[k] = k
    BY ChainsOf
  <1>2. s \in A /\ s \in Splits
    BY SoloReflexive DEF SoloSplits
  <1>3. ASSUME NEW t \in A, NEW k \in S
        PROVE  Step(t, k) \in A
    <2>1. CASE k <= Len(Chains(t))
      <3>1. k \in 1..Len(Chains(t))
        BY <1>1, <2>1, ChainsOf
      <3>2. SoloTurn(t, ChainTurn(name, t, k))
        BY <3>1, TurnKeeps
      <3>3. SoloTurn(s, ChainTurn(name, t, k))
        BY <1>2, <3>2, SoloTransitive
      <3> QED  BY <2>1, <3>3 DEF SoloTurn, KeepsBut, SoloSplits
    <2>2. CASE ~(k <= Len(Chains(t)))
      BY <2>2
    <2> QED  BY <2>1, <2>2
  <1>4. Steps(F, 1..n, A)
    <2>1. \A z \in A \X S : F[z] = Step(z[1], z[2])
      OBVIOUS
    <2>2. \A a \in A, j \in S : F[<<a, j>>] = Step(a, j)
      BY <2>1
    <2> HIDE DEF F, A, Step
    <2> QED  BY <1>3, <2>2 DEF Steps
  <1> HIDE DEF Step
  <1>5. PICK g \in [SUBSET S -> A] : \A T \in SUBSET S :
           g[T] = IF T = {} THEN s ELSE F[<<g[T \ {Max(T)}], Max(T)>>]
    <2> HIDE DEF A, F, n
    <2>1. n \in Nat /\ s \in A /\ Steps(F, 1..n, A)
      BY <1>1, <1>2, <1>4
    <2>2. \E g \in [SUBSET (1..n) -> A] : IsLoop(g, F, s, n)
      BY <2>1, LoopExists
    <2> QED  BY <2>2 DEF IsLoop
  <1>6. Def(g)
    <2>1. \A T \in SUBSET S : T # {} => Max(T) \in S /\ g[T \ {Max(T)}] \in A
      <3> HIDE DEF A, n
      <3> QED  BY <1>1, <1>5, LastOfSome
    <2>2. \A T \in SUBSET S : T # {} => F[<<g[T \ {Max(T)}], Max(T)>>] = Step(g[T \ {Max(T)}], seq[Max(T)])
      <3>1. \A T \in SUBSET S : T # {} => F[<<g[T \ {Max(T)}], Max(T)>>] = Step(g[T \ {Max(T)}], Max(T))
        <4> HIDE DEF A, S
        <4> QED  BY <2>1
      <3> HIDE DEF A, S, seq, F
      <3> QED  BY <2>1, <3>1, <1>1
    <2>3. \A T \in SUBSET S : g[T] = IF T = {} THEN s ELSE Step(g[T \ {Max(T)}], seq[Max(T)])
      <3> HIDE DEF F, A, S, seq
      <3> QED  BY <1>5, <2>2
    <2> HIDE DEF A, F, S, seq
    <2> QED  BY <1>1, <1>5, <2>3
  <1>7. Def(h)
    <2> HIDE DEF Def
    <2> QED  BY <1>6
  <1>8. h[1..n] \in A
    <2>1. \A T \in SUBSET S : h[T] = IF T = {} THEN s ELSE Step(h[T \ {Max(T)}], seq[Max(T)])
      <3> HIDE DEF h, seq, S
      <3> QED  BY <1>1, <1>7
    <2> HIDE DEF h, Def
    <2>2. h[{}] \in A
      <3> HIDE DEF A
      <3> QED  BY <2>1, <1>2
    <2>3. \A T \in SUBSET S : (T # {} /\ h[T \ {Max(T)}] \in A) => h[T] \in A
      <3> SUFFICES ASSUME NEW T \in SUBSET S, T # {}, h[T \ {Max(T)}] \in A  PROVE h[T] \in A
        OBVIOUS
      <3>1. Max(T) \in S
        <4> HIDE DEF n
        <4> QED  BY <1>1, LastOfSome
      <3> HIDE DEF A, S, seq
      <3>2. h[T] = Step(h[T \ {Max(T)}], Max(T))
        BY <2>1, <1>1, <3>1
      <3>3. Step(h[T \ {Max(T)}], Max(T)) \in A
        BY <1>3, <3>1
      <3> QED  BY <3>2, <3>3
    <2> HIDE DEF A, n
    <2> QED  BY <1>1, <2>2, <2>3, LoopStays
  <1>9. OverChains(name, s) = h[1..n]
    BY <1>1 DEF OverChains, FoldLeft, MapThenFoldSet, Step
  <1> QED  BY <1>8, <1>9

(* getSoloChain keeps the cards.                                           *)
LEMMA GetSoloChainKeeps ==
  ASSUME NEW s \in Splits
  PROVE  SoloTurn(s, getSoloChain(s))
  <1> DEFINE a == findSoloChains(s)
             b == OverChains("expand", a)
             c == OverChains("merge", b)
             d == OverChains("optimize", c)
             e == OverChains("shorten", d)
  <1>1. getSoloChain(s) = e
    BY DEF getSoloChain, optimizeSoloChain, expandSoloChain
  <1>2. \A t : SoloTurn(s, t) => t \in SoloSplits
    BY DEF SoloTurn, KeepsBut, SoloSplits
  <1>3. \A t : SoloTurn(s, t) => \A name \in Turns : SoloTurn(s, OverChains(name, t))
    BY <1>2, OverChainsKeeps, SoloTransitive
  <1>4. {"expand", "merge", "optimize", "shorten"} = Turns
    BY DEF Turns
  <1>5. SoloTurn(s, a)
    BY FindSoloChains
  <1> HIDE DEF a
  <1>6. SoloTurn(s, b)
    BY <1>3, <1>4, <1>5
  <1> HIDE DEF b
  <1>7. SoloTurn(s, c)
    BY <1>3, <1>4, <1>6
  <1> HIDE DEF c
  <1>8. SoloTurn(s, d)
    BY <1>3, <1>4, <1>7
  <1> HIDE DEF d
  <1>9. SoloTurn(s, e)
    BY <1>3, <1>4, <1>8
  <1> QED  BY <1>1, <1>9
-----------------------------------------------------------------------------
(* Hands of one point                                                      *)

(* Adding hands of one type, with any counts left: how what is kept        *)
(* changes.                                                                *)
LEMMA AddKeeps ==
  ASSUME NEW s \in Splits, NEW u \in HandType, NEW hs \in Seq(Shaped(u)), NEW c \in [Point -> Int]
  PROVE  LET t == InWork(c, Add(s.handMap, u, hs))
         IN  /\ t \in Splits /\ t.cards = c
             /\ \A w \in HandType : Hands(t.handMap, w) = IF w = u THEN Hands(s.handMap, u) \o hs
                                                          ELSE Hands(s.handMap, w)
             /\ \A p \in Point : /\ Kept(t, p) = Kept(s, p) + InList(hs, p) + c[p] - s.cards[p]
                                 /\ Kept(s, p) \in Int /\ InList(hs, p) \in Nat
  <1> DEFINE m == s.handMap
             n == Add(m, u, hs)
             t == InWork(c, n)
  <1>1. m \in Maps /\ s.cards \in [Point -> Int]
    BY DEF Splits
  <1> HIDE DEF m
  <1>2. /\ n \in Maps
        /\ \A w \in HandType : Hands(n, w) = IF w = u THEN Hands(m, u) \o hs ELSE Hands(m, w)
        /\ \A p \in Point : InMap(n, p) = InMap(m, p) + InList(hs, p)
    BY <1>1, AddFacts
  <1> HIDE DEF n
  <1>3. t \in Splits /\ t.cards = c /\ t.handMap = n
    BY <1>2 DEF InWork, Splits
  <1>4. ASSUME NEW p \in Point
        PROVE  /\ Kept(t, p) = Kept(s, p) + InList(hs, p) + c[p] - s.cards[p]
               /\ Kept(s, p) \in Int /\ InList(hs, p) \in Nat
    <2>1. InMap(n, p) = InMap(m, p) + InList(hs, p)
      BY <1>2
    <2>2. InMap(m, p) \in Nat /\ InList(hs, p) \in Nat /\ c[p] \in Int /\ s.cards[p] \in Int
      BY <1>1, ShapedAreHands, InMapIsSum, InListIsSum
    <2>3. Kept(t, p) = InMap(n, p) + c[p] /\ Kept(s, p) = InMap(m, p) + s.cards[p]
      BY <1>3 DEF Kept, m
    <2> DEFINE a == InMap(m, p)
               b == InMap(n, p)
               d == InList(hs, p)
               x == c[p]
               y == s.cards[p]
    <2>4. a \in Nat /\ d \in Nat /\ x \in Int /\ y \in Int /\ b = a + d
      BY <2>1, <2>2
    <2>5. b + x = (a + y) + d + x - y /\ a + y \in Int
      <3> HIDE DEF a, b, d, x, y
      <3> QED  BY <2>4
    <2> QED  BY <2>2, <2>3, <2>5
  <1> HIDE DEF t
  <1> QED  BY <1>2, <1>3, <1>4 DEF t, n, m

(* A routine that takes off just the cards of the hands it adds keeps the  *)
(* cards.                                                                  *)
LEMMA TakeKeeps ==
  ASSUME NEW s \in Splits, NEW u \in HandType, NEW hs \in Seq(Shaped(u)), NEW c \in [Point -> Int],
         \A p \in Point : InList(hs, p) + c[p] = s.cards[p],
         \A p \in Point : c[p] >= 0 \/ c[p] >= s.cards[p]
  PROVE  KeepsBut({u}, s, InWork(c, Add(s.handMap, u, hs)))
  <1> DEFINE t == InWork(c, Add(s.handMap, u, hs))
  <1>1. /\ t \in Splits /\ t.cards = c
        /\ \A w \in HandType : Hands(t.handMap, w) = IF w = u THEN Hands(s.handMap, u) \o hs
                                                     ELSE Hands(s.handMap, w)
        /\ \A p \in Point : /\ Kept(t, p) = Kept(s, p) + InList(hs, p) + c[p] - s.cards[p]
                            /\ Kept(s, p) \in Int /\ InList(hs, p) \in Nat
    BY AddKeeps
  <1>2. \A p \in Point : Kept(t, p) = Kept(s, p)
    <2> SUFFICES ASSUME NEW p \in Point  PROVE Kept(t, p) = Kept(s, p)
      OBVIOUS
    <2> DEFINE a == Kept(s, p)
               b == Kept(t, p)
               d == InList(hs, p)
               x == c[p]
               y == s.cards[p]
    <2>1. a \in Int /\ d \in Nat /\ x \in Int /\ y \in Int /\ b = a + d + x - y /\ d + x = y
      <3>1. c[p] \in Int /\ s.cards[p] \in Int
        BY DEF Splits
      <3> HIDE DEF t
      <3> QED  BY <1>1, <3>1
    <2> HIDE DEF a, b, d, x, y
    <2>2. b = a
      BY <2>1
    <2> QED  BY <2>2 DEF a, b
  <1> HIDE DEF t
  <1>3. KeepsBut({u}, s, t)
    BY <1>1, <1>2 DEF KeepsBut
  <1> QED  BY <1>3 DEF t

(* The list of the hands of single points.                                 *)
DistinctKeys(hs) == \A i, j \in DOMAIN hs : hs[i].keyPoint = hs[j].keyPoint => i = j
KeysIn(hs, points) == \A j \in DOMAIN hs : hs[j].keyPoint \in points

(* A hand of one point has that point as often as its type says.           *)
LEMMA SingleHand ==
  ASSUME NEW type \in Bare \cup {"BOMB"}, NEW q \in Point
  PROVE  LET h == HandOf(type, {q}, {})
         IN  /\ h \in Shaped(type) /\ h \in Hand /\ h.keyPoint = q
             /\ \A p \in Point : Pts(h, p) = IF p = q THEN BodyWidth(type) ELSE 0
  <1> DEFINE h == HandOf(type, {q}, {})
  <1>1. Min({q}) = q
    <2>1. {q} \in SUBSET Nat /\ {q} # {}
      BY PointFacts
    <2> QED  BY <2>1, MinFacts
  <1>2. Cardinality({q}) = 1 /\ Ascending({}) = <<>>
    BY FS_Singleton, AscendingEmpty
  <1>3. h = [type |-> type, keyPoint |-> q, len |-> 1, kicker |-> <<>>]
    BY <1>1, <1>2 DEF HandOf
  <1>4. type \in HandType /\ <<>> \in Seq(Point)
    BY EmptySeq DEF Bare, HandType, ChainTypes
  <1>5. h \in Hand
    <2> HIDE DEF h
    <2>1. h = [type |-> type, keyPoint |-> q, len |-> 1, kicker |-> <<>>] /\ 1 \in Nat
      BY <1>3
    <2> QED  BY <2>1, <1>4 DEF Hand
  <1>6. h.type = type /\ h.keyPoint = q /\ h.len = 1 /\ h.kicker = <<>>
    BY <1>3
  <1> HIDE DEF h
  <1>7. h \in Shaped(type)
    BY <1>5, <1>6 DEF Shaped, Bare, BareChains
  <1>8. ASSUME NEW p \in Point
        PROVE  Pts(h, p) = IF p = q THEN BodyWidth(type) ELSE 0
    <2>1. Pts(h, p) = IF p \in h.keyPoint..End(h) THEN BodyWidth(h.type) ELSE 0
      BY <1>5, <1>6, BarePoints
    <2>2. p \in h.keyPoint..End(h) <=> p = q
      <3>1. p \in Nat /\ q \in Nat
        BY PointFacts
      <3>2. h.keyPoint = q /\ End(h) = q
        BY <1>6, <3>1 DEF End
      <3> QED  BY <3>1, <3>2
    <2> QED  BY <2>1, <2>2, <1>6
  <1> QED  BY <1>5, <1>6, <1>7, <1>8 DEF h

(* Singles lists one such hand for each point of a set.                    *)
LEMMA SinglesFacts ==
  ASSUME NEW type \in Bare \cup {"BOMB"}, NEW points \in SUBSET Point
  PROVE  LET hs == Singles(type, points)
         IN  /\ hs \in Seq(Shaped(type)) /\ hs \in Lists
             /\ \A p \in Point : InList(hs, p) = IF p \in points THEN BodyWidth(type) ELSE 0
             /\ DistinctKeys(hs) /\ KeysIn(hs, points)
  <1> DEFINE ps == Ascending(points)
             n == Len(ps)
             hs == Singles(type, points)
  <1>1. /\ ps \in Seq(points) /\ n = Cardinality(points) /\ n \in Nat /\ DOMAIN ps = 1..n
        /\ \A p \in points : \E j \in 1..n : ps[j] = p
        /\ \A i, j \in 1..n : i < j => ps[i] < ps[j]
        /\ \A j \in 1..n : ps[j] \in points /\ ps[j] \in Point /\ ps[j] \in Nat
    <2>1. points \in SUBSET (0..RED_JOKER) /\ RED_JOKER \in Nat
      BY PointFacts
    <2>2. /\ ps \in Seq(points) /\ n = Cardinality(points) /\ n \in Nat
          /\ \A p \in points : \E j \in 1..n : ps[j] = p
          /\ \A i, j \in 1..n : i < j => ps[i] < ps[j]
      BY <2>1, AscendingFacts
    <2> HIDE DEF ps
    <2>3. DOMAIN ps = 1..n /\ \A j \in 1..n : ps[j] \in points
      BY <2>2
    <2>4. \A p \in points : p \in Point /\ p \in Nat
      BY PointFacts
    <2> QED  BY <2>2, <2>3, <2>4
  <1>2. hs = [j \in 1..n |-> HandOf(type, {ps[j]}, {})]
    BY <1>1 DEF Singles
  <1> HIDE DEF ps, n, hs
  <1>3. \A j \in 1..n : /\ hs[j] = HandOf(type, {ps[j]}, {})
                        /\ hs[j] \in Shaped(type) /\ hs[j] \in Hand /\ hs[j].keyPoint = ps[j]
                        /\ \A p \in Point : Pts(hs[j], p) = IF p = ps[j] THEN BodyWidth(type) ELSE 0
    <2> SUFFICES ASSUME NEW j \in 1..n
                 PROVE  /\ hs[j] = HandOf(type, {ps[j]}, {})
                        /\ hs[j] \in Shaped(type) /\ hs[j] \in Hand /\ hs[j].keyPoint = ps[j]
                        /\ \A p \in Point : Pts(hs[j], p) = IF p = ps[j] THEN BodyWidth(type) ELSE 0
      OBVIOUS
    <2>1. hs[j] = HandOf(type, {ps[j]}, {})
      BY <1>2
    <2>2. ps[j] \in Point
      BY <1>1
    <2> DEFINE h == HandOf(type, {ps[j]}, {})
    <2>3. /\ h \in Shaped(type) /\ h \in Hand /\ h.keyPoint = ps[j]
          /\ \A p \in Point : Pts(h, p) = IF p = ps[j] THEN BodyWidth(type) ELSE 0
      BY <2>2, SingleHand
    <2> HIDE DEF h
    <2> QED  BY <2>1, <2>3 DEF h
  <1>4. hs \in Seq(Shaped(type)) /\ hs \in Lists /\ Len(hs) = n /\ DOMAIN hs = 1..n
    <2>1. hs = [j \in 1..n |-> hs[j]] /\ DOMAIN hs = 1..n
      BY <1>2
    <2>2. hs \in [1..n -> Shaped(type)] /\ hs \in [1..n -> Hand]
      BY <1>3, <2>1
    <2>3. hs \in Seq(Shaped(type)) /\ hs \in Seq(Hand) /\ Len(hs) = n
      BY <1>1, <2>2
    <2> QED  BY <2>1, <2>3 DEF Lists
  <1>5. \A i, j \in 1..n : ps[i] = ps[j] => i = j
    <2> SUFFICES ASSUME NEW i \in 1..n, NEW j \in 1..n, ps[i] = ps[j]  PROVE i = j
      OBVIOUS
    <2>1. ~(i < j) /\ ~(j < i)
      BY <1>1
    <2> QED  BY <2>1, <1>1
  <1>6. DistinctKeys(hs) /\ KeysIn(hs, points)
    <2>1. \A j \in 1..n : hs[j].keyPoint = ps[j] /\ ps[j] \in points
      BY <1>1, <1>3
    <2> QED  BY <2>1, <1>4, <1>5 DEF DistinctKeys, KeysIn
  <1>7. ASSUME NEW p \in Point
        PROVE  InList(hs, p) = IF p \in points THEN BodyWidth(type) ELSE 0
    <2>1. CASE p \in points
      <3>1. PICK k \in 1..n : ps[k] = p
        BY <1>1, <2>1
      <3>2. \A j \in 1..Len(hs) : j # k => Pts(hs[j], p) = 0
        BY <1>3, <1>4, <1>5, <3>1
      <3>3. InList(hs, p) = Pts(hs[k], p)
        BY <1>4, <3>1, <3>2, InListOnce
      <3> QED  BY <1>3, <2>1, <3>1, <3>3
    <2>2. CASE p \notin points
      <3>1. \A j \in 1..Len(hs) : Pts(hs[j], p) = 0
        <4>1. \A j \in 1..n : ps[j] # p
          BY <1>1, <2>2
        <4> QED  BY <1>3, <1>4, <4>1
      <3>2. InList(hs, p) = 0
        BY <1>4, <3>1, InListNever
      <3> QED  BY <2>2, <3>2
    <2> QED  BY <2>1, <2>2
  <1> QED  BY <1>4, <1>6, <1>7 DEF hs
-----------------------------------------------------------------------------
(* Bombs and trios                                                         *)

(* The nuke has the two jokers.                                            *)
LEMMA NukeHand ==
  LET h == HandOf("NUKE", Jokers, {})
  IN  /\ h \in Shaped("BOMB") /\ h \in Hand
      /\ \A p \in Point : Pts(h, p) = IF p \in Jokers THEN 1 ELSE 0
  <1> DEFINE h == HandOf("NUKE", Jokers, {})
             b == BLACK_JOKER
             r == RED_JOKER
  <1>1. b \in Nat /\ r = b + 1 /\ Jokers = {b, r} /\ b \in Point /\ Jokers \in SUBSET Nat /\ Jokers # {}
    <2>1. b \in Nat /\ r = b + 1 /\ r \in Nat /\ b \in Point
      BY GameSize
    <2> QED  BY <2>1 DEF Jokers
  <1> HIDE DEF b, r
  <1>2. Min(Jokers) = b
    <2>1. Min(Jokers) \in Jokers /\ \A x \in Jokers : Min(Jokers) <= x
      BY <1>1, MinFacts
    <2> QED  BY <2>1, <1>1
  <1>3. Cardinality(Jokers) = 2
    <2>1. IsFiniteSet({b}) /\ Cardinality({b}) = 1 /\ r \notin {b}
      BY <1>1, FS_Singleton
    <2>2. Cardinality({b} \cup {r}) = Cardinality({b}) + 1
      BY <2>1, FS_AddElement
    <2>3. {b} \cup {r} = Jokers
      BY <1>1
    <2> QED  BY <2>1, <2>2, <2>3
  <1>4. h = [type |-> "NUKE", keyPoint |-> b, len |-> 2, kicker |-> <<>>]
    BY <1>2, <1>3, AscendingEmpty DEF HandOf
  <1> HIDE DEF h
  <1>5. h.type = "NUKE" /\ h.keyPoint = b /\ h.len = 2 /\ h.kicker = <<>>
    BY <1>4
  <1>6. h \in Hand
    <2>1. "NUKE" \in HandType /\ <<>> \in Seq(Point) /\ 2 \in Nat
      BY EmptySeq DEF HandType
    <2> QED  BY <1>1, <1>4, <2>1 DEF Hand
  <1>7. h \in Shaped("BOMB")
    BY <1>5, <1>6 DEF Shaped, Bare, BareChains
  <1>8. ASSUME NEW p \in Point
        PROVE  Pts(h, p) = IF p \in Jokers THEN 1 ELSE 0
    <2>1. Pts(h, p) = IF p \in h.keyPoint..End(h) THEN BodyWidth(h.type) ELSE 0
      BY <1>5, <1>6, BarePoints
    <2>2. h.keyPoint = b /\ End(h) = b + 1
      BY <1>5, <1>1 DEF End
    <2>3. p \in b..(b + 1) <=> p \in Jokers
      <3>1. p \in Nat
        BY PointFacts
      <3> QED  BY <1>1, <3>1
    <2>4. BodyWidth(h.type) = 1
      BY <1>5 DEF BodyWidth
    <2> QED  BY <2>1, <2>2, <2>3, <2>4
  <1> QED  BY <1>6, <1>7, <1>8 DEF h

(* The nuke is found when both jokers are left.                            *)
LEMMA NukeFacts ==
  ASSUME NEW c
  PROVE  /\ Nuke(c) \in Seq(Shaped("BOMB")) /\ Nuke(c) \in Lists
         /\ NukePoints(c) \in SUBSET Jokers /\ NukePoints(c) \in SUBSET Point
         /\ \A p \in NukePoints(c) : c[p] = 1
         /\ \A p \in Point : InList(Nuke(c), p) = IF p \in NukePoints(c) THEN 1 ELSE 0
  <1> DEFINE h == HandOf("NUKE", Jokers, {})
  <1>1. NukePoints(c) \in {Jokers, {}} /\ \A p \in NukePoints(c) : c[p] = 1
    BY DEF NukePoints
  <1>2. Jokers \in SUBSET Point /\ Jokers # {}
    BY PointFacts
  <1>3. h \in Shaped("BOMB") /\ h \in Hand /\ \A p \in Point : Pts(h, p) = IF p \in Jokers THEN 1 ELSE 0
    BY NukeHand
  <1>4. CASE NukePoints(c) = {}
    <2>1. Nuke(c) = <<>>
      BY <1>4 DEF Nuke
    <2>2. <<>> \in Lists /\ <<>> \in Seq(Shaped("BOMB"))
      BY EmptySeq DEF Lists
    <2> QED  BY <1>1, <1>2, <1>4, <2>1, <2>2, InListOfNone
  <1>5. CASE NukePoints(c) # {}
    <2>1. NukePoints(c) = Jokers /\ Nuke(c) = <<h>>
      BY <1>1, <1>5 DEF Nuke
    <2> HIDE DEF h
    <2>2. <<h>> \in Lists /\ <<h>> \in Seq(Shaped("BOMB")) /\ Len(<<h>>) = 1 /\ <<h>>[1] = h
      BY <1>3 DEF Lists
    <2>3. \A p \in Point : InList(<<h>>, p) = Pts(h, p)
      <3> SUFFICES ASSUME NEW p \in Point  PROVE InList(<<h>>, p) = Pts(h, p)
        OBVIOUS
      <3> DEFINE a == <<h>>
      <3>1. a \in Lists /\ 1 \in 1..Len(a) /\ a[1] = h /\ \A j \in 1..Len(a) : j # 1 => Pts(a[j], p) = 0
        BY <2>2
      <3> HIDE DEF a
      <3>2. InList(a, p) = Pts(a[1], p)
        BY <3>1, InListOnce
      <3> QED  BY <3>1, <3>2 DEF a
    <2> QED  BY <1>1, <1>2, <1>3, <2>1, <2>2, <2>3
  <1> QED  BY <1>4, <1>5

(* Count names the points, jokers aside, of which n cards are left.        *)
LEMMA CountFacts ==
  ASSUME NEW c, NEW n
  PROVE  /\ Count(c, n) \in SUBSET Point /\ Count(c, n) \cap Jokers = {}
         /\ \A p \in Count(c, n) : c[p] = n
         /\ \A p \in Point \ Jokers : c[p] = n => p \in Count(c, n)
  <1>1. \A p : p \in 0..Two <=> p \in Point \ Jokers
    BY GameSize DEF Jokers
  <1> QED  BY <1>1 DEF Count

(* getBomb keeps the cards and takes only off them.                        *)
LEMMA BombKeeps ==
  ASSUME NEW s \in Splits
  PROVE  KeepsBut({"BOMB"}, s, getBomb(s)) /\ \A p \in Point : getBomb(s).cards[p] <= s.cards[p]
  <1> DEFINE N == NukePoints(s.cards)
             B == Count(s.cards, 4)
             nuke == Nuke(s.cards)
             bombs == Singles("BOMB", B)
             c == Empty(s.cards, N \cup B)
  <1>1. /\ nuke \in Seq(Shaped("BOMB")) /\ nuke \in Lists /\ N \in SUBSET Jokers
        /\ \A p \in N : s.cards[p] = 1
        /\ \A p \in Point : InList(nuke, p) = IF p \in N THEN 1 ELSE 0
    BY NukeFacts
  <1>2. B \in SUBSET Point /\ B \cap Jokers = {} /\ \A p \in B : s.cards[p] = 4
    BY CountFacts
  <1>3. /\ bombs \in Seq(Shaped("BOMB")) /\ bombs \in Lists
        /\ \A p \in Point : InList(bombs, p) = IF p \in B THEN 4 ELSE 0
    <2> HIDE DEF B
    <2>1. BodyWidth("BOMB") = 4
      BY DEF BodyWidth
    <2> QED  BY <1>2, <2>1, SinglesFacts
  <1>4. s.cards \in [Point -> Int]
    BY DEF Splits
  <1>5. c \in [Point -> Int] /\ \A p \in Point : c[p] = IF p \in N \cup B THEN 0 ELSE s.cards[p]
    BY <1>4 DEF Empty
  <1> HIDE DEF N, B, nuke, bombs, c
  <1>6. nuke \o bombs \in Seq(Shaped("BOMB"))
    BY <1>1, <1>3, ConcatProperties
  <1>7. ASSUME NEW p \in Point
        PROVE  InList(nuke \o bombs, p) + c[p] = s.cards[p] /\ c[p] <= s.cards[p] /\ (c[p] >= 0 \/ c[p] >= s.cards[p])
    <2>1. InList(nuke \o bombs, p) = InList(nuke, p) + InList(bombs, p)
      BY <1>1, <1>3, InListOfTwo
    <2>2. s.cards[p] \in Int
      BY <1>4
    <2> QED  BY <1>1, <1>2, <1>3, <1>5, <2>1, <2>2
  <1>8. "BOMB" \in HandType
    BY DEF HandType
  <1>9. getBomb(s) = InWork(c, Add(s.handMap, "BOMB", nuke \o bombs))
    BY DEF getBomb, c, N, B, nuke, bombs
  <1>10. KeepsBut({"BOMB"}, s, InWork(c, Add(s.handMap, "BOMB", nuke \o bombs)))
    BY <1>5, <1>6, <1>7, <1>8, TakeKeeps
  <1>11. InWork(c, Add(s.handMap, "BOMB", nuke \o bombs)).cards = c
    BY DEF InWork
  <1> QED  BY <1>7, <1>9, <1>10, <1>11

(* getTrio keeps the cards, and nothing is left of a point it makes a trio *)
(* of.                                                                     *)
LEMMA TrioKeeps ==
  ASSUME NEW s \in Splits
  PROVE  /\ KeepsBut({"TRIO"}, s, getTrio(s)) /\ \A p \in Point : getTrio(s).cards[p] <= s.cards[p]
         /\ Hands(getTrio(s).handMap, "TRIO") = Hands(s.handMap, "TRIO") \o Singles("TRIO", Count(s.cards, 3))
         /\ \A p \in Count(s.cards, 3) : getTrio(s).cards[p] = 0
  <1> DEFINE T == Count(s.cards, 3)
             trios == Singles("TRIO", T)
             c == Empty(s.cards, T)
             t == InWork(c, Add(s.handMap, "TRIO", trios))
  <1>1. T \in SUBSET Point /\ \A p \in T : s.cards[p] = 3
    BY CountFacts
  <1>2. /\ trios \in Seq(Shaped("TRIO"))
        /\ \A p \in Point : InList(trios, p) = IF p \in T THEN 3 ELSE 0
    <2> HIDE DEF T
    <2>1. BodyWidth("TRIO") = 3 /\ "TRIO" \in Bare
      BY DEF BodyWidth, Bare
    <2> QED  BY <1>1, <2>1, SinglesFacts
  <1>3. s.cards \in [Point -> Int]
    BY DEF Splits
  <1>4. c \in [Point -> Int] /\ \A p \in Point : c[p] = IF p \in T THEN 0 ELSE s.cards[p]
    BY <1>3 DEF Empty
  <1> HIDE DEF T, trios, c
  <1>5. ASSUME NEW p \in Point
        PROVE  InList(trios, p) + c[p] = s.cards[p] /\ c[p] <= s.cards[p] /\ (c[p] >= 0 \/ c[p] >= s.cards[p])
    <2>1. s.cards[p] \in Int
      BY <1>3
    <2> QED  BY <1>1, <1>2, <1>4, <2>1
  <1>6. "TRIO" \in HandType
    BY DEF HandType
  <1>7. getTrio(s) = t
    BY DEF getTrio, c, T, trios
  <1>8. KeepsBut({"TRIO"}, s, t)
    BY <1>2, <1>4, <1>5, <1>6, TakeKeeps
  <1>9. t.cards = c /\ Hands(t.handMap, "TRIO") = Hands(s.handMap, "TRIO") \o trios
    <2>1. /\ t.cards = c
          /\ \A w \in HandType : Hands(t.handMap, w) = IF w = "TRIO" THEN Hands(s.handMap, "TRIO") \o trios
                                                       ELSE Hands(s.handMap, w)
      BY <1>2, <1>4, <1>6, AddKeeps
    <2> HIDE DEF t
    <2> QED  BY <2>1, <1>6
  <1>10. \A p \in T : c[p] = 0
    BY <1>1, <1>4
  <1> HIDE DEF t
  <1> QED  BY <1>5, <1>7, <1>8, <1>9, <1>10 DEF T, trios
-----------------------------------------------------------------------------
(* Runs of points, and the chains in them                                  *)

(* The points of a chain.                                                  *)
Body(h) == h.keyPoint..End(h)

(* A chain from a to e.                                                    *)
LEMMA BareChain ==
  ASSUME NEW u \in BareChains, NEW a \in Nat, NEW e \in Int, a <= e, e <= LastChain
  PROVE  LET h == ChainOf(u, a, e - a + 1)
         IN  h \in Shaped(u) /\ h.keyPoint = a /\ End(h) = e
  <1> DEFINE n == e - a + 1
             h == ChainOf(u, a, n)
  <1>1. n \in Nat /\ a + n - 1 = e /\ a \in Point
    BY GameSize
  <1> HIDE DEF n
  <1>2. h = [type |-> u, keyPoint |-> a, len |-> n, kicker |-> <<>>]
    BY DEF ChainOf
  <1> HIDE DEF h
  <1>3. u \in HandType /\ <<>> \in Seq(Point)
    BY EmptySeq DEF BareChains, HandType, ChainTypes
  <1>4. h.type = u /\ h.keyPoint = a /\ h.len = n /\ h.kicker = <<>>
    BY <1>2
  <1>5. h \in Hand
    BY <1>1, <1>2, <1>3 DEF Hand
  <1>6. End(h) = e
    BY <1>1, <1>4 DEF End
  <1>7. h \in Shaped(u)
    BY <1>4, <1>5, <1>6 DEF Shaped, Bare, BareChains
  <1> QED  BY <1>4, <1>6, <1>7 DEF h, n

(* In a list of chains that do not meet a point is counted once if at all. *)
LEMMA DisjointChains ==
  ASSUME NEW u \in BareChains, NEW hs \in Seq(Shaped(u)), NEW p \in Point,
         \A i, j \in 1..Len(hs) : (p \in Body(hs[i]) /\ p \in Body(hs[j])) => i = j
  PROVE  InList(hs, p) = IF \E j \in 1..Len(hs) : p \in Body(hs[j]) THEN BodyWidth(u) ELSE 0
  <1>1. hs \in Lists /\ \A j \in 1..Len(hs) : hs[j] \in Shaped(u) /\ hs[j] \in Hand
    BY ShapedAreHands
  <1>2. ASSUME NEW j \in 1..Len(hs)
        PROVE  Pts(hs[j], p) = IF p \in Body(hs[j]) THEN BodyWidth(u) ELSE 0
    <2>1. hs[j] \in Hand /\ hs[j].type = u /\ hs[j].kicker = <<>>
      BY <1>1 DEF Shaped, BareChains
    <2> QED  BY <2>1, BarePoints DEF Body
  <1>3. CASE \E j \in 1..Len(hs) : p \in Body(hs[j])
    <2>1. PICK k \in 1..Len(hs) : p \in Body(hs[k])
      BY <1>3
    <2>2. \A j \in 1..Len(hs) : j # k => Pts(hs[j], p) = 0
      BY <1>2, <2>1
    <2>3. InList(hs, p) = Pts(hs[k], p)
      BY <1>1, <2>2, InListOnce
    <2> QED  BY <1>2, <1>3, <2>1, <2>3
  <1>4. CASE ~ \E j \in 1..Len(hs) : p \in Body(hs[j])
    <2>1. \A j \in 1..Len(hs) : Pts(hs[j], p) = 0
      BY <1>2, <1>4
    <2>2. InList(hs, p) = 0
      BY <1>1, <2>1, InListNever
    <2> QED  BY <1>4, <2>2
  <1> QED  BY <1>3, <1>4

(* From its start to its end a run has n cards of every point.             *)
LEMMA RunEndFacts ==
  ASSUME NEW c, NEW n, NEW start \in Nat, start <= LastChain, c[start] >= n
  PROVE  /\ RunEnd(c, start, n) \in start..LastChain
         /\ \A p \in start..RunEnd(c, start, n) : c[p] >= n
  <1> DEFINE M == {e \in start..LastChain : \A p \in start..e : c[p] >= n}
  <1>1. start \in M
    <2>1. \A p \in start..start : p = start
      OBVIOUS
    <2> QED  BY <2>1, GameSize
  <1>2. M \in SUBSET (start..LastChain) /\ M # {} /\ start \in Int /\ LastChain \in Int
    <2>1. M \in SUBSET (start..LastChain)
      OBVIOUS
    <2> HIDE DEF M
    <2> QED  BY <1>1, <2>1, GameSize
  <1>3. Max(M) \in M /\ Max(M) \in start..LastChain
    <2> HIDE DEF M
    <2> QED  BY <1>2, MaxOfInterval
  <1>4. RunEnd(c, start, n) = Max(M)
    BY DEF RunEnd
  <1>5. \A p \in start..Max(M) : c[p] >= n
    BY <1>3
  <1> QED  BY <1>3, <1>4, <1>5

(* The runs of a list of starts do not meet.                               *)
LEMMA RunsApart ==
  ASSUME NEW c \in [Point -> Int], NEW n \in Int, NEW last \in Nat, last <= LastChain,
         NEW p \in RunStarts(c, last, n), NEW r \in RunStarts(c, last, n), p < r
  PROVE  RunEnd(c, p, n) < r
  <1>1. p \in 0..last /\ c[p] >= n /\ r \in 0..last /\ (r > 0 => c[r - 1] < n)
    BY DEF RunStarts
  <1>2. p \in Nat /\ r \in Nat /\ p <= LastChain /\ r - 1 \in Point /\ r > 0
    BY <1>1, GameSize
  <1>3. RunEnd(c, p, n) \in p..LastChain /\ \A q \in p..RunEnd(c, p, n) : c[q] >= n
    BY <1>1, <1>2, RunEndFacts
  <1>4. c[r - 1] < n /\ c[r - 1] \in Int
    BY <1>1, <1>2
  <1>5. r - 1 \notin p..RunEnd(c, p, n)
    BY <1>3, <1>4
  <1> QED  BY <1>2, <1>3, <1>5, GameSize

(* Chains that lie in the runs of a set of starts.                         *)
InRuns(hs, starts, c, n) ==
  /\ Len(hs) = Len(starts)
  /\ \A j \in 1..Len(starts) : /\ starts[j] <= hs[j].keyPoint /\ hs[j].keyPoint \in Nat
                               /\ hs[j].keyPoint <= End(hs[j]) /\ End(hs[j]) \in Int
                               /\ End(hs[j]) <= RunEnd(c, starts[j], n)

(* Such chains do not meet, and there are cards enough for each of their   *)
(* points.                                                                 *)
LEMMA ChainsInRuns ==
  ASSUME NEW u \in BareChains, NEW c \in [Point -> Int], NEW n \in Nat, NEW last \in Nat, last <= LastChain,
         NEW S \in SUBSET RunStarts(c, last, n), NEW hs \in Seq(Shaped(u)),
         InRuns(hs, Ascending(S), c, n), NEW p \in Point
  PROVE  /\ InList(hs, p) = IF \E j \in 1..Len(hs) : p \in Body(hs[j]) THEN BodyWidth(u) ELSE 0
         /\ (\E j \in 1..Len(hs) : p \in Body(hs[j])) => c[p] >= n
  <1> DEFINE st == Ascending(S)
             m == Len(st)
  <1>1. /\ m \in Nat /\ Len(hs) = m
        /\ \A j \in 1..m : st[j] \in S /\ st[j] \in RunStarts(c, last, n)
        /\ \A i, j \in 1..m : i < j => st[i] < st[j]
    <2>1. S \in SUBSET (0..last)
      BY DEF RunStarts
    <2>2. /\ st \in Seq(S) /\ m = Cardinality(S) /\ m \in Nat
          /\ \A i, j \in 1..m : i < j => st[i] < st[j]
      BY <2>1, AscendingFacts
    <2> HIDE DEF st
    <2>3. \A j \in 1..m : st[j] \in S
      BY <2>2
    <2> QED  BY <2>2, <2>3 DEF InRuns, st
  <1>2. \A j \in 1..m : /\ st[j] <= hs[j].keyPoint /\ hs[j].keyPoint \in Nat
                        /\ hs[j].keyPoint <= End(hs[j]) /\ End(hs[j]) \in Int
                        /\ End(hs[j]) <= RunEnd(c, st[j], n)
    BY DEF InRuns
  <1> HIDE DEF st, m
  <1>3. ASSUME NEW j \in 1..m
        PROVE  /\ st[j] \in Nat /\ RunEnd(c, st[j], n) \in st[j]..LastChain
               /\ \A q \in st[j]..RunEnd(c, st[j], n) : c[q] >= n
    <2>1. st[j] \in 0..last /\ c[st[j]] >= n
      BY <1>1 DEF RunStarts
    <2>2. st[j] \in Nat /\ st[j] <= LastChain
      BY <2>1, GameSize
    <2> QED  BY <2>1, <2>2, RunEndFacts
  <1>4. ASSUME NEW j \in 1..m, p \in Body(hs[j])
        PROVE  p \in st[j]..RunEnd(c, st[j], n)
    <2>1. p \in hs[j].keyPoint..End(hs[j])
      BY <1>4 DEF Body
    <2>2. p \in Nat
      BY PointFacts
    <2> DEFINE a == st[j]
               e == RunEnd(c, st[j], n)
               k == hs[j].keyPoint
               f == End(hs[j])
    <2>3. a \in Nat /\ e \in Int /\ k \in Nat /\ f \in Int /\ a <= k /\ f <= e /\ p \in k..f
      BY <1>2, <1>3, <2>1, GameSize
    <2> HIDE DEF a, e, k, f
    <2>4. p \in a..e
      BY <2>2, <2>3
    <2> QED  BY <2>4 DEF a, e
  <1>5. ASSUME NEW i \in 1..m, NEW j \in 1..m, p \in Body(hs[i]), p \in Body(hs[j])
        PROVE  ~(i < j)
    <2> SUFFICES ASSUME i < j  PROVE FALSE
      OBVIOUS
    <2>1. st[i] < st[j] /\ st[i] \in RunStarts(c, last, n) /\ st[j] \in RunStarts(c, last, n)
      BY <1>1
    <2>2. RunEnd(c, st[i], n) < st[j]
      BY <2>1, RunsApart
    <2>3. p \in st[i]..RunEnd(c, st[i], n) /\ p \in st[j]..RunEnd(c, st[j], n)
      BY <1>4, <1>5
    <2> DEFINE a == st[i]
               e == RunEnd(c, st[i], n)
               k == st[j]
               f == RunEnd(c, st[j], n)
    <2>4. a \in Nat /\ e \in Int /\ k \in Nat /\ f \in Int /\ e < k /\ p \in a..e /\ p \in k..f /\ p \in Nat
      BY <1>3, <2>2, <2>3, GameSize, PointFacts
    <2> HIDE DEF a, e, k, f
    <2> QED  BY <2>4
  <1>6. \A i, j \in 1..m : (p \in Body(hs[i]) /\ p \in Body(hs[j])) => i = j
    <2>1. \A i, j \in 1..m : (~(i < j) /\ ~(j < i)) => i = j
      BY <1>1
    <2> QED  BY <1>5, <2>1
  <1>7. InList(hs, p) = IF \E j \in 1..Len(hs) : p \in Body(hs[j]) THEN BodyWidth(u) ELSE 0
    BY <1>1, <1>6, DisjointChains
  <1>8. (\E j \in 1..m : p \in Body(hs[j])) => c[p] >= n
    BY <1>3, <1>4
  <1> QED  BY <1>1, <1>7, <1>8
-----------------------------------------------------------------------------
(* Trio chains                                                             *)

(* The points taken with a list of chains, and more points behind each.    *)
Taken(hs, more) == UNION {h.keyPoint..(End(h) + more) : h \in ToSet(hs)}

(* A point is taken when a chain of the list takes it.                     *)
LEMMA TakenFacts ==
  ASSUME NEW hs, NEW n \in Nat, DOMAIN hs = 1..n, NEW p, NEW more
  PROVE  p \in Taken(hs, more) <=> \E j \in 1..n : p \in hs[j].keyPoint..(End(hs[j]) + more)
  BY DEF Taken, ToSet

(* getTrioChain keeps the cards and takes only off them.                   *)
LEMMA TrioChainKeeps ==
  ASSUME NEW s \in Splits
  PROVE  KeepsBut({"TRIO_CHAIN"}, s, getTrioChain(s)) /\ \A p \in Point : getTrioChain(s).cards[p] <= s.cards[p]
  <1> DEFINE sc == s.cards
             S == {p \in RunStarts(sc, LastChain - 1, 3) : RunEnd(sc, p, 3) > p}
             starts == Ascending(S)
             m == Len(starts)
             hs == [j \in DOMAIN starts |->
                      ChainOf("TRIO_CHAIN", starts[j], RunEnd(sc, starts[j], 3) - starts[j] + 1)]
             c == Minus(sc, UNION {h.keyPoint..End(h) : h \in ToSet(hs)}, 3)
             t == InWork(c, Add(s.handMap, "TRIO_CHAIN", hs))
  <1>1. sc \in [Point -> Int] /\ LastChain - 1 \in Nat /\ LastChain - 1 <= LastChain
    BY GameSize DEF Splits
  <1>2. getTrioChain(s) = t
    BY DEF getTrioChain
  <1>3. S \in SUBSET RunStarts(sc, LastChain - 1, 3)
    OBVIOUS
  <1> HIDE DEF S, sc
  <1>4. m \in Nat /\ DOMAIN starts = 1..m /\ \A j \in 1..m : starts[j] \in S
    <2>1. S \in SUBSET (0..(LastChain - 1))
      BY <1>3 DEF RunStarts
    <2>2. starts \in Seq(S)
      BY <1>1, <2>1, AscendingFacts
    <2> HIDE DEF starts
    <2> QED  BY <2>2
  <1> HIDE DEF starts, m
  <1>5. ASSUME NEW j \in 1..m
        PROVE  /\ starts[j] \in Nat /\ RunEnd(sc, starts[j], 3) \in starts[j]..LastChain
    <2>1. starts[j] \in 0..(LastChain - 1) /\ sc[starts[j]] >= 3
      BY <1>3, <1>4 DEF RunStarts
    <2>2. starts[j] \in Nat /\ starts[j] <= LastChain
      BY <2>1, GameSize
    <2> QED  BY <2>1, <2>2, RunEndFacts
  <1>6. ASSUME NEW j \in 1..m
        PROVE  /\ hs[j] \in Shaped("TRIO_CHAIN") /\ hs[j].keyPoint = starts[j]
               /\ End(hs[j]) = RunEnd(sc, starts[j], 3)
    <2> DEFINE a == starts[j]
               e == RunEnd(sc, starts[j], 3)
               h == ChainOf("TRIO_CHAIN", a, e - a + 1)
    <2>1. hs[j] = h
      BY <1>4
    <2>2. a \in Nat /\ e \in Int /\ a <= e /\ e <= LastChain
      BY <1>5, GameSize
    <2>3. "TRIO_CHAIN" \in BareChains
      BY DEF BareChains
    <2> HIDE DEF a, e
    <2>4. h \in Shaped("TRIO_CHAIN") /\ h.keyPoint = a /\ End(h) = e
      BY <2>2, <2>3, BareChain
    <2> HIDE DEF h, hs
    <2> QED  BY <2>1, <2>4 DEF a, e
  <1>7. hs \in Seq(Shaped("TRIO_CHAIN")) /\ Len(hs) = m /\ DOMAIN hs = 1..m
    <2>1. DOMAIN hs = 1..m /\ hs = [j \in 1..m |-> hs[j]]
      BY <1>4
    <2> HIDE DEF hs
    <2>2. hs \in [1..m -> Shaped("TRIO_CHAIN")]
      BY <1>6, <2>1
    <2> QED  BY <1>4, <2>1, <2>2
  <1>8. c = Minus(sc, Taken(hs, 0), 3)
    <2>1. \A h \in ToSet(hs) : End(h) = End(h) + 0
      <3> SUFFICES ASSUME NEW h \in ToSet(hs)  PROVE End(h) = End(h) + 0
        OBVIOUS
      <3>1. PICK j \in 1..m : h = hs[j]
        <4> HIDE DEF hs
        <4> QED  BY <1>7 DEF ToSet
      <3> HIDE DEF hs
      <3>2. End(h) \in Int
        BY <1>5, <1>6, <3>1, GameSize
      <3> QED  BY <3>2
    <2> HIDE DEF hs
    <2>2. UNION {h.keyPoint..End(h) : h \in ToSet(hs)} = Taken(hs, 0)
      BY <2>1 DEF Taken
    <2> QED  BY <2>2
  <1> HIDE DEF hs, c
  <1>9. InRuns(hs, starts, sc, 3)
    <2>1. \A j \in 1..m : /\ starts[j] <= hs[j].keyPoint /\ hs[j].keyPoint \in Nat
                          /\ hs[j].keyPoint <= End(hs[j]) /\ End(hs[j]) \in Int
                          /\ End(hs[j]) <= RunEnd(sc, starts[j], 3)
      BY <1>5, <1>6, GameSize
    <2> QED  BY <1>7, <2>1 DEF InRuns, m
  <1>10. ASSUME NEW p \in Point
         PROVE  /\ InList(hs, p) = IF p \in Taken(hs, 0) THEN 3 ELSE 0
                /\ p \in Taken(hs, 0) => sc[p] >= 3
    <2>1. "TRIO_CHAIN" \in BareChains /\ BodyWidth("TRIO_CHAIN") = 3
      BY DEF BareChains, BodyWidth
    <2>2. /\ InList(hs, p) = IF \E j \in 1..Len(hs) : p \in Body(hs[j]) THEN BodyWidth("TRIO_CHAIN") ELSE 0
          /\ (\E j \in 1..Len(hs) : p \in Body(hs[j])) => sc[p] >= 3
      BY <1>1, <1>3, <1>7, <1>9, <2>1, ChainsInRuns DEF starts
    <2>3. p \in Taken(hs, 0) <=> \E j \in 1..m : p \in hs[j].keyPoint..(End(hs[j]) + 0)
      BY <1>4, <1>7, TakenFacts
    <2>4. \A j \in 1..m : Body(hs[j]) = hs[j].keyPoint..(End(hs[j]) + 0)
      <3>1. \A j \in 1..m : End(hs[j]) \in Int
        BY <1>5, <1>6, GameSize
      <3> QED  BY <3>1 DEF Body
    <2> QED  BY <1>7, <2>1, <2>2, <2>3, <2>4
  <1>11. c \in [Point -> Int] /\ \A p \in Point : c[p] = IF p \in Taken(hs, 0) THEN sc[p] - 3 ELSE sc[p]
    BY <1>1, <1>8 DEF Minus
  <1>12. ASSUME NEW p \in Point
         PROVE  InList(hs, p) + c[p] = sc[p] /\ c[p] <= sc[p] /\ (c[p] >= 0 \/ c[p] >= sc[p])
    <2>1. sc[p] \in Int
      BY <1>1
    <2> QED  BY <1>10, <1>11, <2>1
  <1>13. "TRIO_CHAIN" \in HandType
    BY DEF HandType, ChainTypes
  <1>14. KeepsBut({"TRIO_CHAIN"}, s, t)
    BY <1>7, <1>11, <1>12, <1>13, TakeKeeps DEF sc
  <1>15. t.cards = c
    BY DEF InWork
  <1> HIDE DEF t
  <1> QED  BY <1>2, <1>12, <1>14, <1>15 DEF sc
-----------------------------------------------------------------------------
(* Pair chains, and the two cards lost behind one                          *)

(* optimizePairChain trims a chain to one within it.                       *)
LEMMA PairChainTrimmed ==
  ASSUME NEW c, NEW start \in Nat, NEW end \in Int, start <= end, end <= LastChain
  PROVE  LET h == optimizePairChain(c, start, end)
         IN  h \in Shaped("PAIR_CHAIN") /\ h.keyPoint \in start..end /\ End(h) \in h.keyPoint..end
  <1> DEFINE off == [z \in (start..end) \X (start..end) |->
                       LET longer == z[2] - z[1] + 1 > PairLen
                           low == c[z[1]]
                           high == c[z[2]]
                       IN  CASE longer /\ high > low -> "upper"
                             [] longer /\ high <= low /\ low > 2 -> "lower"
                             [] OTHER -> "neither"]
             kept == Trimmed(off, start, end)
             h == optimizePairChain(c, start, end)
  <1>1. h = ChainOf("PAIR_CHAIN", kept[1], kept[2] - kept[1] + 1)
    BY DEF optimizePairChain
  <1>2. \A z \in Cell(start, end) : off[z] \in {"upper", "lower", "neither"}
    BY DEF Cell
  <1>3. Trims(off, start, end)
    <2> SUFFICES ASSUME NEW z \in Cell(start, end), off[z] # "neither"  PROVE z[2] - z[1] >= 1
      BY DEF Trims
    <2>1. z[2] - z[1] + 1 > PairLen
      BY DEF Cell
    <2>2. z[1] \in Int /\ z[2] \in Int
      BY DEF Cell
    <2> QED  BY <2>1, <2>2, GameSize
  <1> HIDE DEF off, h
  <1>4. PICK b \in start..end : \E e \in b..end : kept = <<b, e>>
    BY <1>2, <1>3, TrimmedFacts
  <1>5. PICK e \in b..end : kept = <<b, e>>
    BY <1>4
  <1>6. kept[1] = b /\ kept[2] = e
    BY <1>5
  <1> HIDE DEF kept
  <1>7. h = ChainOf("PAIR_CHAIN", b, e - b + 1)
    BY <1>1, <1>6
  <1>8. b \in Nat /\ e \in Int /\ b <= e /\ e <= LastChain /\ "PAIR_CHAIN" \in BareChains
    BY <1>4, <1>5, GameSize DEF BareChains
  <1>9. h \in Shaped("PAIR_CHAIN") /\ h.keyPoint = b /\ End(h) = e
    BY <1>7, <1>8, BareChain
  <1> QED  BY <1>4, <1>5, <1>9 DEF h

(* What getPairChain does to the cards: they are kept, or two cards of the *)
(* point behind a pair chain are gone.                                     *)
PairTurn(s, t) ==
  /\ t \in Splits
  /\ \A u \in HandType \ {"PAIR_CHAIN"} : Hands(t.handMap, u) = Hands(s.handMap, u)
  /\ \A p \in Point : t.cards[p] <= s.cards[p]
  /\ \A p \in Point :
       \/ Kept(t, p) = Kept(s, p) /\ (t.cards[p] >= 0 \/ t.cards[p] >= s.cards[p])
       \/ /\ \E h \in ToSet(Hands(t.handMap, "PAIR_CHAIN")) : p = End(h) + 1
          /\ Kept(t, p) = Kept(s, p) - 2 /\ t.cards[p] = s.cards[p] - 2

(* It does so when it starts without pair chains.                          *)
LEMMA PairChainTurn ==
  ASSUME NEW s \in Splits, Hands(s.handMap, "PAIR_CHAIN") = <<>>
  PROVE  PairTurn(s, getPairChain(s))
  <1> DEFINE sc == s.cards
             last == LastChain - PairLen + 1
             S == {p \in RunStarts(sc, last, 2) : RunEnd(sc, p, 2) - p + 1 >= PairLen}
             starts == Ascending(S)
             m == Len(starts)
             hs == [j \in DOMAIN starts |-> optimizePairChain(sc, starts[j], RunEnd(sc, starts[j], 2))]
             c == Minus(sc, UNION {h.keyPoint..(End(h) + 1) : h \in ToSet(hs)}, 2)
             t == InWork(c, Add(s.handMap, "PAIR_CHAIN", hs))
  <1>1. sc \in [Point -> Int] /\ last \in Nat /\ last <= LastChain
    BY GameSize DEF Splits
  <1>2. getPairChain(s) = t
    BY DEF getPairChain
  <1>3. S \in SUBSET RunStarts(sc, last, 2)
    OBVIOUS
  <1> HIDE DEF S, sc, last
  <1>4. m \in Nat /\ DOMAIN starts = 1..m /\ \A j \in 1..m : starts[j] \in S
    <2>1. S \in SUBSET (0..last)
      BY <1>3 DEF RunStarts
    <2>2. starts \in Seq(S)
      BY <1>1, <2>1, AscendingFacts
    <2> HIDE DEF starts
    <2> QED  BY <2>2
  <1> HIDE DEF starts, m
  <1>5. ASSUME NEW j \in 1..m
        PROVE  /\ starts[j] \in Nat /\ RunEnd(sc, starts[j], 2) \in starts[j]..LastChain
    <2>1. starts[j] \in 0..last /\ sc[starts[j]] >= 2
      BY <1>3, <1>4 DEF RunStarts
    <2>2. starts[j] \in Nat /\ starts[j] <= LastChain
      BY <1>1, <2>1, GameSize
    <2> QED  BY <2>1, <2>2, RunEndFacts
  <1>6. ASSUME NEW j \in 1..m
        PROVE  /\ hs[j] \in Shaped("PAIR_CHAIN") /\ starts[j] <= hs[j].keyPoint /\ hs[j].keyPoint \in Nat
               /\ hs[j].keyPoint <= End(hs[j]) /\ End(hs[j]) \in Int
               /\ End(hs[j]) <= RunEnd(sc, starts[j], 2)
    <2> DEFINE a == starts[j]
               e == RunEnd(sc, starts[j], 2)
               h == optimizePairChain(sc, a, e)
    <2>1. hs[j] = h
      BY <1>4
    <2>2. a \in Nat /\ e \in Int /\ a <= e /\ e <= LastChain
      BY <1>5, GameSize
    <2> HIDE DEF a, e
    <2>4. h \in Shaped("PAIR_CHAIN") /\ h.keyPoint \in a..e /\ End(h) \in h.keyPoint..e
      BY <2>2, PairChainTrimmed
    <2> HIDE DEF h, hs
    <2>5. h.keyPoint \in Nat /\ a <= h.keyPoint /\ h.keyPoint <= End(h) /\ End(h) \in Int /\ End(h) <= e
      BY <2>2, <2>4
    <2> QED  BY <2>1, <2>4, <2>5 DEF a, e
  <1>7. hs \in Seq(Shaped("PAIR_CHAIN")) /\ Len(hs) = m /\ DOMAIN hs = 1..m
    <2>1. DOMAIN hs = 1..m /\ hs = [j \in 1..m |-> hs[j]]
      BY <1>4
    <2> HIDE DEF hs
    <2>2. hs \in [1..m -> Shaped("PAIR_CHAIN")]
      BY <1>6, <2>1
    <2> QED  BY <1>4, <2>1, <2>2
  <1>8. c = Minus(sc, Taken(hs, 1), 2)
    BY DEF Taken
  <1> HIDE DEF hs, c
  <1>9. InRuns(hs, starts, sc, 2)
    BY <1>6, <1>7 DEF InRuns, m
  <1>10. ASSUME NEW p \in Point
         PROVE  \/ /\ \E j \in 1..m : p \in Body(hs[j])
                   /\ InList(hs, p) = 2 /\ sc[p] >= 2 /\ p \in Taken(hs, 1)
                \/ InList(hs, p) = 0 /\ p \notin Taken(hs, 1)
                \/ /\ InList(hs, p) = 0 /\ p \in Taken(hs, 1)
                   /\ \E j \in 1..m : p = End(hs[j]) + 1
    <2>1. "PAIR_CHAIN" \in BareChains /\ BodyWidth("PAIR_CHAIN") = 2
      BY DEF BareChains, BodyWidth
    <2>2. /\ InList(hs, p) = IF \E j \in 1..Len(hs) : p \in Body(hs[j]) THEN BodyWidth("PAIR_CHAIN") ELSE 0
          /\ (\E j \in 1..Len(hs) : p \in Body(hs[j])) => sc[p] >= 2
      BY <1>1, <1>3, <1>7, <1>9, <2>1, ChainsInRuns DEF starts
    <2>3. p \in Taken(hs, 1) <=> \E j \in 1..m : p \in hs[j].keyPoint..(End(hs[j]) + 1)
      BY <1>4, <1>7, TakenFacts
    <2>4. \A j \in 1..m : p \in hs[j].keyPoint..(End(hs[j]) + 1) <=> (p \in Body(hs[j]) \/ p = End(hs[j]) + 1)
      <3> SUFFICES ASSUME NEW j \in 1..m
                   PROVE  p \in hs[j].keyPoint..(End(hs[j]) + 1) <=> (p \in Body(hs[j]) \/ p = End(hs[j]) + 1)
        OBVIOUS
      <3> DEFINE k == hs[j].keyPoint
                 e == End(hs[j])
      <3>1. k \in Int /\ e \in Int /\ k <= e /\ p \in Int
        BY <1>6, PointFacts
      <3>2. Body(hs[j]) = k..e
        BY DEF Body
      <3> HIDE DEF k, e
      <3>3. p \in k..(e + 1) <=> (p \in k..e \/ p = e + 1)
        BY <3>1
      <3> QED  BY <3>2, <3>3 DEF k, e
    <2> QED  BY <1>7, <2>1, <2>2, <2>3, <2>4
  <1>11. c \in [Point -> Int] /\ \A p \in Point : c[p] = IF p \in Taken(hs, 1) THEN sc[p] - 2 ELSE sc[p]
    BY <1>1, <1>8 DEF Minus
  <1>12. "PAIR_CHAIN" \in HandType
    BY DEF HandType, ChainTypes
  <1>13. /\ t \in Splits /\ t.cards = c
         /\ \A w \in HandType : Hands(t.handMap, w) = IF w = "PAIR_CHAIN" THEN Hands(s.handMap, "PAIR_CHAIN") \o hs
                                                      ELSE Hands(s.handMap, w)
         /\ \A p \in Point : /\ Kept(t, p) = Kept(s, p) + InList(hs, p) + c[p] - s.cards[p]
                             /\ Kept(s, p) \in Int /\ InList(hs, p) \in Nat
    BY <1>7, <1>11, <1>12, AddKeeps
  <1> HIDE DEF t
  <1>14. Hands(t.handMap, "PAIR_CHAIN") = hs
    <2>1. Hands(t.handMap, "PAIR_CHAIN") = <<>> \o hs
      BY <1>12, <1>13
    <2> QED  BY <1>7, <2>1, ConcatEmptySeq
  <1>15. ASSUME NEW p \in Point
         PROVE  /\ t.cards[p] <= s.cards[p]
                /\ \/ Kept(t, p) = Kept(s, p) /\ (t.cards[p] >= 0 \/ t.cards[p] >= s.cards[p])
                   \/ /\ \E h \in ToSet(Hands(t.handMap, "PAIR_CHAIN")) : p = End(h) + 1
                      /\ Kept(t, p) = Kept(s, p) - 2 /\ t.cards[p] = s.cards[p] - 2
    <2> DEFINE i == InList(hs, p)
               x == c[p]
               y == sc[p]
               k == Kept(s, p)
               l == Kept(t, p)
               E == \E h \in ToSet(hs) : p = End(h) + 1
               T == p \in Taken(hs, 1)
    <2>1. /\ x \in Int /\ y \in Int /\ k \in Int /\ i \in Nat /\ l = k + i + x - y
          /\ x = IF T THEN y - 2 ELSE y
          /\ t.cards[p] = x /\ s.cards[p] = y
      BY <1>1, <1>11, <1>13 DEF sc
    <2>2. (i = 2 /\ y >= 2 /\ T) \/ (i = 0 /\ ~T) \/ (i = 0 /\ T /\ E)
      BY <1>7, <1>10 DEF ToSet
    <2> HIDE DEF i, x, y, k, l, E, T
    <2>3. x <= y /\ ((l = k /\ (x >= 0 \/ x >= y)) \/ (E /\ l = k - 2 /\ x = y - 2))
      BY <2>1, <2>2
    <2> QED  BY <1>14, <2>1, <2>3 DEF k, l, E
  <1>16. \A u \in HandType \ {"PAIR_CHAIN"} : Hands(t.handMap, u) = Hands(s.handMap, u)
    BY <1>13
  <1>17. PairTurn(s, t)
    BY <1>13, <1>15, <1>16 DEF PairTurn
  <1> QED  BY <1>2, <1>17
-----------------------------------------------------------------------------
(* What is left: getNormalHand                                             *)

(* getNormalHand in two parts: what it finds, and the map it makes of      *)
(* that.                                                                   *)
FoundTypes == {"BOMB", "TRIO", "PAIR", "SOLO"}
SoloPoints(c) == {p \in Point \ NukePoints(c) : c[p] = 1}
NormalFound(c) ==
  [BOMB |-> Nuke(c) \o Singles("BOMB", Count(c, 4)),
   TRIO |-> Singles("TRIO", Count(c, 3)),
   PAIR |-> Singles("PAIR", Count(c, 2)),
   SOLO |-> Singles("SOLO", SoloPoints(c))]
NormalMap(m, found) ==
  LET more == {t \in DOMAIN found : found[t] # <<>>}
  IN  [t \in DOMAIN m \cup more |-> Hands(m, t) \o (IF t \in more THEN found[t] ELSE <<>>)]

(* The two parts make getNormalHand.                                       *)
LEMMA NormalSplit ==
  ASSUME NEW s
  PROVE  getNormalHand(s) = InWork([p \in Point |-> IF s.cards[p] \in 1..4 THEN 0 ELSE s.cards[p]],
                                   NormalMap(s.handMap, NormalFound(s.cards)))
  BY DEF getNormalHand, NormalFound, NormalMap, SoloPoints

(* The map has what was there, then what was found.                        *)
LEMMA NormalMapFacts ==
  ASSUME NEW m \in Maps, NEW found, DOMAIN found = FoundTypes,
         \A t \in FoundTypes : found[t] \in Seq(Shaped(t))
  PROVE  /\ NormalMap(m, found) \in Maps
         /\ \A u \in HandType : Hands(NormalMap(m, found), u) =
              IF u \in FoundTypes THEN Hands(m, u) \o found[u] ELSE Hands(m, u)
  <1> DEFINE more == {t \in DOMAIN found : found[t] # <<>>}
             n == NormalMap(m, found)
  <1>1. FoundTypes \in SUBSET HandType
    BY DEF FoundTypes, HandType
  <1>2. more \in SUBSET FoundTypes /\ \A t \in FoundTypes : t \notin more => found[t] = <<>>
    OBVIOUS
  <1>3. \A t \in HandType : Hands(m, t) \in Seq(Shaped(t))
    BY MapHands
  <1>4. \A t \in HandType : Hands(m, t) \o <<>> = Hands(m, t)
    BY <1>3, ConcatEmptySeq
  <1>5. n = [t \in DOMAIN m \cup more |-> Hands(m, t) \o (IF t \in more THEN found[t] ELSE <<>>)]
    BY DEF NormalMap
  <1> HIDE DEF n, more
  <1>6. DOMAIN n = DOMAIN m \cup more /\ DOMAIN m \in SUBSET HandType /\ DOMAIN n \in SUBSET HandType
    BY <1>1, <1>2, <1>5, MapHands
  <1>7. \A t \in DOMAIN n : n[t] = IF t \in FoundTypes THEN Hands(m, t) \o found[t] ELSE Hands(m, t)
    <2> SUFFICES ASSUME NEW t \in DOMAIN n
                 PROVE  n[t] = IF t \in FoundTypes THEN Hands(m, t) \o found[t] ELSE Hands(m, t)
      OBVIOUS
    <2>1. n[t] = Hands(m, t) \o (IF t \in more THEN found[t] ELSE <<>>)
      BY <1>5, <1>6
    <2>2. Hands(m, t) \o <<>> = Hands(m, t)
      BY <1>4, <1>6
    <2>3. t \in FoundTypes /\ t \notin more => found[t] = <<>>
      BY <1>2
    <2> QED  BY <1>2, <2>1, <2>2, <2>3
  <1>8. \A t \in DOMAIN n : n[t] \in Seq(Shaped(t)) /\ n[t] \in Lists
    <2> SUFFICES ASSUME NEW t \in DOMAIN n  PROVE n[t] \in Seq(Shaped(t)) /\ n[t] \in Lists
      OBVIOUS
    <2>1. t \in HandType /\ Hands(m, t) \in Seq(Shaped(t))
      BY <1>3, <1>6
    <2>2. t \in FoundTypes => Hands(m, t) \o found[t] \in Seq(Shaped(t))
      BY <2>1, ConcatProperties
    <2>3. n[t] \in Seq(Shaped(t))
      BY <1>7, <2>1, <2>2
    <2> QED  BY <2>3, ShapedAreHands
  <1>9. n \in [DOMAIN n -> Lists]
    <2>1. n = [t \in DOMAIN n |-> n[t]]
      BY <1>5, <1>6
    <2> QED  BY <1>8, <2>1
  <1>10. n \in Maps
    BY <1>6, <1>8, <1>9 DEF Maps
  <1>11. \A u \in HandType : Hands(n, u) = IF u \in FoundTypes THEN Hands(m, u) \o found[u] ELSE Hands(m, u)
    <2> SUFFICES ASSUME NEW u \in HandType
                 PROVE  Hands(n, u) = IF u \in FoundTypes THEN Hands(m, u) \o found[u] ELSE Hands(m, u)
      OBVIOUS
    <2>1. CASE u \in DOMAIN n
      BY <1>7, <2>1 DEF Hands
    <2>2. CASE u \notin DOMAIN n
      <3>1. Hands(n, u) = <<>> /\ u \notin DOMAIN m /\ u \notin more
        BY <1>6, <2>2 DEF Hands
      <3>2. Hands(m, u) = <<>>
        BY <3>1 DEF Hands
      <3>3. u \in FoundTypes => found[u] = <<>>
        BY <1>2, <3>1
      <3>4. <<>> \o <<>> = <<>>
        BY <1>4, <3>2
      <3> QED  BY <3>1, <3>2, <3>3, <3>4
    <2> QED  BY <2>1, <2>2
  <1> QED  BY <1>10, <1>11 DEF n

(* And as many cards.                                                      *)
LEMMA NormalCount ==
  ASSUME NEW m \in Maps, NEW found, DOMAIN found = FoundTypes,
         \A t \in FoundTypes : found[t] \in Seq(Shaped(t)), NEW p \in Point
  PROVE  /\ InMap(NormalMap(m, found), p) =
              InMap(m, p) + InList(found["BOMB"], p) + InList(found["TRIO"], p)
                          + InList(found["PAIR"], p) + InList(found["SOLO"], p)
         /\ InMap(m, p) \in Nat
  <1> DEFINE m1 == Add(m, "BOMB", found["BOMB"])
             m2 == Add(m1, "TRIO", found["TRIO"])
             m3 == Add(m2, "PAIR", found["PAIR"])
             m4 == Add(m3, "SOLO", found["SOLO"])
  <1>1. /\ {"BOMB", "TRIO", "PAIR", "SOLO"} \in SUBSET HandType
        /\ found["BOMB"] \in Seq(Shaped("BOMB")) /\ found["TRIO"] \in Seq(Shaped("TRIO"))
        /\ found["PAIR"] \in Seq(Shaped("PAIR")) /\ found["SOLO"] \in Seq(Shaped("SOLO"))
    BY DEF FoundTypes, HandType
  <1>2. /\ m1 \in Maps /\ InMap(m1, p) = InMap(m, p) + InList(found["BOMB"], p)
        /\ \A u \in HandType : Hands(m1, u) = IF u = "BOMB" THEN Hands(m, "BOMB") \o found["BOMB"] ELSE Hands(m, u)
    BY <1>1, AddFacts
  <1> HIDE DEF m1
  <1>3. /\ m2 \in Maps /\ InMap(m2, p) = InMap(m1, p) + InList(found["TRIO"], p)
        /\ \A u \in HandType : Hands(m2, u) = IF u = "TRIO" THEN Hands(m1, "TRIO") \o found["TRIO"] ELSE Hands(m1, u)
    BY <1>1, <1>2, AddFacts
  <1> HIDE DEF m2
  <1>4. /\ m3 \in Maps /\ InMap(m3, p) = InMap(m2, p) + InList(found["PAIR"], p)
        /\ \A u \in HandType : Hands(m3, u) = IF u = "PAIR" THEN Hands(m2, "PAIR") \o found["PAIR"] ELSE Hands(m2, u)
    BY <1>1, <1>3, AddFacts
  <1> HIDE DEF m3
  <1>5. /\ m4 \in Maps /\ InMap(m4, p) = InMap(m3, p) + InList(found["SOLO"], p)
        /\ \A u \in HandType : Hands(m4, u) = IF u = "SOLO" THEN Hands(m3, "SOLO") \o found["SOLO"] ELSE Hands(m3, u)
    BY <1>1, <1>4, AddFacts
  <1> HIDE DEF m4
  <1>6. /\ NormalMap(m, found) \in Maps
        /\ \A u \in HandType : Hands(NormalMap(m, found), u) =
             IF u \in FoundTypes THEN Hands(m, u) \o found[u] ELSE Hands(m, u)
    BY NormalMapFacts
  <1>7. \A u \in HandType : Hands(NormalMap(m, found), u) = Hands(m4, u)
    <2> SUFFICES ASSUME NEW u \in HandType  PROVE Hands(NormalMap(m, found), u) = Hands(m4, u)
      OBVIOUS
    <2>1. CASE u = "BOMB"
      BY <1>1, <1>2, <1>3, <1>4, <1>5, <1>6, <2>1 DEF FoundTypes
    <2>2. CASE u = "TRIO"
      BY <1>1, <1>2, <1>3, <1>4, <1>5, <1>6, <2>2 DEF FoundTypes
    <2>3. CASE u = "PAIR"
      <3>1. Hands(m2, "PAIR") = Hands(m, "PAIR")
        BY <1>1, <1>2, <1>3
      <3>2. Hands(m4, "PAIR") = Hands(m2, "PAIR") \o found["PAIR"]
        BY <1>1, <1>4, <1>5
      <3> QED  BY <1>1, <1>6, <2>3, <3>1, <3>2 DEF FoundTypes
    <2>4. CASE u = "SOLO"
      <3>1. Hands(m3, "SOLO") = Hands(m, "SOLO")
        BY <1>1, <1>2, <1>3, <1>4
      <3>2. Hands(m4, "SOLO") = Hands(m3, "SOLO") \o found["SOLO"]
        BY <1>1, <1>5
      <3> QED  BY <1>1, <1>6, <2>4, <3>1, <3>2 DEF FoundTypes
    <2>5. CASE u \notin FoundTypes
      BY <1>2, <1>3, <1>4, <1>5, <1>6, <2>5 DEF FoundTypes
    <2> QED  BY <2>1, <2>2, <2>3, <2>4, <2>5 DEF FoundTypes
  <1>8. InMap(NormalMap(m, found), p) = InMap(m4, p)
    BY <1>5, <1>6, <1>7, MapSame
  <1>9. InMap(m, p) \in Nat
    BY InMapIsSum
  <1> QED  BY <1>2, <1>3, <1>4, <1>5, <1>8, <1>9

(* What getNormalHand does: the cards are kept, none is left, and the      *)
(* single hands are those of the points with that many cards.              *)
NormalTurn(s, t) ==
  /\ t \in Splits
  /\ \A p \in Point : Kept(t, p) = Kept(s, p)
  /\ \A p \in Point : t.cards[p] <= 0 /\ (t.cards[p] >= 0 \/ t.cards[p] >= s.cards[p])
  /\ Hands(t.handMap, "SOLO") = Hands(s.handMap, "SOLO") \o Singles("SOLO", SoloPoints(s.cards))
  /\ Hands(t.handMap, "PAIR") = Hands(s.handMap, "PAIR") \o Singles("PAIR", Count(s.cards, 2))
  /\ Hands(t.handMap, "TRIO") = Hands(s.handMap, "TRIO") \o Singles("TRIO", Count(s.cards, 3))
  /\ \A u \in HandType \ FoundTypes : Hands(t.handMap, u) = Hands(s.handMap, u)

(* The hands found have all of a point's cards, if there are one to four.  *)
LEMMA NormalSum ==
  ASSUME NEW c \in [Point -> Int], NEW p \in Point, c[p] <= 4, p \in Jokers => c[p] <= 1
  PROVE  InList(NormalFound(c)["BOMB"], p) + InList(NormalFound(c)["TRIO"], p)
           + InList(NormalFound(c)["PAIR"], p) + InList(NormalFound(c)["SOLO"], p)
         = IF c[p] \in 1..4 THEN c[p] ELSE 0
  <1> DEFINE found == NormalFound(c)
             N == NukePoints(c)
             v == c[p]
             in(n) == p \in Count(c, n)
  <1>1. /\ found["BOMB"] = Nuke(c) \o Singles("BOMB", Count(c, 4))
        /\ found["TRIO"] = Singles("TRIO", Count(c, 3))
        /\ found["PAIR"] = Singles("PAIR", Count(c, 2))
        /\ found["SOLO"] = Singles("SOLO", SoloPoints(c))
    BY DEF NormalFound
  <1> HIDE DEF found
  <1>2. InList(found["BOMB"], p) = (IF p \in N THEN 1 ELSE 0) + (IF p \in Count(c, 4) THEN 4 ELSE 0)
    <2>1. Nuke(c) \in Lists /\ InList(Nuke(c), p) = IF p \in N THEN 1 ELSE 0
      BY NukeFacts
    <2>2. "BOMB" \in Bare \cup {"BOMB"} /\ Count(c, 4) \in SUBSET Point /\ BodyWidth("BOMB") = 4
      BY CountFacts DEF BodyWidth
    <2>3. /\ Singles("BOMB", Count(c, 4)) \in Lists
          /\ InList(Singles("BOMB", Count(c, 4)), p) = IF p \in Count(c, 4) THEN 4 ELSE 0
      BY <2>2, SinglesFacts
    <2> QED  BY <1>1, <2>1, <2>3, InListOfTwo
  <1>3. InList(found["TRIO"], p) = IF p \in Count(c, 3) THEN 3 ELSE 0
    <2>1. "TRIO" \in Bare \cup {"BOMB"} /\ Count(c, 3) \in SUBSET Point /\ BodyWidth("TRIO") = 3
      BY CountFacts DEF BodyWidth, Bare
    <2> QED  BY <1>1, <2>1, SinglesFacts
  <1>4. InList(found["PAIR"], p) = IF p \in Count(c, 2) THEN 2 ELSE 0
    <2>1. "PAIR" \in Bare \cup {"BOMB"} /\ Count(c, 2) \in SUBSET Point /\ BodyWidth("PAIR") = 2
      BY CountFacts DEF BodyWidth, Bare
    <2> QED  BY <1>1, <2>1, SinglesFacts
  <1>5. InList(found["SOLO"], p) = IF p \in SoloPoints(c) THEN 1 ELSE 0
    <2>1. "SOLO" \in Bare \cup {"BOMB"} /\ SoloPoints(c) \in SUBSET Point /\ BodyWidth("SOLO") = 1
      BY DEF BodyWidth, Bare, SoloPoints
    <2> QED  BY <1>1, <2>1, SinglesFacts
  <1>6. v \in Int /\ v <= 4 /\ (p \in SoloPoints(c) <=> (p \notin N /\ v = 1))
    BY DEF SoloPoints
  <1>7. CASE p \in Jokers
    <2>1. v <= 1 /\ ~in(4) /\ ~in(3) /\ ~in(2) /\ (p \in N => v = 1)
      BY <1>7, CountFacts, NukeFacts
    <2> HIDE DEF v, in, N
    <2> QED  BY <1>2, <1>3, <1>4, <1>5, <1>6, <2>1 DEF v, in, found
  <1>8. CASE p \notin Jokers
    <2>1. p \notin N /\ (in(4) <=> v = 4) /\ (in(3) <=> v = 3) /\ (in(2) <=> v = 2)
      BY <1>8, CountFacts, NukeFacts
    <2> HIDE DEF v, in, N
    <2> QED  BY <1>2, <1>3, <1>4, <1>5, <1>6, <2>1 DEF v, in, found
  <1> QED  BY <1>7, <1>8

(* getNormalHand does so when no point has more than four cards and no     *)
(* joker more than one.                                                    *)
LEMMA NormalKeeps ==
  ASSUME NEW s \in Splits, \A p \in Point : s.cards[p] <= 4, \A p \in Jokers : s.cards[p] <= 1
  PROVE  NormalTurn(s, getNormalHand(s))
  <1> DEFINE sc == s.cards
             m == s.handMap
             found == NormalFound(sc)
             c == [p \in Point |-> IF sc[p] \in 1..4 THEN 0 ELSE sc[p]]
             t == InWork(c, NormalMap(m, found))
  <1>1. sc \in [Point -> Int] /\ m \in Maps
    BY DEF Splits
  <1>2. getNormalHand(s) = t
    BY NormalSplit
  <1>3. /\ DOMAIN found = FoundTypes
        /\ found["BOMB"] = Nuke(sc) \o Singles("BOMB", Count(sc, 4))
        /\ found["TRIO"] = Singles("TRIO", Count(sc, 3))
        /\ found["PAIR"] = Singles("PAIR", Count(sc, 2))
        /\ found["SOLO"] = Singles("SOLO", SoloPoints(sc))
    BY DEF NormalFound, FoundTypes
  <1>4. \A u \in FoundTypes : found[u] \in Seq(Shaped(u))
    <2>1. \A n : Count(sc, n) \in SUBSET Point
      BY CountFacts
    <2>2. SoloPoints(sc) \in SUBSET Point
      BY DEF SoloPoints
    <2>3. "TRIO" \in Bare \cup {"BOMB"} /\ "PAIR" \in Bare \cup {"BOMB"} /\ "SOLO" \in Bare \cup {"BOMB"}
          /\ "BOMB" \in Bare \cup {"BOMB"}
      BY DEF Bare
    <2>4. found["TRIO"] \in Seq(Shaped("TRIO"))
      <3>1. Singles("TRIO", Count(sc, 3)) \in Seq(Shaped("TRIO"))
        BY <2>1, <2>3, SinglesFacts
      <3> QED  BY <1>3, <3>1
    <2>5. found["PAIR"] \in Seq(Shaped("PAIR"))
      <3>1. Singles("PAIR", Count(sc, 2)) \in Seq(Shaped("PAIR"))
        BY <2>1, <2>3, SinglesFacts
      <3> QED  BY <1>3, <3>1
    <2>6. found["SOLO"] \in Seq(Shaped("SOLO"))
      <3>1. Singles("SOLO", SoloPoints(sc)) \in Seq(Shaped("SOLO"))
        BY <2>2, <2>3, SinglesFacts
      <3> QED  BY <1>3, <3>1
    <2>7. found["BOMB"] \in Seq(Shaped("BOMB"))
      <3>1. Singles("BOMB", Count(sc, 4)) \in Seq(Shaped("BOMB"))
        BY <2>1, <2>3, SinglesFacts
      <3>2. Nuke(sc) \in Seq(Shaped("BOMB"))
        BY NukeFacts
      <3>3. Nuke(sc) \o Singles("BOMB", Count(sc, 4)) \in Seq(Shaped("BOMB"))
        BY <3>1, <3>2, ConcatProperties
      <3> QED  BY <1>3, <3>3
    <2> HIDE DEF found
    <2> QED  BY <2>4, <2>5, <2>6, <2>7 DEF FoundTypes
  <1>5. c \in [Point -> Int] /\ \A p \in Point : c[p] = IF sc[p] \in 1..4 THEN 0 ELSE sc[p]
    BY <1>1
  <1>6. ASSUME NEW p \in Point
        PROVE  Kept(t, p) = Kept(s, p)
    <2>1. /\ InMap(NormalMap(m, found), p) =
              InMap(m, p) + InList(found["BOMB"], p) + InList(found["TRIO"], p)
                          + InList(found["PAIR"], p) + InList(found["SOLO"], p)
          /\ InMap(m, p) \in Nat
      <3> HIDE DEF found, m
      <3> QED  BY <1>1, <1>3, <1>4, NormalCount
    <2>2. InList(found["BOMB"], p) + InList(found["TRIO"], p)
             + InList(found["PAIR"], p) + InList(found["SOLO"], p) = IF sc[p] \in 1..4 THEN sc[p] ELSE 0
      BY <1>1, NormalSum
    <2>3. \A u \in FoundTypes : InList(found[u], p) \in Nat
      <3> HIDE DEF found
      <3> SUFFICES ASSUME NEW u \in FoundTypes  PROVE InList(found[u], p) \in Nat
        OBVIOUS
      <3>1. found[u] \in Lists
        BY <1>4, ShapedAreHands
      <3> QED  BY <3>1, InListIsSum
    <2> DEFINE a == InList(found["BOMB"], p)
               b == InList(found["TRIO"], p)
               d == InList(found["PAIR"], p)
               e == InList(found["SOLO"], p)
               i == InMap(m, p)
               j == InMap(NormalMap(m, found), p)
               v == sc[p]
               w == c[p]
    <2>4. a \in Nat /\ b \in Nat /\ d \in Nat /\ e \in Nat
      <3> HIDE DEF found
      <3> QED  BY <2>3 DEF FoundTypes
    <2>5. /\ j = i + a + b + d + e /\ i \in Nat /\ a + b + d + e = IF v \in 1..4 THEN v ELSE 0
          /\ v \in Int /\ w = IF v \in 1..4 THEN 0 ELSE v
      <3> HIDE DEF found
      <3> QED  BY <1>1, <1>5, <2>1, <2>2
    <2>6. Kept(t, p) = j + w /\ Kept(s, p) = i + v
      BY DEF Kept, InWork
    <2> HIDE DEF a, b, d, e, i, j, v, w, t
    <2>7. j + w = i + v
      BY <2>4, <2>5
    <2> QED  BY <2>6, <2>7
  <1>7. \A p \in Point : c[p] <= 0 /\ (c[p] >= 0 \/ c[p] >= sc[p])
    <2> HIDE DEF c
    <2> SUFFICES ASSUME NEW p \in Point  PROVE c[p] <= 0 /\ (c[p] >= 0 \/ c[p] >= sc[p])
      OBVIOUS
    <2>1. sc[p] \in Int /\ sc[p] <= 4
      BY <1>1
    <2> HIDE DEF sc
    <2> QED  BY <1>5, <2>1
  <1>8. /\ NormalMap(m, found) \in Maps
        /\ \A u \in HandType : Hands(NormalMap(m, found), u) =
              IF u \in FoundTypes THEN Hands(m, u) \o found[u] ELSE Hands(m, u)
    <2> HIDE DEF found, m
    <2> QED  BY <1>1, <1>3, <1>4, NormalMapFacts
  <1>9. t.cards = c /\ t.handMap = NormalMap(m, found) /\ t \in Splits
    <2> HIDE DEF found, c, m
    <2> QED  BY <1>5, <1>8 DEF InWork, Splits
  <1>10. /\ Hands(t.handMap, "SOLO") = Hands(m, "SOLO") \o found["SOLO"]
         /\ Hands(t.handMap, "PAIR") = Hands(m, "PAIR") \o found["PAIR"]
         /\ Hands(t.handMap, "TRIO") = Hands(m, "TRIO") \o found["TRIO"]
         /\ \A u \in HandType \ FoundTypes : Hands(t.handMap, u) = Hands(m, u)
    <2> HIDE DEF found, c, m, t
    <2> QED  BY <1>8, <1>9 DEF FoundTypes, HandType
  <1> HIDE DEF t, c, found
  <1> QED  BY <1>2, <1>3, <1>6, <1>7, <1>9, <1>10 DEF NormalTurn
-----------------------------------------------------------------------------
(* Lists that kickers are taken from                                       *)

(* The hands of one list are in another; a list has a hand of a key point. *)
Sublist(a, b) == \A i \in DOMAIN a : \E j \in DOMAIN b : a[i] = b[j]
Keyed(hs, p) == \E j \in 1..Len(hs) : hs[j].keyPoint = p

(* A hand without chain or kickers has its key point only.                 *)
LEMMA BarePts ==
  ASSUME NEW type \in Bare, NEW h \in Shaped(type), NEW p \in Point
  PROVE  Pts(h, p) = IF h.keyPoint = p THEN BodyWidth(type) ELSE 0
  <1>1. h \in Hand /\ h.kicker = <<>> /\ h.type = type /\ h.len = 1
    BY DEF Shaped, Bare
  <1>2. Pts(h, p) = IF p \in h.keyPoint..End(h) THEN BodyWidth(h.type) ELSE 0
    BY <1>1, BarePoints
  <1>3. h.keyPoint \in Nat /\ p \in Nat /\ End(h) = h.keyPoint + 1 - 1
    BY <1>1, PointFacts DEF Hand, End
  <1>4. p \in h.keyPoint..End(h) <=> h.keyPoint = p
    BY <1>3
  <1> QED  BY <1>1, <1>2, <1>4

(* A list of such hands, with different key points, has a point if it is   *)
(* one of them.                                                            *)
LEMMA KeyedCount ==
  ASSUME NEW type \in Bare, NEW hs \in Seq(Shaped(type)), DistinctKeys(hs), NEW p \in Point
  PROVE  InList(hs, p) = IF Keyed(hs, p) THEN BodyWidth(type) ELSE 0
  <1>1. hs \in Lists /\ DOMAIN hs = 1..Len(hs) /\ Len(hs) \in Nat /\ \A j \in 1..Len(hs) : hs[j] \in Shaped(type)
    BY ShapedAreHands
  <1>2. \A j \in 1..Len(hs) : Pts(hs[j], p) = IF hs[j].keyPoint = p THEN BodyWidth(type) ELSE 0
    BY <1>1, BarePts
  <1>3. CASE Keyed(hs, p)
    <2>1. PICK k \in 1..Len(hs) : hs[k].keyPoint = p
      BY <1>3 DEF Keyed
    <2>2. \A j \in 1..Len(hs) : j # k => Pts(hs[j], p) = 0
      BY <1>1, <1>2, <2>1 DEF DistinctKeys
    <2>3. InList(hs, p) = Pts(hs[k], p)
      BY <1>1, <2>1, <2>2, InListOnce
    <2> QED  BY <1>2, <1>3, <2>1, <2>3
  <1>4. CASE ~Keyed(hs, p)
    <2>1. \A j \in 1..Len(hs) : Pts(hs[j], p) = 0
      BY <1>2, <1>4 DEF Keyed
    <2>2. InList(hs, p) = 0
      BY <1>1, <2>1, InListNever
    <2> QED  BY <1>4, <2>2
  <1> QED  BY <1>3, <1>4

(* Without takes out the hands of some key points.                         *)
LEMMA WithoutFacts ==
  ASSUME NEW S, NEW hs \in Seq(S), NEW points
  PROVE  LET w == Without(hs, points)
         IN  /\ w \in Seq(S) /\ Sublist(w, hs) /\ DOMAIN w = 1..Len(w)
             /\ \A i \in 1..Len(w) : w[i].keyPoint \notin points
             /\ \A p : Keyed(w, p) <=> Keyed(hs, p) /\ p \notin points
             /\ DistinctKeys(hs) => DistinctKeys(w)
  <1> DEFINE J == {j \in DOMAIN hs : hs[j].keyPoint \notin points}
             kept == Ascending(J)
             m == Len(kept)
             w == Without(hs, points)
             n == Len(hs)
  <1>1. DOMAIN hs = 1..n /\ n \in Nat /\ \A j \in 1..n : hs[j] \in S
    BY ElementOfSeq, LenProperties
  <1>2. J \in SUBSET (0..n) /\ J \in SUBSET (1..n) /\ \A j \in J : hs[j].keyPoint \notin points
    BY <1>1
  <1>3. \A j \in 1..n : hs[j].keyPoint \notin points => j \in J
    BY <1>1
  <1>4. w = [i \in DOMAIN kept |-> hs[kept[i]]]
    BY DEF Without
  <1> HIDE DEF J, n
  <1>5. /\ kept \in Seq(J) /\ Len(kept) = Cardinality(J)
        /\ \A j \in J : \E i \in 1..Cardinality(J) : kept[i] = j
        /\ \A i, j \in 1..Cardinality(J) : i < j => kept[i] < kept[j]
    BY <1>1, <1>2, AscendingFacts
  <1>6. /\ m \in Nat /\ DOMAIN kept = 1..m
        /\ \A i \in 1..m : kept[i] \in J /\ kept[i] \in 1..n
        /\ \A j \in J : \E i \in 1..m : kept[i] = j
        /\ \A i, j \in 1..m : i < j => kept[i] < kept[j]
    <2>1. m = Cardinality(J)
      BY <1>5
    <2>2. m \in Nat /\ DOMAIN kept = 1..m /\ \A i \in 1..m : kept[i] \in J
      BY <1>5, ElementOfSeq, LenProperties
    <2> HIDE DEF m, kept
    <2> QED  BY <1>2, <1>5, <2>1, <2>2
  <1> HIDE DEF kept, m
  <1>7. \A i \in 1..m : w[i] = hs[kept[i]] /\ w[i] \in S
    BY <1>1, <1>4, <1>6
  <1>8. w \in Seq(S) /\ Len(w) = m /\ DOMAIN w = 1..m
    <2>1. w \in [1..m -> S]
      BY <1>1, <1>4, <1>6
    <2> HIDE DEF w
    <2> QED  BY <1>6, <2>1
  <1> HIDE DEF w
  <1>9. Sublist(w, hs)
    BY <1>1, <1>6, <1>7, <1>8 DEF Sublist
  <1>10. \A i \in 1..Len(w) : w[i].keyPoint \notin points
    BY <1>2, <1>6, <1>7, <1>8
  <1>11. \A p : Keyed(w, p) <=> Keyed(hs, p) /\ p \notin points
    <2> SUFFICES ASSUME NEW p  PROVE Keyed(w, p) <=> Keyed(hs, p) /\ p \notin points
      OBVIOUS
    <2>1. ASSUME Keyed(w, p)  PROVE Keyed(hs, p) /\ p \notin points
      BY <2>1, <1>6, <1>7, <1>8, <1>10 DEF Keyed, n
    <2>2. ASSUME Keyed(hs, p), p \notin points  PROVE Keyed(w, p)
      <3>1. PICK j \in 1..n : hs[j].keyPoint = p
        BY <2>2 DEF Keyed, n
      <3>2. PICK i \in 1..m : kept[i] = j
        BY <1>3, <1>6, <2>2, <3>1
      <3> QED  BY <1>7, <1>8, <3>1, <3>2 DEF Keyed
    <2> QED  BY <2>1, <2>2
  <1>12. ASSUME DistinctKeys(hs)  PROVE DistinctKeys(w)
    <2> SUFFICES ASSUME NEW i \in 1..m, NEW j \in 1..m, w[i].keyPoint = w[j].keyPoint  PROVE i = j
      BY <1>8 DEF DistinctKeys
    <2>1. kept[i] = kept[j]
      BY <1>1, <1>6, <1>7, <1>12 DEF DistinctKeys
    <2>2. kept[i] \in Int /\ kept[j] \in Int /\ i \in Int /\ j \in Int
      BY <1>1, <1>6
    <2>3. ~(i < j) /\ ~(j < i)
      BY <1>6, <2>1, <2>2
    <2> QED  BY <2>2, <2>3
  <1> QED  BY <1>8, <1>9, <1>10, <1>11, <1>12 DEF w

(* Of nothing it takes nothing.                                            *)
LEMMA WithoutOfNone == \A points : Without(<<>>, points) = <<>>
  <1> SUFFICES ASSUME NEW points  PROVE Without(<<>>, points) = <<>>
    OBVIOUS
  <1>1. {j \in DOMAIN <<>> : <<>>[j].keyPoint \notin points} = {}
    OBVIOUS
  <1>2. DOMAIN Ascending({}) = {}
    BY AscendingEmpty
  <1> QED  BY <1>1, <1>2 DEF Without

(* A list has the cards of each of its hands.                              *)
LEMMA InListHasHand ==
  ASSUME NEW hs \in Lists, NEW k \in 1..Len(hs), NEW p \in Point
  PROVE  Pts(hs[k], p) <= InList(hs, p)
  <1>1. RemoveAt(hs, k) \in Lists /\ InList(RemoveAt(hs, k), p) = InList(hs, p) - Pts(hs[k], p)
    BY InListRemoved
  <1>2. InList(RemoveAt(hs, k), p) \in Nat /\ InList(hs, p) \in Nat
    BY <1>1, InListIsSum
  <1>3. Pts(hs[k], p) \in Nat
    BY PtsType
  <1> QED  BY <1>1, <1>2, <1>3

(* Put sets one list and leaves the others.                                *)
LEMMA PutHands ==
  ASSUME NEW m, NEW t, NEW hs
  PROVE  \A u : Hands(Put(m, t, hs), u) = IF u = t THEN hs ELSE Hands(m, u)
  <1> DEFINE n == Put(m, t, hs)
  <1>1. n = [u \in DOMAIN m \cup {t} |-> IF u = t THEN hs ELSE m[u]]
    BY DEF Put
  <1>2. DOMAIN n = DOMAIN m \cup {t} /\ \A u \in DOMAIN n : n[u] = IF u = t THEN hs ELSE m[u]
    BY <1>1
  <1> HIDE DEF n
  <1>3. ASSUME NEW u  PROVE Hands(n, u) = IF u = t THEN hs ELSE Hands(m, u)
    BY <1>2 DEF Hands
  <1> QED  BY <1>3 DEF n

(* A map has the cards of any two of its lists.                            *)
LEMMA InMapHasLists ==
  ASSUME NEW m \in Maps, NEW q \in HandType, NEW r \in HandType, q # r, NEW p \in Point
  PROVE  InList(Hands(m, q), p) + InList(Hands(m, r), p) <= InMap(m, p)
  <1> DEFINE none == <<>>
             a == Put(m, q, none)
             b == Put(a, r, none)
  <1>1. none \in Seq(Shaped(q)) /\ none \in Seq(Shaped(r)) /\ InList(none, p) = 0
    BY EmptySeq, InListOfNone
  <1> HIDE DEF none
  <1>2. a \in Maps /\ Hands(a, r) = Hands(m, r) /\ Hands(a, q) = none
          /\ \A u \in HandType : u # q => Hands(a, u) = Hands(m, u)
    <2>1. a \in Maps
      BY <1>1, PutFacts
    <2>2. \A u : Hands(a, u) = IF u = q THEN none ELSE Hands(m, u)
      BY PutHands
    <2> HIDE DEF a
    <2> QED  BY <2>1, <2>2
  <1> HIDE DEF a
  <1>3. b \in Maps /\ Hands(b, r) = none
          /\ \A u \in HandType : u # r => Hands(b, u) = Hands(a, u)
    <2>1. b \in Maps
      BY <1>1, <1>2, PutFacts
    <2>2. \A u : Hands(b, u) = IF u = r THEN none ELSE Hands(a, u)
      BY PutHands
    <2> HIDE DEF b
    <2> QED  BY <2>1, <2>2
  <1> HIDE DEF b
  <1>4. InMap(a, p) = InMap(m, p) - InList(Hands(m, q), p) + InList(Hands(a, q), p)
    BY <1>2, MapChange
  <1>5. InMap(b, p) = InMap(a, p) - InList(Hands(a, r), p) + InList(Hands(b, r), p)
    BY <1>2, <1>3, MapChange
  <1>6. Hands(a, r) = Hands(m, r) /\ Hands(a, q) = none /\ Hands(b, r) = none
    BY <1>2, <1>3
  <1>7. InMap(m, p) \in Nat /\ InMap(b, p) \in Nat
    BY <1>3, InMapIsSum
  <1>8. InList(Hands(m, q), p) \in Nat /\ InList(Hands(m, r), p) \in Nat
    BY MapHands, InListIsSum
  <1> DEFINE x == InList(Hands(m, q), p)
             y == InList(Hands(m, r), p)
             i == InMap(m, p)
             j == InMap(b, p)
             k == InMap(a, p)
  <1>9. k = i - x + 0 /\ j = k - y + 0 /\ i \in Nat /\ j \in Nat /\ x \in Nat /\ y \in Nat
    BY <1>1, <1>4, <1>5, <1>6, <1>7, <1>8
  <1> HIDE DEF x, y, i, j, k
  <1>10. x + y <= i
    BY <1>9
  <1> QED  BY <1>10 DEF x, y, i
-----------------------------------------------------------------------------
(* A hand gets its kickers                                                 *)

(* The types with kickers that findKicker makes.                           *)
KickedTypes == {"TRIO_SOLO", "TRIO_PAIR", "TRIO_CHAIN_SOLO", "TRIO_CHAIN_PAIR"}

(* A trio or trio chain with kickers outside its body has the cards of     *)
(* both.                                                                   *)
LEMMA KickedHand ==
  ASSUME NEW h \in Hand, h.kicker = <<>>, BodyWidth(h.type) = 3, NEW to \in KickedTypes,
         NEW ps \in Seq(Point), \A j \in DOMAIN ps : ps[j] \notin Body(h)
  PROVE  LET g == [h EXCEPT !.type = to, !.kicker = ps]
         IN  /\ g \in Hand /\ g \in Shaped(to)
             /\ \A p \in Point : Pts(g, p) = (IF p \in Body(h) THEN 3 ELSE 0)
                                             + (IF p \in ToSet(ps) THEN KickerWidth(to) ELSE 0)
  <1> DEFINE g == [h EXCEPT !.type = to, !.kicker = ps]
  <1>1. to \in HandType /\ BodyWidth(to) = 3 /\ KickerWidth(to) \in Nat
        /\ to \notin Bare \cup BareChains \cup {"BOMB"}
    BY DEF KickedTypes, HandType, ChainTypes, BodyWidth, KickerWidth, Bare, BareChains
  <1>2. g \in Hand /\ g.type = to /\ g.kicker = ps /\ g.keyPoint = h.keyPoint /\ g.len = h.len
    BY <1>1 DEF Hand
  <1> HIDE DEF g
  <1>3. g \in Shaped(to)
    BY <1>1, <1>2 DEF Shaped, Bare, BareChains
  <1>4. h.keyPoint \in Nat /\ h.len \in Nat
    BY PointFacts DEF Hand
  <1>5. ASSUME NEW p \in Point
        PROVE  Pts(g, p) = (IF p \in Body(h) THEN 3 ELSE 0) + (IF p \in ToSet(ps) THEN KickerWidth(to) ELSE 0)
    <2> DEFINE at == p - g.keyPoint
               inBody == at >= 0 /\ at < g.len
               asKicker == {j \in DOMAIN g.kicker : g.kicker[j] = p}
    <2>1. p \in Nat
      BY PointFacts
    <2>2. inBody <=> p \in Body(h)
      BY <1>2, <1>4, <2>1 DEF Body, End
    <2>3. asKicker # {} <=> p \in ToSet(ps)
      BY <1>2 DEF ToSet
    <2>4. inBody => asKicker = {}
      BY <1>2, <2>2
    <2>5. Pts(g, p) = CASE inBody /\ \A j \in asKicker : j <= at -> BodyWidth(g.type)
                        [] ~(inBody /\ \A j \in asKicker : j <= at) /\ asKicker # {} -> KickerWidth(g.type)
                        [] OTHER -> 0
      BY DEF Pts, handToPointsArray
    <2> HIDE DEF inBody, asKicker, at
    <2>6. CASE inBody
      <3>1. asKicker = {}
        BY <2>4, <2>6
      <3>2. Pts(g, p) = 3
        BY <1>1, <1>2, <2>5, <2>6, <3>1
      <3> QED  BY <2>2, <2>3, <2>6, <3>1, <3>2
    <2>7. CASE ~inBody
      <3>1. Pts(g, p) = IF asKicker # {} THEN KickerWidth(to) ELSE 0
        BY <1>2, <2>5, <2>7
      <3> QED  BY <1>1, <2>2, <2>3, <2>7, <3>1
    <2> QED  BY <2>6, <2>7
  <1> QED  BY <1>2, <1>3, <1>5 DEF g

(* The first hand and the others have the cards of the list.               *)
LEMMA TailCount ==
  ASSUME NEW hs \in Lists, hs # <<>>, NEW p \in Point
  PROVE  InList(hs, p) = Pts(Head(hs), p) + InList(Tail(hs), p)
  <1>1. Len(hs) \in Nat /\ 1 \in 1..Len(hs) /\ Len(hs) \in 1..Len(hs) /\ Head(hs) = hs[1]
    BY EmptySeq DEF Lists
  <1>2. hs = <<hs[1]>> \o Tail(hs)
    <2>1. SubSeq(hs, 1, Len(hs)) = hs
      BY SubSeqFull DEF Lists
    <2>2. SubSeq(hs, 1, Len(hs)) = <<hs[1]>> \o SubSeq(hs, 2, Len(hs))
      BY <1>1, SubSeqRecursiveFirst DEF Lists
    <2>3. Tail(hs) = SubSeq(hs, 2, Len(hs))
      BY TailIsSubSeq DEF Lists
    <2> QED  BY <2>1, <2>2, <2>3
  <1> DEFINE one == <<hs[1]>>
  <1>3. one \in Lists /\ Tail(hs) \in Lists /\ Len(one) = 1 /\ one[1] = Head(hs)
    BY <1>1, HeadTailProperties DEF Lists
  <1>4. InList(one \o Tail(hs), p) = InList(one, p) + InList(Tail(hs), p)
    <2> HIDE DEF one
    <2> QED  BY <1>3, InListOfTwo
  <1>5. InList(one, p) = Pts(Head(hs), p)
    <2> HIDE DEF one
    <2>1. 1 \in 1..Len(one) /\ \A j \in 1..Len(one) : j # 1 => Pts(one[j], p) = 0
      BY <1>3
    <2> QED  BY <1>3, <2>1, InListOnce
  <1> QED  BY <1>2, <1>4, <1>5

(* A list of one hand has its cards.                                       *)
LEMMA OneCount ==
  ASSUME NEW h \in Hand, NEW p \in Point
  PROVE  InList(<<h>>, p) = Pts(h, p)
  <1> DEFINE one == <<h>>
  <1>1. one \in Lists /\ Len(one) = 1 /\ one[1] = h
    BY DEF Lists
  <1> HIDE DEF one
  <1>2. 1 \in 1..Len(one) /\ \A j \in 1..Len(one) : j # 1 => Pts(one[j], p) = 0
    BY <1>1
  <1>3. InList(one, p) = Pts(h, p)
    BY <1>1, <1>2, InListOnce
  <1> QED  BY <1>3 DEF one

(* The map without the first hand of a type and without its kickers.       *)
TakeOut(m, body, from, points) == [m EXCEPT ![body] = Tail(@), ![from] = Without(@, points)]

(* Only the two lists change.                                              *)
LEMMA TakenOut ==
  ASSUME NEW m \in Maps, NEW body \in DOMAIN m, m[body] # <<>>, NEW from \in HandType, from # body, NEW points
  PROVE  LET x == TakeOut(m, body, from, points)
         IN  /\ x \in Maps /\ DOMAIN x = DOMAIN m
             /\ Hands(x, body) = Tail(Hands(m, body)) /\ Hands(x, from) = Without(Hands(m, from), points)
             /\ \A u \in HandType : u # body /\ u # from => Hands(x, u) = Hands(m, u)
  <1> DEFINE y == TakeOut(m, body, from, points)
             x == [m EXCEPT ![body] = Tail(@), ![from] = Without(@, points)]
             val(u) == CASE u = from -> Without(m[u], points)
                         [] u # from /\ u = body -> Tail(m[u])
                         [] OTHER -> m[u]
  <1>1. DOMAIN m \in SUBSET HandType /\ \A u \in DOMAIN m : m[u] \in Seq(Shaped(u)) /\ Hands(m, u) = m[u]
    BY MapHands DEF Maps
  <1>2. DOMAIN x = DOMAIN m /\ \A u \in DOMAIN m : x[u] = val(u)
    OBVIOUS
  <1>3. x = [u \in DOMAIN m |-> x[u]]
    <2>1. x = [u \in DOMAIN m |-> IF u = from THEN Without([m EXCEPT ![body] = Tail(@)][u], points)
                                  ELSE [m EXCEPT ![body] = Tail(@)][u]]
      OBVIOUS
    <2> HIDE DEF x
    <2> QED  BY <2>1
  <1> HIDE DEF x
  <1>4. \A u \in DOMAIN x : x[u] \in Seq(Shaped(u)) /\ x[u] \in Lists
    <2> SUFFICES ASSUME NEW u \in DOMAIN m  PROVE x[u] \in Seq(Shaped(u)) /\ x[u] \in Lists
      BY <1>2
    <2>1. m[u] \in Seq(Shaped(u)) /\ x[u] = val(u)
      BY <1>1, <1>2
    <2>2. Without(m[u], points) \in Seq(Shaped(u))
      BY <2>1, WithoutFacts
    <2>3. u = body => Tail(m[u]) \in Seq(Shaped(u))
      BY <2>1, HeadTailProperties
    <2>4. x[u] \in Seq(Shaped(u))
      BY <2>1, <2>2, <2>3
    <2> QED  BY <2>4, ShapedAreHands
  <1>5. x \in Maps
    <2>1. x \in [DOMAIN x -> Lists]
      BY <1>2, <1>3, <1>4
    <2> QED  BY <1>1, <1>2, <1>4, <2>1 DEF Maps
  <1>6. Hands(x, body) = Tail(Hands(m, body))
    BY <1>1, <1>2 DEF Hands
  <1>7. Hands(x, from) = Without(Hands(m, from), points)
    <2>1. CASE from \in DOMAIN m
      BY <1>1, <1>2, <2>1 DEF Hands
    <2>2. CASE from \notin DOMAIN m
      BY <1>2, <2>2, WithoutOfNone DEF Hands
    <2> QED  BY <2>1, <2>2
  <1>8. \A u \in HandType : u # body /\ u # from => Hands(x, u) = Hands(m, u)
    BY <1>1, <1>2 DEF Hands
  <1>9. y = x
    BY DEF TakeOut, x
  <1> QED  BY <1>2, <1>5, <1>6, <1>7, <1>8, <1>9

(* Two lists without a common key point. What findKicker needs of a map:   *)
(* no point twice in the solos or the pairs, no solo of a trio's point, at *)
(* most four cards of a point; what it leaves alone: the cards of the map  *)
(* and the lists it does not work on.                                      *)
Apart(a, b) == \A i \in DOMAIN a, j \in DOMAIN b : a[i].keyPoint # b[j].keyPoint
Ready(m) ==
  /\ m \in Maps
  /\ DistinctKeys(Hands(m, "SOLO")) /\ DistinctKeys(Hands(m, "PAIR"))
  /\ Apart(Hands(m, "TRIO"), Hands(m, "SOLO"))
  /\ \A p \in Point : InMap(m, p) <= 4
Kicking == {"TRIO", "TRIO_CHAIN", "SOLO", "PAIR"} \cup KickedTypes
KickStep(m, n) ==
  /\ Ready(n) /\ DOMAIN m \subseteq DOMAIN n
  /\ \A p \in Point : InMap(n, p) = InMap(m, p)
  /\ \A u \in HandType \ Kicking : Hands(n, u) = Hands(m, u)

(* The tail of a list has hands of the list only.                          *)
LEMMA TailIsSublist ==
  ASSUME NEW S, NEW hs \in Seq(S), hs # <<>>
  PROVE  Sublist(Tail(hs), hs)
  <1>1. Len(Tail(hs)) = Len(hs) - 1 /\ \A i \in 1..Len(Tail(hs)) : Tail(hs)[i] = hs[i + 1]
    BY HeadTailProperties
  <1>2. Len(hs) \in Nat /\ DOMAIN hs = 1..Len(hs) /\ DOMAIN Tail(hs) = 1..Len(Tail(hs))
    BY HeadTailProperties, LenProperties
  <1> DEFINE t == Tail(hs)
             n == Len(hs)
  <1>3. \A i \in 1..Len(t) : i + 1 \in 1..n
    BY <1>1, <1>2
  <1> HIDE DEF t, n
  <1>4. \A i \in DOMAIN t : \E j \in DOMAIN hs : t[i] = hs[j]
    BY <1>1, <1>2, <1>3 DEF t, n
  <1> QED  BY <1>4 DEF Sublist, t

(* Lists that are apart stay so when hands are taken out.                  *)
LEMMA ApartSublists ==
  ASSUME NEW a, NEW b, NEW c, NEW d, Apart(a, b), Sublist(c, a), Sublist(d, b)
  PROVE  Apart(c, d)
  BY DEF Apart, Sublist

(* Attach keeps this when the kickers are hands of the list they are taken *)
(* from, and none is of a point of the body.                               *)
LEMMA AttachKeeps ==
  ASSUME NEW m, Ready(m), NEW body \in {"TRIO", "TRIO_CHAIN"}, body \in DOMAIN m, m[body] # <<>>,
         NEW from \in {"SOLO", "PAIR"}, NEW to \in KickedTypes, KickerWidth(to) = BodyWidth(from),
         NEW kickers \in Lists, Sublist(kickers, Hands(m, from)),
         \A j \in DOMAIN kickers : kickers[j].keyPoint \notin Body(Head(m[body]))
  PROVE  KickStep(m, Attach(m, body, kickers, from, to))
  <1> DEFINE ps == [j \in DOMAIN kickers |-> kickers[j].keyPoint]
             P == ToSet(ps)
             x == TakeOut(m, body, from, P)
             h == Head(m[body])
             g == [h EXCEPT !.type = to, !.kicker = ps]
             n == Add(x, to, <<g>>)
             bs == Hands(m, body)
             fs == Hands(m, from)
  <1>1. /\ m \in Maps /\ from \in HandType /\ body \in HandType /\ to \in HandType /\ from # body
        /\ to # from /\ to # body /\ from \in Bare
    BY DEF Ready, KickedTypes, HandType, ChainTypes, Bare
  <1>2. Attach(m, body, kickers, from, to) = n
    BY DEF Attach, TakeOut
  <1>3. bs = m[body] /\ bs \in Seq(Shaped(body)) /\ fs \in Seq(Shaped(from)) /\ bs \in Lists /\ fs \in Lists
    BY <1>1, MapHands
  <1>4. h \in Hand /\ h.kicker = <<>> /\ BodyWidth(h.type) = 3 /\ \A p \in Point : Pts(h, p) = IF p \in Body(h) THEN 3 ELSE 0
    <2>1. h \in Shaped(body)
      BY <1>3, HeadTailProperties
    <2>2. h \in Hand /\ h.kicker = <<>> /\ h.type = body
      BY <2>1 DEF Shaped, Bare, BareChains
    <2>3. BodyWidth(h.type) = 3
      BY <2>2 DEF BodyWidth
    <2> HIDE DEF h
    <2> QED  BY <2>2, <2>3, BarePoints DEF Body
  <1> HIDE DEF h
  <1>5. ps \in Seq(Point) /\ DOMAIN ps = DOMAIN kickers /\ (\A j \in DOMAIN ps : ps[j] = kickers[j].keyPoint)
        /\ \A j \in DOMAIN ps : ps[j] \notin Body(h)
    <2>1. Len(kickers) \in Nat /\ DOMAIN kickers = 1..Len(kickers)
          /\ \A j \in 1..Len(kickers) : kickers[j] \in Hand
      BY ElementOfSeq, LenProperties DEF Lists
    <2>2. \A j \in 1..Len(kickers) : kickers[j].keyPoint \in Point
      BY <2>1 DEF Hand
    <2>3. ps \in [1..Len(kickers) -> Point]
      BY <2>1, <2>2
    <2> QED  BY <2>1, <2>3 DEF h
  <1> HIDE DEF ps
  <1>6. g \in Hand /\ <<g>> \in Seq(Shaped(to))
        /\ \A p \in Point : Pts(g, p) = (IF p \in Body(h) THEN 3 ELSE 0) + (IF p \in P THEN KickerWidth(to) ELSE 0)
    <2>1. g \in Hand /\ g \in Shaped(to)
      BY <1>4, <1>5, KickedHand
    <2>2. \A p \in Point : Pts(g, p) = (IF p \in Body(h) THEN 3 ELSE 0) + (IF p \in P THEN KickerWidth(to) ELSE 0)
      BY <1>4, <1>5, KickedHand
    <2>3. <<g>> \in Seq(Shaped(to))
      <3> HIDE DEF g
      <3> QED  BY <2>1
    <2> QED  BY <2>1, <2>2, <2>3
  <1>7. \A p \in P : Keyed(fs, p)
    <2> SUFFICES ASSUME NEW p \in P  PROVE Keyed(fs, p)
      OBVIOUS
    <2>1. PICK j \in DOMAIN kickers : p = kickers[j].keyPoint
      BY <1>5 DEF ToSet
    <2>2. PICK i \in DOMAIN fs : kickers[j] = fs[i]
      BY DEF Sublist
    <2>3. i \in 1..Len(fs)
      BY <1>3, LenProperties
    <2> QED  BY <2>1, <2>2, <2>3 DEF Keyed
  <1> HIDE DEF P, g
  <1>8. /\ x \in Maps /\ DOMAIN x = DOMAIN m
        /\ Hands(x, body) = Tail(bs) /\ Hands(x, from) = Without(fs, P)
        /\ \A u \in HandType : u # body /\ u # from => Hands(x, u) = Hands(m, u)
    <2>1. /\ x \in Maps /\ DOMAIN x = DOMAIN m
          /\ Hands(x, body) = Tail(Hands(m, body)) /\ Hands(x, from) = Without(Hands(m, from), P)
          /\ \A u \in HandType : u # body /\ u # from => Hands(x, u) = Hands(m, u)
      <3>1. m \in Maps /\ body \in DOMAIN m /\ m[body] # <<>> /\ from \in HandType /\ from # body
        BY <1>1
      <3> HIDE DEF bs, fs
      <3> QED  BY <3>1, TakenOut
    <2> HIDE DEF x
    <2> QED  BY <2>1
  <1> HIDE DEF x
  <1>9. /\ n \in Maps /\ DOMAIN m \subseteq DOMAIN n
        /\ \A p \in Point : InMap(n, p) = InMap(x, p) + InList(<<g>>, p)
        /\ \A u \in HandType : u # to => Hands(n, u) = Hands(x, u)
    <2>1. n \in Maps /\ \A p \in Point : InMap(n, p) = InMap(x, p) + InList(<<g>>, p)
      BY <1>1, <1>6, <1>8, AddFacts
    <2>2. \A u : u # to => Hands(n, u) = Hands(x, u)
      <3> DEFINE all == Hands(x, to) \o <<g>>
      <3>1. n = Put(x, to, all)
        BY DEF Add
      <3> HIDE DEF all, n
      <3>2. \A u : Hands(Put(x, to, all), u) = IF u = to THEN all ELSE Hands(x, u)
        BY PutHands
      <3> QED  BY <3>1, <3>2
    <2>3. DOMAIN n = DOMAIN x \cup {to}
      BY DEF Add, Put
    <2> HIDE DEF n
    <2> QED  BY <1>8, <2>1, <2>2, <2>3
  <1> HIDE DEF n
  <1>10. DistinctKeys(fs)
    BY DEF Ready
  <1>11. /\ Without(fs, P) \in Seq(Shaped(from)) /\ Sublist(Without(fs, P), fs) /\ DistinctKeys(Without(fs, P))
         /\ \A p : Keyed(Without(fs, P), p) <=> Keyed(fs, p) /\ p \notin P
    BY <1>3, <1>10, WithoutFacts
  <1>12. ASSUME NEW p \in Point
         PROVE  InMap(n, p) = InMap(m, p)
    <2> DEFINE y == Put(m, body, Tail(bs))
    <2>1. y \in Maps /\ Hands(y, body) = Tail(bs) /\ \A u \in HandType : u # body => Hands(y, u) = Hands(m, u)
      <3>1. Tail(bs) \in Seq(Shaped(body))
        BY <1>3, HeadTailProperties
      <3>2. y \in Maps
        BY <1>1, <3>1, PutFacts
      <3>3. \A u : Hands(y, u) = IF u = body THEN Tail(bs) ELSE Hands(m, u)
        <4> DEFINE tail == Tail(bs)
        <4> HIDE DEF tail
        <4>1. \A u : Hands(Put(m, body, tail), u) = IF u = body THEN tail ELSE Hands(m, u)
          BY PutHands
        <4> QED  BY <4>1 DEF tail
      <3> HIDE DEF y
      <3> QED  BY <3>2, <3>3
    <2> HIDE DEF y
    <2>2. InMap(y, p) = InMap(m, p) - InList(bs, p) + InList(Tail(bs), p)
      <3>1. InMap(y, p) = InMap(m, p) - InList(Hands(m, body), p) + InList(Hands(y, body), p)
        BY <1>1, <2>1, MapChange
      <3> QED  BY <2>1, <3>1
    <2>3. InMap(x, p) = InMap(y, p) - InList(fs, p) + InList(Without(fs, P), p)
      <3>1. \A u \in HandType : u # from => Hands(x, u) = Hands(y, u)
        BY <1>8, <2>1
      <3>2. Hands(y, from) = fs
        BY <1>1, <2>1
      <3> QED  BY <1>1, <1>8, <2>1, <3>1, <3>2, MapChange
    <2>4. InMap(n, p) = InMap(x, p) + Pts(g, p)
      BY <1>6, <1>9, OneCount
    <2>5. InList(bs, p) = Pts(h, p) + InList(Tail(bs), p)
      BY <1>3, TailCount DEF h
    <2>6. /\ InList(fs, p) = IF Keyed(fs, p) THEN BodyWidth(from) ELSE 0
          /\ InList(Without(fs, P), p) = IF Keyed(Without(fs, P), p) THEN BodyWidth(from) ELSE 0
      BY <1>1, <1>3, <1>10, <1>11, KeyedCount
    <2>7. InMap(m, p) \in Nat /\ InList(bs, p) \in Nat /\ InList(Tail(bs), p) \in Nat /\ BodyWidth(from) \in Nat
      <3>1. Tail(bs) \in Lists
        BY <1>3, HeadTailProperties DEF Lists
      <3>2. BodyWidth(from) \in Nat
        BY DEF BodyWidth
      <3> QED  BY <1>1, <1>3, <3>1, <3>2, InMapIsSum, InListIsSum
    <2> DEFINE k == InMap(m, p)
               b == InList(bs, p)
               c == InList(Tail(bs), p)
               f == InList(fs, p)
               w == InList(Without(fs, P), p)
               d == BodyWidth(from)
               e == Pts(h, p)
               l == Pts(g, p)
               inP == p \in P
               inF == Keyed(fs, p)
    <2>8. /\ k \in Nat /\ b \in Nat /\ c \in Nat /\ d \in Nat /\ e \in Int
          /\ InMap(n, p) = k - b + c - f + w + l /\ b = e + c
          /\ f = (IF inF THEN d ELSE 0) /\ w = (IF inF /\ ~inP THEN d ELSE 0)
          /\ l = e + (IF inP THEN d ELSE 0) /\ (inP => inF)
      <3>1. e \in Int
        BY PtsType
      <3>2. l = e + (IF inP THEN d ELSE 0)
        BY <1>4, <1>6
      <3>3. inP => inF
        BY <1>7
      <3>4. w = (IF inF /\ ~inP THEN d ELSE 0)
        BY <1>11, <2>6
      <3> HIDE DEF k, b, c, d, e, l, f, w, inP, inF
      <3>5. InMap(n, p) = k - b + c - f + w + l
        <4>1. InMap(y, p) = k - b + c
          BY <2>2 DEF k, b, c
        <4>2. InMap(x, p) = InMap(y, p) - f + w
          BY <2>3 DEF f, w
        <4>3. InMap(n, p) = InMap(x, p) + l
          BY <2>4 DEF l
        <4>4. k \in Int /\ b \in Int /\ c \in Int /\ l \in Int
          BY <2>7, PtsType DEF k, b, c, l
        <4>5. f \in Int /\ w \in Int
          BY <2>6, <2>7 DEF f, w
        <4> QED  BY <4>1, <4>2, <4>3, <4>4, <4>5
      <3> QED  BY <2>5, <2>6, <2>7, <3>1, <3>2, <3>3, <3>4, <3>5 DEF k, b, c, d, e, f, inF
    <2> HIDE DEF k, b, c, f, w, d, e, l, inP, inF
    <2>9. InMap(n, p) = k
      BY <2>8
    <2> QED  BY <2>9 DEF k
  <1>13. ASSUME NEW u \in {"SOLO", "PAIR", "TRIO"}
         PROVE  Sublist(Hands(n, u), Hands(m, u)) /\ (DistinctKeys(Hands(m, u)) /\ u # body => DistinctKeys(Hands(n, u)))
    <2>1. u \in HandType /\ u # to /\ Hands(n, u) = Hands(x, u)
      BY <1>9 DEF HandType, KickedTypes
    <2>2. CASE u = body
      BY <1>3, <1>8, <2>1, <2>2, TailIsSublist
    <2>3. CASE u = from
      BY <1>1, <1>8, <1>11, <2>1, <2>3
    <2>4. CASE u # body /\ u # from
      <3>1. Hands(n, u) = Hands(m, u)
        BY <1>8, <2>1, <2>4
      <3> QED  BY <3>1 DEF Sublist
    <2> QED  BY <2>2, <2>3, <2>4
  <1>14. Ready(n)
    <2>1. DistinctKeys(Hands(n, "SOLO")) /\ DistinctKeys(Hands(n, "PAIR"))
      BY <1>13 DEF Ready
    <2>2. Apart(Hands(n, "TRIO"), Hands(n, "SOLO"))
      BY <1>13, ApartSublists DEF Ready
    <2>3. \A p \in Point : InMap(n, p) <= 4
      BY <1>12 DEF Ready
    <2> QED  BY <1>9, <2>1, <2>2, <2>3 DEF Ready
  <1>15. \A u \in HandType \ Kicking : Hands(n, u) = Hands(m, u)
    BY <1>8, <1>9 DEF Kicking
  <1> QED  BY <1>2, <1>9, <1>12, <1>14, <1>15 DEF KickStep
-----------------------------------------------------------------------------
(* Kickers for all trios and trio chains                                   *)

(* Doing nothing keeps it.                                                 *)
LEMMA KickReflexive ==
  ASSUME NEW m, Ready(m)
  PROVE  KickStep(m, m)
  BY DEF KickStep

(* So do two steps.                                                        *)
LEMMA KickTransitive ==
  ASSUME NEW m, NEW n, NEW o, KickStep(m, n), KickStep(n, o)
  PROVE  KickStep(m, o)
  BY DEF KickStep

(* So does a lookup.                                                       *)
LEMMA TouchKicks ==
  ASSUME NEW m, Ready(m), NEW T \in SUBSET HandType
  PROVE  KickStep(m, Touch(m, T)) /\ DOMAIN Touch(m, T) = T \cup DOMAIN m
         /\ \A u \in HandType : Hands(Touch(m, T), u) = Hands(m, u)
  <1> DEFINE n == Touch(m, T)
  <1>1. m \in Maps
    BY DEF Ready
  <1>2. /\ n \in Maps /\ DOMAIN n = T \cup DOMAIN m
        /\ \A u \in HandType : Hands(n, u) = Hands(m, u)
        /\ \A p \in Point : InMap(n, p) = InMap(m, p)
    BY <1>1, TouchFacts
  <1> HIDE DEF n
  <1>3. "SOLO" \in HandType /\ "PAIR" \in HandType /\ "TRIO" \in HandType
    BY DEF HandType
  <1>4. Ready(n)
    BY <1>2, <1>3 DEF Ready
  <1>5. KickStep(m, n)
    BY <1>2, <1>4 DEF KickStep
  <1> QED  BY <1>2, <1>5 DEF n

(* The first n hands of a list.                                            *)
LEMMA FirstOnes ==
  ASSUME NEW S, NEW hs \in Seq(S), NEW n \in Nat, n <= Len(hs)
  PROVE  SubSeq(hs, 1, n) \in Seq(S) /\ Sublist(SubSeq(hs, 1, n), hs)
         /\ \A j \in DOMAIN SubSeq(hs, 1, n) : j \in 1..Len(hs) /\ SubSeq(hs, 1, n)[j] = hs[j]
  <1> DEFINE s == SubSeq(hs, 1, n)
  <1>1. Len(hs) \in Nat /\ DOMAIN hs = 1..Len(hs) /\ \A j \in 1..Len(hs) : hs[j] \in S
    BY ElementOfSeq, LenProperties
  <1>2. \A j \in 1..n : hs[j] \in S
    BY <1>1
  <1>3. s \in Seq(S) /\ Len(s) = n /\ \A j \in 1..n : s[j] = hs[j]
    <2>1. s \in Seq(S) /\ Len(s) = (IF 1 <= n THEN n - 1 + 1 ELSE 0) /\ \A j \in 1..(n - 1 + 1) : s[j] = hs[1 + j - 1]
      BY <1>2, SubSeqProperties
    <2> HIDE DEF s
    <2>2. \A j \in 1..n : j \in 1..(n - 1 + 1) /\ 1 + j - 1 = j
      OBVIOUS
    <2> QED  BY <2>1, <2>2
  <1> HIDE DEF s
  <1>4. DOMAIN s = 1..n
    BY <1>3, LenProperties
  <1>5. \A j \in DOMAIN s : j \in 1..Len(hs) /\ s[j] = hs[j]
    BY <1>1, <1>3, <1>4
  <1>6. Sublist(s, hs)
    BY <1>1, <1>5 DEF Sublist
  <1> QED  BY <1>3, <1>5, <1>6 DEF s

(* No point is both in a pair and in the body of a trio or a trio chain.   *)
LEMMA PairsOutside ==
  ASSUME NEW m, Ready(m), NEW body \in {"TRIO", "TRIO_CHAIN"}, body \in DOMAIN m, m[body] # <<>>,
         NEW j \in 1..Len(Hands(m, "PAIR"))
  PROVE  Hands(m, "PAIR")[j].keyPoint \notin Body(Head(m[body]))
  <1> DEFINE ps == Hands(m, "PAIR")
             bs == Hands(m, body)
             p == ps[j].keyPoint
             h == Head(m[body])
  <1>1. m \in Maps /\ body \in HandType /\ "PAIR" \in HandType /\ body # "PAIR" /\ "PAIR" \in Bare
    BY DEF Ready, HandType, ChainTypes, Bare
  <1>2. /\ ps \in Seq(Shaped("PAIR")) /\ ps \in Lists /\ bs \in Seq(Shaped(body)) /\ bs \in Lists /\ bs = m[body]
    BY <1>1, MapHands
  <1>3. ps[j] \in Shaped("PAIR") /\ p \in Point
    BY <1>2, ShapedAreHands DEF Hand
  <1>4. 1 \in 1..Len(bs) /\ bs[1] = h /\ h \in Shaped(body)
    <2>1. bs # <<>> /\ h = bs[1]
      BY <1>2
    <2> HIDE DEF bs, h
    <2>2. 1 \in 1..Len(bs)
      BY <1>2, <2>1, EmptySeq DEF Lists
    <2> QED  BY <1>2, <2>1, <2>2, ShapedAreHands
  <1>5. SUFFICES ASSUME p \in Body(h)  PROVE FALSE
    OBVIOUS
  <1> HIDE DEF h
  <1>6. Pts(h, p) = 3
    <2>1. h \in Hand /\ h.kicker = <<>> /\ h.type = body
      BY <1>4 DEF Shaped, Bare, BareChains
    <2>2. Pts(h, p) = BodyWidth(h.type)
      BY <1>3, <1>5, <2>1, BarePoints DEF Body
    <2> QED  BY <2>1, <2>2 DEF BodyWidth
  <1>7. Pts(ps[j], p) = 2
    BY <1>1, <1>3, BarePts DEF BodyWidth
  <1> HIDE DEF bs, ps, p
  <1>8. 3 <= InList(bs, p) /\ 2 <= InList(ps, p)
    <2>1. Pts(bs[1], p) <= InList(bs, p)
      BY <1>2, <1>3, <1>4, InListHasHand
    <2>2. Pts(ps[j], p) <= InList(ps, p)
      BY <1>2, <1>3, InListHasHand DEF ps
    <2> QED  BY <1>4, <1>6, <1>7, <2>1, <2>2
  <1>9. InList(bs, p) + InList(ps, p) <= InMap(m, p)
    BY <1>1, <1>3, InMapHasLists DEF bs, ps
  <1>10. InMap(m, p) <= 4 /\ InMap(m, p) \in Nat /\ InList(bs, p) \in Nat /\ InList(ps, p) \in Nat
    BY <1>1, <1>2, <1>3, InMapIsSum, InListIsSum DEF Ready
  <1> QED  BY <1>8, <1>9, <1>10

(* kickTrioChain keeps it: the kickers it takes are of points outside the  *)
(* chain.                                                                  *)
LEMMA KickTrioChain ==
  ASSUME NEW m, Ready(m), "TRIO_CHAIN" \in DOMAIN m
  PROVE  KickStep(m, kickTrioChain(m))
  <1>1. CASE m["TRIO_CHAIN"] = <<>>
    <2>1. kickTrioChain(m) = m
      BY <1>1 DEF kickTrioChain
    <2> QED  BY <2>1, KickReflexive
  <1>2. CASE m["TRIO_CHAIN"] # <<>>
    <2> DEFINE chain == Head(m["TRIO_CHAIN"])
               touched == Touch(m, {"SOLO"})
               solos == touched["SOLO"]
               useful == Without(solos, chain.keyPoint..End(chain))
               jokers == Cardinality({k \in ToSet(solos) : k.keyPoint \in Jokers})
               pairs == Hands(m, "PAIR")
               fewer == IF jokers = 2 THEN 2 ELSE 0
               A == Attach(touched, "TRIO_CHAIN", SubSeq(useful, 1, chain.len), "SOLO", "TRIO_CHAIN_SOLO")
               B == Attach(touched, "TRIO_CHAIN", SubSeq(pairs, 1, chain.len), "PAIR", "TRIO_CHAIN_PAIR")
               C == Touch(touched, {"PAIR"})
    <2>1. kickTrioChain(m) = CASE Len(useful) - fewer >= chain.len -> A
                               [] Len(useful) - fewer < chain.len /\ Len(pairs) >= chain.len -> B
                               [] OTHER -> C
      BY <1>2 DEF kickTrioChain
    <2>2. {"SOLO"} \in SUBSET HandType /\ {"PAIR"} \in SUBSET HandType /\ "TRIO_CHAIN" \in HandType
          /\ "SOLO" \in HandType /\ "PAIR" \in HandType
      BY DEF HandType, ChainTypes
    <2>3. /\ KickStep(m, touched) /\ DOMAIN touched = {"SOLO"} \cup DOMAIN m
          /\ \A u \in HandType : Hands(touched, u) = Hands(m, u)
      BY <2>2, TouchKicks
    <2> HIDE DEF touched
    <2>4. Ready(touched) /\ touched \in Maps /\ m \in Maps
      BY <2>3 DEF KickStep, Ready
    <2>5. /\ touched["TRIO_CHAIN"] = m["TRIO_CHAIN"] /\ solos = Hands(touched, "SOLO")
          /\ "TRIO_CHAIN" \in DOMAIN touched /\ pairs = Hands(touched, "PAIR")
          /\ touched["TRIO_CHAIN"] # <<>>
      BY <1>2, <2>2, <2>3 DEF Hands
    <2>6. solos \in Seq(Shaped("SOLO")) /\ solos \in Lists /\ pairs \in Seq(Shaped("PAIR")) /\ pairs \in Lists
      BY <2>2, <2>4, <2>5, MapHands
    <2>7. chain \in Hand /\ chain.len \in Nat /\ Body(chain) = chain.keyPoint..End(chain)
      <3>1. m["TRIO_CHAIN"] \in Seq(Shaped("TRIO_CHAIN"))
        BY <2>2, <2>4, MapHands
      <3>2. chain \in Shaped("TRIO_CHAIN")
        BY <1>2, <3>1, HeadTailProperties
      <3> QED  BY <3>2 DEF Shaped, Hand, Body
    <2>8. useful \in Lists /\ Sublist(useful, solos) /\ \A i \in 1..Len(useful) : useful[i].keyPoint \notin Body(chain)
      <3> HIDE DEF solos, chain
      <3> DEFINE S == chain.keyPoint..End(chain)
                 w == Without(solos, S)
      <3>0. useful = w
        OBVIOUS
      <3>1. useful \in Seq(Hand) /\ Sublist(useful, solos)
            /\ \A i \in 1..Len(useful) : useful[i].keyPoint \notin S
        <4> HIDE DEF S
        <4>1. solos \in Seq(Hand)
          BY <2>6 DEF Lists
        <4>2. w \in Seq(Hand) /\ Sublist(w, solos) /\ \A i \in 1..Len(w) : w[i].keyPoint \notin S
          BY <4>1, WithoutFacts
        <4> HIDE DEF w, useful
        <4> QED  BY <3>0, <4>2
      <3> HIDE DEF useful
      <3> QED  BY <2>7, <3>1 DEF Lists
    <2>9. fewer \in Nat /\ Len(useful) \in Nat /\ Len(pairs) \in Nat
      <3> HIDE DEF useful, pairs, jokers
      <3> QED  BY <2>6, <2>8, LenProperties DEF Lists
    <2> HIDE DEF chain, useful, pairs, fewer, solos
    <2>10. ASSUME Len(useful) - fewer >= chain.len  PROVE KickStep(touched, A)
      <3> DEFINE ks == SubSeq(useful, 1, chain.len)
      <3>1. chain.len <= Len(useful)
        BY <2>7, <2>9, <2>10
      <3>2. ks \in Lists /\ Sublist(ks, useful)
            /\ \A j \in DOMAIN ks : j \in 1..Len(useful) /\ ks[j] = useful[j]
        BY <2>7, <2>8, <3>1, FirstOnes DEF Lists
      <3> HIDE DEF ks
      <3>3. Sublist(ks, Hands(touched, "SOLO"))
        BY <2>5, <2>8, <3>2 DEF Sublist
      <3>4. \A j \in DOMAIN ks : ks[j].keyPoint \notin Body(Head(touched["TRIO_CHAIN"]))
        BY <2>5, <2>8, <3>2 DEF chain
      <3>5. "TRIO_CHAIN_SOLO" \in KickedTypes /\ KickerWidth("TRIO_CHAIN_SOLO") = BodyWidth("SOLO")
        BY DEF KickedTypes, KickerWidth, BodyWidth
      <3> QED  BY <2>4, <2>5, <3>2, <3>3, <3>4, <3>5, AttachKeeps DEF ks
    <2>11. ASSUME Len(pairs) >= chain.len  PROVE KickStep(touched, B)
      <3> DEFINE ks == SubSeq(pairs, 1, chain.len)
      <3>1. ks \in Lists /\ Sublist(ks, pairs)
            /\ \A j \in DOMAIN ks : j \in 1..Len(pairs) /\ ks[j] = pairs[j]
        BY <2>6, <2>7, <2>9, <2>11, FirstOnes DEF Lists
      <3> HIDE DEF ks
      <3>2. Sublist(ks, Hands(touched, "PAIR"))
        BY <2>5, <3>1
      <3>3. \A j \in DOMAIN ks : ks[j].keyPoint \notin Body(Head(touched["TRIO_CHAIN"]))
        BY <2>4, <2>5, <3>1, PairsOutside
      <3>4. "TRIO_CHAIN_PAIR" \in KickedTypes /\ KickerWidth("TRIO_CHAIN_PAIR") = BodyWidth("PAIR")
        BY DEF KickedTypes, KickerWidth, BodyWidth
      <3> QED  BY <2>4, <2>5, <3>1, <3>2, <3>3, <3>4, AttachKeeps DEF ks
    <2>12. KickStep(touched, C)
      BY <2>2, <2>4, TouchKicks
    <2> HIDE DEF A, B, C
    <2>13. KickStep(touched, kickTrioChain(m))
      BY <2>1, <2>10, <2>11, <2>12
    <2> QED  BY <2>3, <2>13, KickTransitive
  <1> QED  BY <1>1, <1>2

(* The first hand of a list, as a list.                                    *)
LEMMA FirstOfList ==
  ASSUME NEW hs \in Lists, hs # <<>>
  PROVE  /\ <<Head(hs)>> \in Lists /\ Sublist(<<Head(hs)>>, hs) /\ Head(hs) = hs[1] /\ 1 \in 1..Len(hs)
         /\ \A j \in DOMAIN <<Head(hs)>> : <<Head(hs)>>[j] = hs[1]
  <1>1. Len(hs) \in Nat /\ 1 \in 1..Len(hs) /\ Head(hs) = hs[1] /\ DOMAIN hs = 1..Len(hs) /\ hs[1] \in Hand
    BY EmptySeq DEF Lists
  <1> DEFINE one == <<Head(hs)>>
  <1>2. one \in Lists /\ DOMAIN one = 1..1 /\ one[1] = hs[1]
    BY <1>1 DEF Lists
  <1> HIDE DEF one
  <1>3. \A j \in DOMAIN one : one[j] = hs[1]
    BY <1>2
  <1>4. Sublist(one, hs)
    BY <1>1, <1>3 DEF Sublist
  <1> QED  BY <1>1, <1>2, <1>3, <1>4 DEF one

(* kickTrio keeps it: a trio's solo is not of its point, and neither is a  *)
(* pair.                                                                   *)
LEMMA KickTrio ==
  ASSUME NEW m, Ready(m), "TRIO" \in DOMAIN m
  PROVE  KickStep(m, kickTrio(m))
  <1>1. CASE m["TRIO"] = <<>>
    <2>1. kickTrio(m) = m
      BY <1>1 DEF kickTrio
    <2> QED  BY <2>1, KickReflexive
  <1>2. CASE m["TRIO"] # <<>>
    <2> DEFINE touched == Touch(m, {"SOLO", "PAIR"})
               solos == touched["SOLO"]
               pairs == touched["PAIR"]
               paired == solos # <<>> => pairs # <<>> /\ Head(pairs).keyPoint < Head(solos).keyPoint
               A == Attach(touched, "TRIO", <<Head(solos)>>, "SOLO", "TRIO_SOLO")
               B == Attach(touched, "TRIO", <<Head(pairs)>>, "PAIR", "TRIO_PAIR")
    <2>1. kickTrio(m) = CASE solos = <<>> /\ pairs = <<>> -> touched
                          [] solos # <<>> /\ ~paired -> A
                          [] OTHER -> B
      BY <1>2 DEF kickTrio
    <2>2. {"SOLO", "PAIR"} \in SUBSET HandType /\ "TRIO" \in HandType
          /\ "SOLO" \in HandType /\ "PAIR" \in HandType
      BY DEF HandType
    <2>3. /\ KickStep(m, touched) /\ DOMAIN touched = {"SOLO", "PAIR"} \cup DOMAIN m
          /\ \A u \in HandType : Hands(touched, u) = Hands(m, u)
      BY <2>2, TouchKicks
    <2> HIDE DEF touched
    <2>4. Ready(touched) /\ touched \in Maps /\ m \in Maps
      BY <2>3 DEF KickStep, Ready
    <2>5. /\ touched["TRIO"] = m["TRIO"] /\ solos = Hands(touched, "SOLO")
          /\ "TRIO" \in DOMAIN touched /\ pairs = Hands(touched, "PAIR")
          /\ touched["TRIO"] # <<>> /\ touched["TRIO"] = Hands(touched, "TRIO")
      BY <1>2, <2>2, <2>3 DEF Hands
    <2>6. solos \in Lists /\ pairs \in Lists /\ touched["TRIO"] \in Lists /\ touched["TRIO"] \in Seq(Shaped("TRIO"))
      BY <2>2, <2>4, <2>5, MapHands
    <2> HIDE DEF pairs, solos
    <2>7. ASSUME solos # <<>>  PROVE KickStep(touched, A)
      <3> DEFINE ks == <<Head(solos)>>
                 bs == touched["TRIO"]
                 h == Head(bs)
      <3>1. /\ ks \in Lists /\ Sublist(ks, solos) /\ 1 \in 1..Len(solos)
            /\ \A j \in DOMAIN ks : ks[j] = solos[1]
        BY <2>6, <2>7, FirstOfList
      <3> HIDE DEF ks
      <3>2. h = bs[1] /\ 1 \in 1..Len(bs) /\ h \in Shaped("TRIO")
        BY <2>5, <2>6, FirstOfList, HeadTailProperties
      <3>3. h.keyPoint \in Nat /\ h.len = 1
        BY <3>2, PointFacts DEF Shaped, Bare, Hand
      <3>4. solos[1].keyPoint # h.keyPoint
        <4>1. 1 \in DOMAIN bs /\ 1 \in DOMAIN solos
          BY <2>6, <3>1, <3>2, LenProperties DEF Lists
        <4>2. Apart(bs, solos)
          BY <2>4, <2>5 DEF Ready
        <4> HIDE DEF bs, h
        <4> QED  BY <3>2, <4>1, <4>2 DEF Apart
      <3>5. solos[1].keyPoint \notin Body(h)
        <4> HIDE DEF h
        <4> QED  BY <3>3, <3>4 DEF Body, End
      <3>6. \A j \in DOMAIN ks : ks[j].keyPoint \notin Body(Head(touched["TRIO"]))
        BY <3>1, <3>5
      <3>7. "TRIO_SOLO" \in KickedTypes /\ KickerWidth("TRIO_SOLO") = BodyWidth("SOLO")
        BY DEF KickedTypes, KickerWidth, BodyWidth
      <3>8. Sublist(ks, Hands(touched, "SOLO"))
        BY <2>5, <3>1
      <3> QED  BY <2>4, <2>5, <3>1, <3>6, <3>7, <3>8, AttachKeeps DEF ks
    <2>8. ASSUME pairs # <<>>  PROVE KickStep(touched, B)
      <3> DEFINE ks == <<Head(pairs)>>
      <3>1. /\ ks \in Lists /\ Sublist(ks, pairs) /\ 1 \in 1..Len(pairs)
            /\ \A j \in DOMAIN ks : ks[j] = pairs[1]
        BY <2>6, <2>8, FirstOfList
      <3> HIDE DEF ks
      <3>2. \A j \in DOMAIN ks : ks[j].keyPoint \notin Body(Head(touched["TRIO"]))
        BY <2>4, <2>5, <3>1, PairsOutside
      <3>3. "TRIO_PAIR" \in KickedTypes /\ KickerWidth("TRIO_PAIR") = BodyWidth("PAIR")
        BY DEF KickedTypes, KickerWidth, BodyWidth
      <3>4. Sublist(ks, Hands(touched, "PAIR"))
        BY <2>5, <3>1
      <3> QED  BY <2>4, <2>5, <3>1, <3>2, <3>3, <3>4, AttachKeeps DEF ks
    <2> HIDE DEF A, B
    <2>9. KickStep(touched, touched)
      BY <2>4, KickReflexive
    <2>10. (solos = <<>> /\ pairs = <<>>) \/ (solos # <<>> /\ ~paired) \/ pairs # <<>>
      OBVIOUS
    <2>11. KickStep(touched, kickTrio(m))
      <3>1. CASE solos = <<>> /\ pairs = <<>>
        BY <2>1, <2>9, <3>1
      <3>2. CASE solos # <<>> /\ ~paired
        <4> HIDE DEF paired
        <4> QED  BY <2>1, <2>7, <3>2
      <3>3. CASE ~(solos = <<>> /\ pairs = <<>>) /\ ~(solos # <<>> /\ ~paired)
        <4>1. pairs # <<>>
          BY <3>3
        <4>2. kickTrio(m) = B
          <5> HIDE DEF paired
          <5> QED  BY <2>1, <3>3
        <4> QED  BY <2>8, <4>1, <4>2
      <3> QED  BY <3>1, <3>2, <3>3
    <2> QED  BY <2>3, <2>11, KickTransitive
  <1> QED  BY <1>1, <1>2

(* The maps reached from m by such steps.                                  *)
Kickable(m) == {n \in Maps : KickStep(m, n)}

(* The loop over the trio chains stays there.                              *)
LEMMA KickTrioChains ==
  ASSUME NEW m, Ready(m), "TRIO" \in DOMAIN m, "TRIO_CHAIN" \in DOMAIN m, NEW seq \in Lists
  PROVE  KickStep(m, FoldLeft(LAMBDA x, y : kickTrioChain(x), m, seq))
  <1> DEFINE n == Len(seq)
             S == 1..n
             A == Kickable(m)
             F == [z \in A \X S |-> kickTrioChain(z[1])]
             Def(g) == g = [T \in SUBSET DOMAIN seq |-> IF T = {} THEN m ELSE kickTrioChain(g[T \ {Max(T)}])]
             h == CHOOSE g : Def(g)
  <1>1. n \in Nat /\ DOMAIN seq = S
    BY LenProperties DEF Lists
  <1>2. m \in A
    BY KickReflexive DEF Kickable, Ready
  <1>3. ASSUME NEW t \in A
        PROVE  kickTrioChain(t) \in A
    <2>1. KickStep(m, t) /\ Ready(t) /\ "TRIO" \in DOMAIN t /\ "TRIO_CHAIN" \in DOMAIN t
      BY DEF Kickable, KickStep
    <2>2. KickStep(t, kickTrioChain(t))
      BY <2>1, KickTrioChain
    <2>3. KickStep(m, kickTrioChain(t))
      BY <2>1, <2>2, KickTransitive
    <2> QED  BY <2>3 DEF Kickable, KickStep, Ready
  <1> HIDE DEF A
  <1>4. Steps(F, 1..n, A)
    <2>1. \A z \in A \X S : F[z] = kickTrioChain(z[1])
      OBVIOUS
    <2>2. \A a \in A, j \in S : F[<<a, j>>] = kickTrioChain(a)
      BY <2>1
    <2> HIDE DEF F
    <2> QED  BY <1>3, <2>2 DEF Steps
  <1>5. PICK g \in [SUBSET S -> A] : \A T \in SUBSET S :
           g[T] = IF T = {} THEN m ELSE F[<<g[T \ {Max(T)}], Max(T)>>]
    <2> HIDE DEF F, n
    <2>1. n \in Nat /\ m \in A /\ Steps(F, 1..n, A)
      BY <1>1, <1>2, <1>4
    <2>2. \E g \in [SUBSET (1..n) -> A] : IsLoop(g, F, m, n)
      BY <2>1, LoopExists
    <2> QED  BY <2>2 DEF IsLoop
  <1>6. Def(g)
    <2>1. \A T \in SUBSET S : T # {} => Max(T) \in S /\ g[T \ {Max(T)}] \in A
      <3> HIDE DEF n
      <3> QED  BY <1>1, <1>5, LastOfSome
    <2>2. \A T \in SUBSET S : T # {} => F[<<g[T \ {Max(T)}], Max(T)>>] = kickTrioChain(g[T \ {Max(T)}])
      <3> HIDE DEF S
      <3> QED  BY <2>1
    <2>3. \A T \in SUBSET S : g[T] = IF T = {} THEN m ELSE kickTrioChain(g[T \ {Max(T)}])
      <3> HIDE DEF F, S
      <3> QED  BY <1>5, <2>2
    <2> HIDE DEF F, S
    <2> QED  BY <1>1, <1>5, <2>3
  <1>7. Def(h)
    <2> HIDE DEF Def
    <2> QED  BY <1>6
  <1>8. h[1..n] \in A
    <2>1. \A T \in SUBSET S : h[T] = IF T = {} THEN m ELSE kickTrioChain(h[T \ {Max(T)}])
      <3> HIDE DEF h, S
      <3> QED  BY <1>1, <1>7
    <2> HIDE DEF h, Def
    <2>2. h[{}] \in A
      BY <2>1, <1>2
    <2>3. \A T \in SUBSET S : (T # {} /\ h[T \ {Max(T)}] \in A) => h[T] \in A
      <3> HIDE DEF S
      <3> QED  BY <2>1, <1>3
    <2> HIDE DEF n
    <2> QED  BY <1>1, <2>2, <2>3, LoopStays
  <1>9. FoldLeft(LAMBDA x, y : kickTrioChain(x), m, seq) = h[1..n]
    BY <1>1 DEF FoldLeft, MapThenFoldSet
  <1> QED  BY <1>8, <1>9 DEF A, Kickable

(* So does the loop over the trios.                                        *)
LEMMA KickTrios ==
  ASSUME NEW m, Ready(m), "TRIO" \in DOMAIN m, "TRIO_CHAIN" \in DOMAIN m, NEW seq \in Lists
  PROVE  KickStep(m, FoldLeft(LAMBDA x, y : kickTrio(x), m, seq))
  <1> DEFINE n == Len(seq)
             S == 1..n
             A == Kickable(m)
             F == [z \in A \X S |-> kickTrio(z[1])]
             Def(g) == g = [T \in SUBSET DOMAIN seq |-> IF T = {} THEN m ELSE kickTrio(g[T \ {Max(T)}])]
             h == CHOOSE g : Def(g)
  <1>1. n \in Nat /\ DOMAIN seq = S
    BY LenProperties DEF Lists
  <1>2. m \in A
    BY KickReflexive DEF Kickable, Ready
  <1>3. ASSUME NEW t \in A
        PROVE  kickTrio(t) \in A
    <2>1. KickStep(m, t) /\ Ready(t) /\ "TRIO" \in DOMAIN t /\ "TRIO_CHAIN" \in DOMAIN t
      BY DEF Kickable, KickStep
    <2>2. KickStep(t, kickTrio(t))
      BY <2>1, KickTrio
    <2>3. KickStep(m, kickTrio(t))
      BY <2>1, <2>2, KickTransitive
    <2> QED  BY <2>3 DEF Kickable, KickStep, Ready
  <1> HIDE DEF A
  <1>4. Steps(F, 1..n, A)
    <2>1. \A z \in A \X S : F[z] = kickTrio(z[1])
      OBVIOUS
    <2>2. \A a \in A, j \in S : F[<<a, j>>] = kickTrio(a)
      BY <2>1
    <2> HIDE DEF F
    <2> QED  BY <1>3, <2>2 DEF Steps
  <1>5. PICK g \in [SUBSET S -> A] : \A T \in SUBSET S :
           g[T] = IF T = {} THEN m ELSE F[<<g[T \ {Max(T)}], Max(T)>>]
    <2> HIDE DEF F, n
    <2>1. n \in Nat /\ m \in A /\ Steps(F, 1..n, A)
      BY <1>1, <1>2, <1>4
    <2>2. \E g \in [SUBSET (1..n) -> A] : IsLoop(g, F, m, n)
      BY <2>1, LoopExists
    <2> QED  BY <2>2 DEF IsLoop
  <1>6. Def(g)
    <2>1. \A T \in SUBSET S : T # {} => Max(T) \in S /\ g[T \ {Max(T)}] \in A
      <3> HIDE DEF n
      <3> QED  BY <1>1, <1>5, LastOfSome
    <2>2. \A T \in SUBSET S : T # {} => F[<<g[T \ {Max(T)}], Max(T)>>] = kickTrio(g[T \ {Max(T)}])
      <3> HIDE DEF S
      <3> QED  BY <2>1
    <2>3. \A T \in SUBSET S : g[T] = IF T = {} THEN m ELSE kickTrio(g[T \ {Max(T)}])
      <3> HIDE DEF F, S
      <3> QED  BY <1>5, <2>2
    <2> HIDE DEF F, S
    <2> QED  BY <1>1, <1>5, <2>3
  <1>7. Def(h)
    <2> HIDE DEF Def
    <2> QED  BY <1>6
  <1>8. h[1..n] \in A
    <2>1. \A T \in SUBSET S : h[T] = IF T = {} THEN m ELSE kickTrio(h[T \ {Max(T)}])
      <3> HIDE DEF h, S
      <3> QED  BY <1>1, <1>7
    <2> HIDE DEF h, Def
    <2>2. h[{}] \in A
      BY <2>1, <1>2
    <2>3. \A T \in SUBSET S : (T # {} /\ h[T \ {Max(T)}] \in A) => h[T] \in A
      <3> HIDE DEF S
      <3> QED  BY <2>1, <1>3
    <2> HIDE DEF n
    <2> QED  BY <1>1, <2>2, <2>3, LoopStays
  <1>9. FoldLeft(LAMBDA x, y : kickTrio(x), m, seq) = h[1..n]
    BY <1>1 DEF FoldLeft, MapThenFoldSet
  <1> QED  BY <1>8, <1>9 DEF A, Kickable

(* findKickerForTrioOrTrioChain keeps the cards, and what it needs.        *)
LEMMA FindKickerKeeps ==
  ASSUME NEW s \in Splits, Ready(s.handMap)
  PROVE  LET t == findKickerForTrioOrTrioChain(s)
         IN  t \in Splits /\ t.cards = s.cards /\ KickStep(s.handMap, t.handMap)
  <1> DEFINE m == s.handMap
             start == Touch(m, {"TRIO_CHAIN", "TRIO"})
             chained == FoldLeft(LAMBDA x, chain : kickTrioChain(x), start, start["TRIO_CHAIN"])
             n == FoldLeft(LAMBDA x, trio : kickTrio(x), chained, chained["TRIO"])
             t == findKickerForTrioOrTrioChain(s)
  <1>1. t = InWork(s.cards, n)
    BY DEF findKickerForTrioOrTrioChain
  <1>2. {"TRIO_CHAIN", "TRIO"} \in SUBSET HandType /\ "TRIO" \in HandType /\ "TRIO_CHAIN" \in HandType
    BY DEF HandType, ChainTypes
  <1>3. KickStep(m, start) /\ DOMAIN start = {"TRIO_CHAIN", "TRIO"} \cup DOMAIN m
    BY <1>2, TouchKicks
  <1> HIDE DEF start
  <1>4. Ready(start) /\ start \in Maps /\ "TRIO" \in DOMAIN start /\ "TRIO_CHAIN" \in DOMAIN start
    BY <1>3 DEF KickStep, Ready
  <1>5. KickStep(start, chained)
    <2>1. start["TRIO_CHAIN"] \in Lists
      BY <1>2, <1>4, MapHands
    <2> QED  BY <1>4, <2>1, KickTrioChains
  <1> HIDE DEF chained
  <1>6. Ready(chained) /\ chained \in Maps /\ "TRIO" \in DOMAIN chained /\ "TRIO_CHAIN" \in DOMAIN chained
    BY <1>4, <1>5 DEF KickStep, Ready
  <1>7. KickStep(chained, n)
    <2>1. chained["TRIO"] \in Lists
      BY <1>2, <1>6, MapHands
    <2> QED  BY <1>6, <2>1, KickTrios
  <1> HIDE DEF n, t, m
  <1>8. KickStep(m, n)
    BY <1>3, <1>5, <1>7, KickTransitive
  <1>9. t \in Splits /\ t.cards = s.cards /\ t.handMap = n
    BY <1>1, <1>8 DEF InWork, Splits, KickStep, Ready
  <1> QED  BY <1>8, <1>9 DEF t, m
-----------------------------------------------------------------------------
(* The order of the routines                                               *)

(* The routines still to run: each once, findKicker last, only findKicker  *)
(* after getNormalHand, getSoloChain some time after getTrio, and          *)
(* getNormalHand after every other.                                        *)
Names == {"getSoloChain", "getBomb", "getTrio", "getTrioChain", "getPairChain", "getNormalHand", "findKicker"}
Order(q) ==
  /\ q \in Seq(Names)
  /\ \A i, j \in 1..Len(q) : q[i] = q[j] => i = j
  /\ \A i \in 1..Len(q) : q[i] = "findKicker" => i = Len(q)
  /\ \A i, j \in 1..Len(q) : q[i] = "getNormalHand" /\ i < j => q[j] = "findKicker"
  /\ \A i \in 1..Len(q) : q[i] = "getTrio" => \E j \in 1..Len(q) : i < j /\ q[j] = "getSoloChain"
  /\ \A i \in 1..Len(q) : q[i] \notin {"getNormalHand", "findKicker"} =>
       \E j \in 1..Len(q) : i < j /\ q[j] = "getNormalHand"

(* Running the first routine leaves such a list, and says what is still to *)
(* run.                                                                    *)
LEMMA OrderStep ==
  ASSUME NEW q, Order(q), q # <<>>
  PROVE  /\ Order(Tail(q)) /\ Head(q) \in Names
         /\ ToSet(Tail(q)) \subseteq ToSet(q) /\ Head(q) \in ToSet(q) /\ Head(q) \notin ToSet(Tail(q))
         /\ Head(q) \notin {"getNormalHand", "findKicker"} => "getNormalHand" \in ToSet(Tail(q))
         /\ Head(q) = "getNormalHand" => ToSet(Tail(q)) \subseteq {"findKicker"}
         /\ Head(q) = "findKicker" => ToSet(Tail(q)) = {} /\ "getNormalHand" \notin ToSet(q)
         /\ Head(q) = "getTrio" => "getSoloChain" \in ToSet(Tail(q))
  <1> DEFINE t == Tail(q)
             n == Len(q)
             m == Len(t)
  <1>1. q \in Seq(Names)
    BY DEF Order
  <1>2. /\ n \in Nat /\ n >= 1 /\ DOMAIN q = 1..n /\ Head(q) = q[1] /\ q[1] \in Names
    BY <1>1, EmptySeq, ElementOfSeq, LenProperties
  <1>3. t \in Seq(Names) /\ m = n - 1 /\ DOMAIN t = 1..m /\ \A i \in 1..m : t[i] = q[i + 1]
    BY <1>1, HeadTailProperties, LenProperties
  <1>4. /\ \A i \in 1..m : i + 1 \in 1..n /\ 1 < i + 1
        /\ \A j \in 1..n : 1 < j => j - 1 \in 1..m /\ t[j - 1] = q[j]
    <2>1. \A i \in 1..m : i + 1 \in 1..n /\ 1 < i + 1
      BY <1>2, <1>3
    <2>2. \A j \in 1..n : 1 < j => j - 1 \in 1..m /\ (j - 1) + 1 = j
      BY <1>2, <1>3
    <2> HIDE DEF t, n, m
    <2> QED  BY <1>3, <2>1, <2>2
  <1>5. /\ \A i, j \in 1..n : q[i] = q[j] => i = j
        /\ \A i \in 1..n : q[i] = "findKicker" => i = n
        /\ \A i, j \in 1..n : q[i] = "getNormalHand" /\ i < j => q[j] = "findKicker"
        /\ \A i \in 1..n : q[i] = "getTrio" => \E j \in 1..n : i < j /\ q[j] = "getSoloChain"
        /\ \A i \in 1..n : q[i] \notin {"getNormalHand", "findKicker"} =>
             \E j \in 1..n : i < j /\ q[j] = "getNormalHand"
    BY DEF Order
  <1> HIDE DEF t, n, m
  <1>6. /\ \A i, j \in 1..m : t[i] = t[j] => i = j
        /\ \A i \in 1..m : t[i] = "findKicker" => i = m
        /\ \A i, j \in 1..m : t[i] = "getNormalHand" /\ i < j => t[j] = "findKicker"
    <2>1. ASSUME NEW i \in 1..m, NEW j \in 1..m, t[i] = t[j]  PROVE i = j
      <3>1. i + 1 = j + 1
        BY <1>3, <1>4, <1>5, <2>1
      <3> QED  BY <3>1
    <2>2. ASSUME NEW i \in 1..m, t[i] = "findKicker"  PROVE i = m
      <3>1. i + 1 = n
        BY <1>3, <1>4, <1>5, <2>2
      <3> QED  BY <1>2, <1>3, <3>1
    <2>3. ASSUME NEW i \in 1..m, NEW j \in 1..m, t[i] = "getNormalHand", i < j  PROVE t[j] = "findKicker"
      <3>1. i + 1 < j + 1
        BY <2>3
      <3> QED  BY <1>3, <1>4, <1>5, <2>3, <3>1
    <2> QED  BY <2>1, <2>2, <2>3
  <1>7. ASSUME NEW i \in 1..m, NEW a, NEW j \in 1..n, i + 1 < j, q[j] = a
        PROVE  \E k \in 1..m : i < k /\ t[k] = a
    <2>1. 1 < j /\ i < j - 1
      BY <1>7, <1>2
    <2>2. j - 1 \in 1..m /\ t[j - 1] = a
      BY <1>4, <1>7, <2>1
    <2> QED  BY <2>1, <2>2
  <1>8. ASSUME NEW i \in 1..m, t[i] = "getTrio"
        PROVE  \E k \in 1..m : i < k /\ t[k] = "getSoloChain"
    <2>1. i + 1 \in 1..n /\ q[i + 1] = "getTrio"
      BY <1>3, <1>4, <1>8
    <2>2. PICK j \in 1..n : i + 1 < j /\ q[j] = "getSoloChain"
      BY <1>5, <2>1
    <2> QED  BY <1>7, <2>2
  <1>9. ASSUME NEW i \in 1..m, t[i] \notin {"getNormalHand", "findKicker"}
        PROVE  \E k \in 1..m : i < k /\ t[k] = "getNormalHand"
    <2>1. i + 1 \in 1..n /\ q[i + 1] \notin {"getNormalHand", "findKicker"}
      BY <1>3, <1>4, <1>9
    <2>2. PICK j \in 1..n : i + 1 < j /\ q[j] = "getNormalHand"
      BY <1>5, <2>1
    <2> QED  BY <1>7, <2>2
  <1>10. Order(t)
    BY <1>3, <1>6, <1>8, <1>9 DEF Order, m
  <1>11. ToSet(t) = {t[i] : i \in 1..m} /\ ToSet(q) = {q[i] : i \in 1..n}
    BY <1>2, <1>3 DEF ToSet
  <1>12. 1 \in 1..n
    BY <1>2
  <1>13. ToSet(t) \subseteq ToSet(q) /\ q[1] \in ToSet(q)
    BY <1>3, <1>4, <1>11, <1>12
  <1>14. q[1] \notin ToSet(t)
    <2> SUFFICES ASSUME NEW i \in 1..m, t[i] = q[1]  PROVE FALSE
      BY <1>11
    <2>1. i + 1 = 1
      BY <1>3, <1>4, <1>5, <1>12
    <2> QED  BY <1>4, <2>1
  <1>15. \A a : (\E j \in 1..n : 1 < j /\ q[j] = a) => a \in ToSet(t)
    BY <1>4, <1>11
  <1>16. q[1] \notin {"getNormalHand", "findKicker"} => "getNormalHand" \in ToSet(t)
    BY <1>5, <1>12, <1>15
  <1>17. q[1] = "getTrio" => "getSoloChain" \in ToSet(t)
    BY <1>5, <1>12, <1>15
  <1>18. q[1] = "getNormalHand" => ToSet(t) \subseteq {"findKicker"}
    BY <1>3, <1>4, <1>5, <1>11, <1>12
  <1>19. ASSUME q[1] = "findKicker"  PROVE ToSet(t) = {} /\ "getNormalHand" \notin ToSet(q)
    <2>1. n = 1 /\ m = 0
      BY <1>2, <1>3, <1>5, <1>12, <1>19
    <2>2. \A i \in 1..n : q[i] = "findKicker"
      BY <2>1, <1>19
    <2> QED  BY <1>11, <2>1, <2>2
  <1> QED  BY <1>2, <1>10, <1>13, <1>14, <1>16, <1>17, <1>18, <1>19 DEF t

(* The routines of a split before findKicker.                              *)
Base(r) ==
  /\ r \in Seq(Names \ {"findKicker"})
  /\ \A i, j \in 1..Len(r) : r[i] = r[j] => i = j
  /\ Len(r) >= 1
  /\ \A i \in 1..Len(r) : r[i] = "getNormalHand" <=> i = Len(r)
  /\ \A i \in 1..Len(r) : r[i] = "getTrio" => \E j \in 1..Len(r) : i < j /\ r[j] = "getSoloChain"

(* So are the routines of every split.                                     *)
LEMMA RoutinesAreBase ==
  ASSUME NEW k \in 1..5
  PROVE  Base(Routines[k])
  <1>1. k = 1 \/ k = 2 \/ k = 3 \/ k = 4 \/ k = 5
    OBVIOUS
  <1>2. Base(<<"getSoloChain", "getBomb", "getTrioChain", "getPairChain", "getNormalHand">>)
    BY DEF Base, Names
  <1>3. Base(<<"getBomb", "getTrioChain", "getSoloChain", "getPairChain", "getNormalHand">>)
    BY DEF Base, Names
  <1>4. Base(<<"getSoloChain", "getBomb", "getPairChain", "getTrioChain", "getNormalHand">>)
    BY DEF Base, Names
  <1>5. Base(<<"getSoloChain", "getBomb", "getNormalHand">>)
    BY DEF Base, Names
  <1>6. Base(<<"getBomb", "getTrio", "getSoloChain", "getNormalHand">>)
    BY DEF Base, Names
  <1> QED  BY <1>1, <1>2, <1>3, <1>4, <1>5, <1>6 DEF Routines

(* With or without findKicker they are in order.                           *)
LEMMA BaseIsOrdered ==
  ASSUME NEW r, Base(r), NEW b, b = <<>> \/ b = <<"findKicker">>
  PROVE  Order(r \o b) /\ "getNormalHand" \in ToSet(r \o b)
         /\ \A x : x # "findKicker" /\ x \in ToSet(r \o b) => x \in ToSet(r)
  <1> DEFINE n == Len(r)
             q == r \o b
             l == Len(b)
  <1>1. r \in Seq(Names) /\ n \in Nat /\ n >= 1 /\ DOMAIN r = 1..n
    <2>1. r \in Seq(Names)
      BY SeqMonotonic DEF Base
    <2> QED  BY <2>1, LenProperties DEF Base
  <1>2. b \in Seq(Names) /\ (l = 0 \/ l = 1) /\ \A i \in 1..l : i = 1 /\ b[i] = "findKicker"
    <2>1. CASE b = <<>>
      <3>1. l = 0 /\ b \in Seq(Names)
        BY <2>1, EmptySeq
      <3> HIDE DEF l
      <3> QED  BY <3>1
    <2>2. CASE b = <<"findKicker">>
      <3>1. l = 1 /\ b \in Seq(Names) /\ b[1] = "findKicker"
        BY <2>2 DEF Names
      <3> HIDE DEF l
      <3> QED  BY <3>1
    <2> QED  BY <2>1, <2>2
  <1>3. /\ q \in Seq(Names) /\ Len(q) = n + l /\ DOMAIN q = 1..(n + l)
        /\ \A i \in 1..n : i \in 1..(n + l) /\ q[i] = r[i]
        /\ \A i \in 1..(n + l) : i \in 1..n \/ (i = n + 1 /\ l = 1 /\ q[i] = "findKicker")
    <2>1. q \in Seq(Names) /\ Len(q) = n + l
          /\ \A i \in 1..(n + l) : q[i] = IF i <= n THEN r[i] ELSE b[i - n]
      BY <1>1, <1>2, ConcatProperties
    <2> HIDE DEF q
    <2>2. DOMAIN q = 1..(n + l)
      BY <2>1, LenProperties
    <2> HIDE DEF n, l
    <2>3. \A i \in 1..n : i \in 1..(n + l) /\ q[i] = r[i]
      BY <1>1, <1>2, <2>1
    <2>4. \A i \in 1..(n + l) : i \in 1..n \/ (i = n + 1 /\ l = 1 /\ i - n = 1 /\ i - n \in 1..l /\ ~(i <= n))
      BY <1>1, <1>2
    <2> QED  BY <1>2, <2>1, <2>2, <2>3, <2>4
  <1>4. /\ \A i \in 1..n : r[i] # "findKicker"
        /\ \A i, j \in 1..n : r[i] = r[j] => i = j
        /\ \A i \in 1..n : r[i] = "getNormalHand" <=> i = n
        /\ \A i \in 1..n : r[i] = "getTrio" => \E j \in 1..n : i < j /\ r[j] = "getSoloChain"
    BY ElementOfSeq DEF Base
  <1> HIDE DEF n, q, l
  <1>5. n \in 1..n /\ q[n] = "getNormalHand" /\ n \in 1..(n + l)
    BY <1>1, <1>3, <1>4
  <1>6. ASSUME NEW i \in 1..(n + l), NEW j \in 1..(n + l), q[i] = q[j]
        PROVE  i = j
    BY <1>3, <1>4, <1>6
  <1>7. ASSUME NEW i \in 1..(n + l), q[i] = "findKicker"
        PROVE  i = n + l
    BY <1>1, <1>3, <1>4, <1>7
  <1>8. ASSUME NEW i \in 1..(n + l), NEW j \in 1..(n + l), q[i] = "getNormalHand", i < j
        PROVE  q[j] = "findKicker"
    <2>1. i = n
      BY <1>3, <1>4, <1>8
    <2>2. j \notin 1..n
      BY <1>1, <1>8, <2>1
    <2> QED  BY <1>3, <2>2
  <1>9. ASSUME NEW i \in 1..(n + l), q[i] = "getTrio"
        PROVE  \E j \in 1..(n + l) : i < j /\ q[j] = "getSoloChain"
    <2>1. i \in 1..n /\ r[i] = "getTrio"
      BY <1>3, <1>9
    <2>2. PICK j \in 1..n : i < j /\ r[j] = "getSoloChain"
      BY <1>4, <2>1
    <2> QED  BY <1>3, <2>2
  <1>10. ASSUME NEW i \in 1..(n + l), q[i] \notin {"getNormalHand", "findKicker"}
         PROVE  \E j \in 1..(n + l) : i < j /\ q[j] = "getNormalHand"
    <2>1. i \in 1..n /\ i # n
      BY <1>3, <1>4, <1>10
    <2>2. i < n
      BY <1>1, <2>1
    <2> QED  BY <1>5, <2>2
  <1>11. Order(q)
    BY <1>3, <1>6, <1>7, <1>8, <1>9, <1>10 DEF Order
  <1>12. "getNormalHand" \in ToSet(q)
    BY <1>3, <1>5 DEF ToSet
  <1>13. \A x : x # "findKicker" /\ x \in ToSet(q) => x \in ToSet(r)
    BY <1>1, <1>3 DEF ToSet
  <1> QED  BY <1>11, <1>12, <1>13 DEF q
-----------------------------------------------------------------------------
(* The inductive invariant                                                 *)

(* The parts of the invariant, for cards d dealt, split k, routines q      *)
(* still to run and split s in work. Deal: at most four of a point, one of *)
(* a joker. Accounted: the cards of a point are kept, but for two behind a *)
(* pair chain. Covered: a count below zero is one of a point that lost     *)
(* two. Untouched: the lists of routines still to run are empty.           *)
(* TriosAlone: until getNormalHand runs no card of a trio's point is left, *)
(* and none in a solo chain. AllTaken: after it no cards are left and      *)
(* findKicker may run. NoPairChains: the last-card splits have none.       *)
Behind(s) == {End(h) + 1 : h \in ToSet(Hands(s.handMap, "PAIR_CHAIN"))}
Deal(d) == d \in [Point -> Nat] /\ (\A p \in Point : d[p] <= 4) /\ \A p \in Jokers : d[p] <= 1
Accounted(d, s) ==
  \A p \in Point : Kept(s, p) = d[p] \/ (p \in Behind(s) /\ Kept(s, p) = d[p] - 2)
Covered(d, s) ==
  \A p \in Point : s.cards[p] >= 0 \/ (Kept(s, p) = d[p] - 2 /\ s.cards[p] >= -2)
Untouched(q, s) ==
  /\ "getPairChain" \in q => Hands(s.handMap, "PAIR_CHAIN") = <<>>
  /\ "getSoloChain" \in q => Hands(s.handMap, "SOLO_CHAIN") = <<>>
  /\ "getNormalHand" \in q => Hands(s.handMap, "SOLO") = <<>> /\ Hands(s.handMap, "PAIR") = <<>>
TriosAlone(q, s) ==
  "getNormalHand" \in q =>
    \A j \in DOMAIN Hands(s.handMap, "TRIO") :
      LET p == Hands(s.handMap, "TRIO")[j].keyPoint
      IN  s.cards[p] + InList(Hands(s.handMap, "SOLO_CHAIN"), p) <= 0
AllTaken(q, s) ==
  "getNormalHand" \notin q => Ready(s.handMap) /\ \A p \in Point : s.cards[p] <= 0
NoPairChains(k, q, s) ==
  k \in {4, 5} => "getPairChain" \notin q /\ Hands(s.handMap, "PAIR_CHAIN") = <<>>
Books(d, s) == s \in Splits /\ Accounted(d, s) /\ Covered(d, s)
Progress(k, q, s) == Untouched(q, s) /\ TriosAlone(q, s) /\ AllTaken(q, s) /\ NoPairChains(k, q, s)
Sound(d, k, q, s) == Deal(d) /\ Order(q) /\ Books(d, s) /\ Progress(k, ToSet(q), s)

(* What the books say of one point.                                        *)
LEMMA BookBounds ==
  ASSUME NEW d, Deal(d), NEW s, Books(d, s), NEW p \in Point
  PROVE  /\ s.cards[p] <= 4 /\ (p \in Jokers => s.cards[p] <= 1) /\ InMap(s.handMap, p) <= 4
         /\ s.cards[p] \in Int /\ InMap(s.handMap, p) \in Nat /\ d[p] \in Nat
  <1> DEFINE i == InMap(s.handMap, p)
             c == s.cards[p]
             e == d[p]
  <1>1. i \in Nat /\ c \in Int /\ e \in Nat /\ e <= 4 /\ (p \in Jokers => e <= 1)
    BY InMapIsSum DEF Books, Splits, Deal
  <1>2. (i + c = e \/ i + c = e - 2) /\ (c >= 0 \/ (i + c = e - 2 /\ c >= -2))
    BY DEF Books, Accounted, Covered, Kept
  <1> HIDE DEF i, c, e
  <1>3. c <= 4 /\ (p \in Jokers => c <= 1) /\ i <= 4
    BY <1>1, <1>2
  <1> QED  BY <1>1, <1>3 DEF i, c, e

(* A routine that keeps the cards and the pair chains keeps the books.     *)
LEMMA BooksKept ==
  ASSUME NEW d, Deal(d), NEW s, Books(d, s), NEW types, NEW t, KeepsBut(types, s, t), "PAIR_CHAIN" \notin types
  PROVE  Books(d, t) /\ Hands(t.handMap, "PAIR_CHAIN") = Hands(s.handMap, "PAIR_CHAIN")
  <1>1. t \in Splits /\ s \in Splits
    BY DEF KeepsBut, Books
  <1>2. Hands(t.handMap, "PAIR_CHAIN") = Hands(s.handMap, "PAIR_CHAIN")
    BY DEF KeepsBut, HandType, ChainTypes
  <1>3. Behind(t) = Behind(s)
    BY <1>2 DEF Behind
  <1>4. \A p \in Point : Kept(t, p) = Kept(s, p)
    BY DEF KeepsBut
  <1>5. Accounted(d, t)
    BY <1>3, <1>4 DEF Books, Accounted
  <1>6. Covered(d, t)
    <2> SUFFICES ASSUME NEW p \in Point
                 PROVE  t.cards[p] >= 0 \/ (Kept(t, p) = d[p] - 2 /\ t.cards[p] >= -2)
      BY DEF Covered
    <2>1. t.cards[p] \in Int /\ s.cards[p] \in Int
      BY <1>1 DEF Splits
    <2>2. t.cards[p] >= 0 \/ t.cards[p] >= s.cards[p]
      BY DEF KeepsBut
    <2>3. s.cards[p] >= 0 \/ (Kept(s, p) = d[p] - 2 /\ s.cards[p] >= -2)
      BY DEF Books, Covered
    <2> QED  BY <1>4, <2>1, <2>2, <2>3
  <1> QED  BY <1>1, <1>2, <1>5, <1>6 DEF Books

(* The routines before getNormalHand that find no single hands.            *)
LEMMA ProgressKept ==
  ASSUME NEW k, NEW q, NEW r, r \subseteq q, "getNormalHand" \in r, NEW s, Progress(k, q, s),
         NEW t, \A u \in {"SOLO", "PAIR", "TRIO"} : Hands(t.handMap, u) = Hands(s.handMap, u),
         "getPairChain" \in r => Hands(t.handMap, "PAIR_CHAIN") = Hands(s.handMap, "PAIR_CHAIN"),
         "getPairChain" \notin q => Hands(t.handMap, "PAIR_CHAIN") = Hands(s.handMap, "PAIR_CHAIN"),
         "getSoloChain" \in r => Hands(t.handMap, "SOLO_CHAIN") = Hands(s.handMap, "SOLO_CHAIN"),
         \A j \in DOMAIN Hands(s.handMap, "TRIO") :
           LET p == Hands(s.handMap, "TRIO")[j].keyPoint
           IN  t.cards[p] + InList(Hands(t.handMap, "SOLO_CHAIN"), p) <= 0
  PROVE  Progress(k, r, t)
  <1>1. Untouched(r, t)
    BY DEF Progress, Untouched
  <1>2. TriosAlone(r, t)
    BY DEF TriosAlone
  <1>3. AllTaken(r, t)
    BY DEF AllTaken
  <1>4. NoPairChains(k, r, t)
    BY DEF Progress, NoPairChains
  <1> QED  BY <1>1, <1>2, <1>3, <1>4 DEF Progress

(* A trio has a key point.                                                 *)
LEMMA TrioKey ==
  ASSUME NEW s \in Splits, NEW j \in DOMAIN Hands(s.handMap, "TRIO")
  PROVE  Hands(s.handMap, "TRIO")[j].keyPoint \in Point
  <1>1. "TRIO" \in HandType /\ s.handMap \in Maps
    BY DEF HandType, Splits
  <1>2. Hands(s.handMap, "TRIO") \in Lists
    BY <1>1, MapHands
  <1>3. Hands(s.handMap, "TRIO")[j] \in Hand
    BY <1>2, ElementOfSeq, LenProperties DEF Lists
  <1> QED  BY <1>3 DEF Hand

(* A routine that takes cards off and touches neither trios nor solo       *)
(* chains.                                                                 *)
LEMMA TriosStayAlone ==
  ASSUME NEW k, NEW q, "getNormalHand" \in q, NEW s \in Splits, Progress(k, q, s), NEW t \in Splits,
         \A p \in Point : t.cards[p] <= s.cards[p],
         Hands(t.handMap, "SOLO_CHAIN") = Hands(s.handMap, "SOLO_CHAIN")
  PROVE  \A j \in DOMAIN Hands(s.handMap, "TRIO") :
           LET p == Hands(s.handMap, "TRIO")[j].keyPoint
           IN  t.cards[p] + InList(Hands(t.handMap, "SOLO_CHAIN"), p) <= 0
  <1> SUFFICES ASSUME NEW j \in DOMAIN Hands(s.handMap, "TRIO")
               PROVE  t.cards[Hands(s.handMap, "TRIO")[j].keyPoint]
                        + InList(Hands(t.handMap, "SOLO_CHAIN"), Hands(s.handMap, "TRIO")[j].keyPoint) <= 0
    OBVIOUS
  <1> DEFINE p == Hands(s.handMap, "TRIO")[j].keyPoint
             i == InList(Hands(s.handMap, "SOLO_CHAIN"), p)
             c == s.cards[p]
             e == t.cards[p]
  <1>1. p \in Point
    BY TrioKey
  <1>2. c + i <= 0
    BY DEF Progress, TriosAlone
  <1>3. InList(Hands(t.handMap, "SOLO_CHAIN"), p) = i
    OBVIOUS
  <1> HIDE DEF p
  <1>4. e <= c /\ c \in Int /\ e \in Int
    BY <1>1 DEF Splits
  <1>5. i \in Nat
    <2>1. "SOLO_CHAIN" \in HandType /\ s.handMap \in Maps
      BY DEF HandType, ChainTypes, Splits
    <2>2. Hands(s.handMap, "SOLO_CHAIN") \in Lists
      BY <2>1, MapHands
    <2> QED  BY <1>1, <2>2, InListIsSum
  <1> HIDE DEF i, c, e
  <1>6. e + i <= 0
    BY <1>2, <1>4, <1>5
  <1> QED  BY <1>3, <1>6 DEF e, p
-----------------------------------------------------------------------------
(* Every routine keeps it                                                  *)

(* getBomb keeps the split sound.                                          *)
LEMMA BombStep ==
  ASSUME NEW d, NEW k, NEW q, NEW s, Sound(d, k, q, s), q # <<>>, Head(q) = "getBomb"
  PROVE  Sound(d, k, Tail(q), getBomb(s))
  <1> DEFINE t == getBomb(s)
             r == ToSet(Tail(q))
  <1>1. /\ Order(Tail(q)) /\ r \subseteq ToSet(q) /\ "getNormalHand" \in r /\ "getNormalHand" \in ToSet(q)
        /\ "getBomb" \notin r
    <2>1. Order(q)
      BY DEF Sound
    <2> QED  BY <2>1, OrderStep
  <1>2. Deal(d) /\ Books(d, s) /\ s \in Splits /\ Progress(k, ToSet(q), s)
    BY DEF Sound, Books
  <1>3. KeepsBut({"BOMB"}, s, t) /\ \A p \in Point : t.cards[p] <= s.cards[p]
    BY <1>2, BombKeeps
  <1> HIDE DEF t, r
  <1>4. t \in Splits /\ \A u \in HandType : u # "BOMB" => Hands(t.handMap, u) = Hands(s.handMap, u)
    BY <1>3 DEF KeepsBut
  <1>5. Books(d, t)
    BY <1>2, <1>3, BooksKept
  <1>6. {"SOLO", "PAIR", "TRIO", "SOLO_CHAIN", "PAIR_CHAIN"} \in SUBSET HandType
    BY DEF HandType, ChainTypes
  <1>7. /\ \A u \in {"SOLO", "PAIR", "TRIO"} : Hands(t.handMap, u) = Hands(s.handMap, u)
        /\ Hands(t.handMap, "PAIR_CHAIN") = Hands(s.handMap, "PAIR_CHAIN")
        /\ Hands(t.handMap, "SOLO_CHAIN") = Hands(s.handMap, "SOLO_CHAIN")
    BY <1>4, <1>6
  <1>8. \A j \in DOMAIN Hands(s.handMap, "TRIO") :
          LET p == Hands(s.handMap, "TRIO")[j].keyPoint
          IN  t.cards[p] + InList(Hands(t.handMap, "SOLO_CHAIN"), p) <= 0
    BY <1>1, <1>2, <1>3, <1>4, <1>7, TriosStayAlone
  <1>9. Progress(k, r, t)
    BY <1>1, <1>2, <1>7, <1>8, ProgressKept
  <1> QED  BY <1>1, <1>2, <1>5, <1>9 DEF Sound, t, r

(* getTrioChain keeps the split sound.                                     *)
LEMMA TrioChainStep ==
  ASSUME NEW d, NEW k, NEW q, NEW s, Sound(d, k, q, s), q # <<>>, Head(q) = "getTrioChain"
  PROVE  Sound(d, k, Tail(q), getTrioChain(s))
  <1> DEFINE t == getTrioChain(s)
             r == ToSet(Tail(q))
  <1>1. /\ Order(Tail(q)) /\ r \subseteq ToSet(q) /\ "getNormalHand" \in r /\ "getNormalHand" \in ToSet(q)
        /\ "getTrioChain" \notin r
    <2>1. Order(q)
      BY DEF Sound
    <2> QED  BY <2>1, OrderStep
  <1>2. Deal(d) /\ Books(d, s) /\ s \in Splits /\ Progress(k, ToSet(q), s)
    BY DEF Sound, Books
  <1>3. KeepsBut({"TRIO_CHAIN"}, s, t) /\ \A p \in Point : t.cards[p] <= s.cards[p]
    BY <1>2, TrioChainKeeps
  <1> HIDE DEF t, r
  <1>4. t \in Splits /\ \A u \in HandType : u # "TRIO_CHAIN" => Hands(t.handMap, u) = Hands(s.handMap, u)
    BY <1>3 DEF KeepsBut
  <1>5. Books(d, t)
    BY <1>2, <1>3, BooksKept
  <1>6. {"SOLO", "PAIR", "TRIO", "SOLO_CHAIN", "PAIR_CHAIN"} \in SUBSET HandType
    BY DEF HandType, ChainTypes
  <1>7. /\ \A u \in {"SOLO", "PAIR", "TRIO"} : Hands(t.handMap, u) = Hands(s.handMap, u)
        /\ Hands(t.handMap, "PAIR_CHAIN") = Hands(s.handMap, "PAIR_CHAIN")
        /\ Hands(t.handMap, "SOLO_CHAIN") = Hands(s.handMap, "SOLO_CHAIN")
    BY <1>4, <1>6
  <1>8. \A j \in DOMAIN Hands(s.handMap, "TRIO") :
          LET p == Hands(s.handMap, "TRIO")[j].keyPoint
          IN  t.cards[p] + InList(Hands(t.handMap, "SOLO_CHAIN"), p) <= 0
    BY <1>1, <1>2, <1>3, <1>4, <1>7, TriosStayAlone
  <1>9. Progress(k, r, t)
    BY <1>1, <1>2, <1>7, <1>8, ProgressKept
  <1> QED  BY <1>1, <1>2, <1>5, <1>9 DEF Sound, t, r

(* getPairChain keeps the split sound: it runs once, so the lost cards are *)
(* lost once.                                                              *)
LEMMA PairChainStep ==
  ASSUME NEW d, NEW k, NEW q, NEW s, Sound(d, k, q, s), q # <<>>, Head(q) = "getPairChain"
  PROVE  Sound(d, k, Tail(q), getPairChain(s))
  <1> DEFINE t == getPairChain(s)
             r == ToSet(Tail(q))
  <1>1. /\ Order(Tail(q)) /\ r \subseteq ToSet(q) /\ "getNormalHand" \in r /\ "getNormalHand" \in ToSet(q)
        /\ "getPairChain" \notin r /\ "getPairChain" \in ToSet(q)
    <2>1. Order(q)
      BY DEF Sound
    <2> QED  BY <2>1, OrderStep
  <1>2. Deal(d) /\ Books(d, s) /\ s \in Splits /\ Progress(k, ToSet(q), s)
    BY DEF Sound, Books
  <1>3. Hands(s.handMap, "PAIR_CHAIN") = <<>>
    BY <1>1, <1>2 DEF Progress, Untouched
  <1>4. PairTurn(s, t)
    BY <1>2, <1>3, PairChainTurn
  <1> HIDE DEF t, r
  <1>5. t \in Splits /\ \A p \in Point : t.cards[p] <= s.cards[p]
    BY <1>4 DEF PairTurn
  <1>6. {"SOLO", "PAIR", "TRIO", "SOLO_CHAIN", "PAIR_CHAIN"} \in SUBSET HandType
    BY DEF HandType, ChainTypes
  <1>7. /\ \A u \in {"SOLO", "PAIR", "TRIO"} : Hands(t.handMap, u) = Hands(s.handMap, u)
        /\ Hands(t.handMap, "SOLO_CHAIN") = Hands(s.handMap, "SOLO_CHAIN")
    BY <1>4, <1>6 DEF PairTurn
  <1>8. \A j \in DOMAIN Hands(s.handMap, "TRIO") :
          LET p == Hands(s.handMap, "TRIO")[j].keyPoint
          IN  t.cards[p] + InList(Hands(t.handMap, "SOLO_CHAIN"), p) <= 0
    BY <1>1, <1>2, <1>5, <1>7, TriosStayAlone
  <1>9. Progress(k, r, t)
    BY <1>1, <1>2, <1>7, <1>8, ProgressKept
  <1>10. ASSUME NEW p \in Point
         PROVE  /\ Kept(t, p) = d[p] \/ (p \in Behind(t) /\ Kept(t, p) = d[p] - 2)
                /\ t.cards[p] >= 0 \/ (Kept(t, p) = d[p] - 2 /\ t.cards[p] >= -2)
    <2> DEFINE x == Kept(s, p)
               y == Kept(t, p)
               a == s.cards[p]
               b == t.cards[p]
               e == d[p]
               B == p \in Behind(t)
    <2>1. a \in Int /\ b \in Int /\ e \in Nat
      BY <1>2, <1>5 DEF Splits, Deal
    <2>2. Behind(s) = {}
      BY <1>3 DEF Behind, ToSet
    <2>3. x = e /\ (a >= 0 \/ (x = e - 2 /\ a >= -2))
      BY <1>2, <2>2 DEF Books, Accounted, Covered
    <2>4. (y = x /\ (b >= 0 \/ b >= a)) \/ (B /\ y = x - 2 /\ b = a - 2)
      BY <1>4 DEF PairTurn, Behind
    <2> HIDE DEF x, y, a, b, e, B
    <2>5. (y = e \/ (B /\ y = e - 2)) /\ (b >= 0 \/ (y = e - 2 /\ b >= -2))
      BY <2>1, <2>3, <2>4
    <2> QED  BY <2>5 DEF y, b, e, B
  <1>11. Books(d, t)
    BY <1>5, <1>10 DEF Books, Accounted, Covered
  <1> QED  BY <1>1, <1>2, <1>9, <1>11 DEF Sound, t, r

(* getSoloChain keeps the split sound: what it takes of a trio's point it  *)
(* must put back, for none was left.                                       *)
LEMMA SoloChainStep ==
  ASSUME NEW d, NEW k, NEW q, NEW s, Sound(d, k, q, s), q # <<>>, Head(q) = "getSoloChain"
  PROVE  Sound(d, k, Tail(q), getSoloChain(s))
  <1> DEFINE t == getSoloChain(s)
             r == ToSet(Tail(q))
  <1>1. /\ Order(Tail(q)) /\ r \subseteq ToSet(q) /\ "getNormalHand" \in r /\ "getNormalHand" \in ToSet(q)
        /\ "getSoloChain" \notin r /\ "getSoloChain" \in ToSet(q)
    <2>1. Order(q)
      BY DEF Sound
    <2> QED  BY <2>1, OrderStep
  <1>2. Deal(d) /\ Books(d, s) /\ s \in Splits /\ Progress(k, ToSet(q), s)
    BY DEF Sound, Books
  <1>3. KeepsBut({"SOLO_CHAIN"}, s, t)
    BY <1>2, GetSoloChainKeeps DEF SoloTurn
  <1> HIDE DEF t, r
  <1>4. t \in Splits /\ \A u \in HandType : u # "SOLO_CHAIN" => Hands(t.handMap, u) = Hands(s.handMap, u)
    BY <1>3 DEF KeepsBut
  <1>5. Books(d, t)
    BY <1>2, <1>3, BooksKept
  <1>6. {"SOLO", "PAIR", "TRIO", "SOLO_CHAIN", "PAIR_CHAIN"} \in SUBSET HandType /\ "SOLO_CHAIN" \in HandType
    BY DEF HandType, ChainTypes
  <1>7. /\ \A u \in {"SOLO", "PAIR", "TRIO"} : Hands(t.handMap, u) = Hands(s.handMap, u)
        /\ Hands(t.handMap, "PAIR_CHAIN") = Hands(s.handMap, "PAIR_CHAIN")
    BY <1>4, <1>6
  <1>8. \A j \in DOMAIN Hands(s.handMap, "TRIO") :
          LET p == Hands(s.handMap, "TRIO")[j].keyPoint
          IN  t.cards[p] + InList(Hands(t.handMap, "SOLO_CHAIN"), p) <= 0
    <2> SUFFICES ASSUME NEW j \in DOMAIN Hands(s.handMap, "TRIO")
                 PROVE  t.cards[Hands(s.handMap, "TRIO")[j].keyPoint]
                          + InList(Hands(t.handMap, "SOLO_CHAIN"), Hands(s.handMap, "TRIO")[j].keyPoint) <= 0
      OBVIOUS
    <2> DEFINE p == Hands(s.handMap, "TRIO")[j].keyPoint
               i == InList(Hands(s.handMap, "SOLO_CHAIN"), p)
               l == InList(Hands(t.handMap, "SOLO_CHAIN"), p)
               a == s.cards[p]
               b == t.cards[p]
               x == InMap(s.handMap, p)
               y == InMap(t.handMap, p)
    <2>1. p \in Point
      BY <1>2, TrioKey
    <2>2. a + i <= 0
      BY <1>1, <1>2 DEF Progress, TriosAlone
    <2> HIDE DEF p
    <2>3. y = x - i + l
      <3>1. s.handMap \in Maps /\ t.handMap \in Maps
        BY <1>2, <1>4 DEF Splits
      <3> QED  BY <1>4, <1>6, <2>1, <3>1, MapChange
    <2>4. y + b = x + a
      BY <1>3, <2>1 DEF KeepsBut, Kept
    <2>5. a \in Int /\ b \in Int /\ x \in Nat /\ y \in Nat
      BY <1>2, <1>4, <2>1, InMapIsSum DEF Splits
    <2>6. i \in Nat /\ l \in Nat
      <3>1. s.handMap \in Maps /\ t.handMap \in Maps
        BY <1>2, <1>4 DEF Splits
      <3>2. Hands(s.handMap, "SOLO_CHAIN") \in Lists /\ Hands(t.handMap, "SOLO_CHAIN") \in Lists
        BY <1>6, <3>1, MapHands
      <3> QED  BY <2>1, <3>2, InListIsSum
    <2> HIDE DEF i, l, a, b, x, y
    <2>7. b + l <= 0
      BY <2>2, <2>3, <2>4, <2>5, <2>6
    <2> QED  BY <2>7 DEF b, l, p
  <1>9. Progress(k, r, t)
    BY <1>1, <1>2, <1>7, <1>8, ProgressKept
  <1> QED  BY <1>1, <1>2, <1>5, <1>9 DEF Sound, t, r

(* getTrio keeps the split sound: it runs before getSoloChain, so there    *)
(* are no solo chains yet.                                                 *)
LEMMA TrioStep ==
  ASSUME NEW d, NEW k, NEW q, NEW s, Sound(d, k, q, s), q # <<>>, Head(q) = "getTrio"
  PROVE  Sound(d, k, Tail(q), getTrio(s))
  <1> DEFINE t == getTrio(s)
             r == ToSet(Tail(q))
  <1>1. /\ Order(Tail(q)) /\ r \subseteq ToSet(q) /\ "getNormalHand" \in r /\ "getNormalHand" \in ToSet(q)
        /\ "getTrio" \notin r /\ "getTrio" \in ToSet(q) /\ "getSoloChain" \in r
    <2>1. Order(q)
      BY DEF Sound
    <2> QED  BY <2>1, OrderStep
  <1>2. Deal(d) /\ Books(d, s) /\ s \in Splits /\ Progress(k, ToSet(q), s)
    BY DEF Sound, Books
  <1>3. /\ KeepsBut({"TRIO"}, s, t) /\ \A p \in Point : t.cards[p] <= s.cards[p]
        /\ Hands(t.handMap, "TRIO") = Hands(s.handMap, "TRIO") \o Singles("TRIO", Count(s.cards, 3))
        /\ \A p \in Count(s.cards, 3) : t.cards[p] = 0
    BY <1>2, TrioKeeps
  <1> HIDE DEF t, r
  <1>4. t \in Splits /\ \A u \in HandType : u # "TRIO" => Hands(t.handMap, u) = Hands(s.handMap, u)
    BY <1>3 DEF KeepsBut
  <1>5. Books(d, t)
    BY <1>2, <1>3, BooksKept
  <1>6. {"SOLO", "PAIR", "TRIO", "SOLO_CHAIN", "PAIR_CHAIN"} \in SUBSET HandType
    BY DEF HandType, ChainTypes
  <1>7. /\ \A u \in {"SOLO", "PAIR", "PAIR_CHAIN", "SOLO_CHAIN"} : Hands(t.handMap, u) = Hands(s.handMap, u)
        /\ Hands(t.handMap, "SOLO_CHAIN") = <<>>
    BY <1>1, <1>2, <1>4, <1>6 DEF Progress, Untouched
  <1>8. TriosAlone(r, t)
    <2> SUFFICES ASSUME NEW j \in DOMAIN Hands(t.handMap, "TRIO")
                 PROVE  t.cards[Hands(t.handMap, "TRIO")[j].keyPoint]
                          + InList(Hands(t.handMap, "SOLO_CHAIN"), Hands(t.handMap, "TRIO")[j].keyPoint) <= 0
      BY DEF TriosAlone
    <2> DEFINE ts == Hands(t.handMap, "TRIO")
               old == Hands(s.handMap, "TRIO")
               new == Singles("TRIO", Count(s.cards, 3))
               p == ts[j].keyPoint
    <2>1. p \in Point
      BY <1>4, TrioKey
    <2>2. t.cards[p] \in Int /\ InList(Hands(t.handMap, "SOLO_CHAIN"), p) = 0
      BY <1>4, <1>7, <2>1, InListOfNone DEF Splits
    <2>3. old \in Lists /\ new \in Lists /\ KeysIn(new, Count(s.cards, 3))
      <3>1. "TRIO" \in Bare \cup {"BOMB"} /\ Count(s.cards, 3) \in SUBSET Point
        BY CountFacts DEF Bare
      <3>2. s.handMap \in Maps
        BY <1>2 DEF Splits
      <3> QED  BY <1>6, <3>1, <3>2, SinglesFacts, MapHands
    <2>4. t.cards[p] <= 0
      <3> HIDE DEF old, new
      <3>1. /\ ts = old \o new /\ Len(ts) = Len(old) + Len(new) /\ j \in 1..(Len(old) + Len(new))
            /\ ts[j] = IF j <= Len(old) THEN old[j] ELSE new[j - Len(old)]
            /\ Len(old) \in Nat /\ Len(new) \in Nat /\ DOMAIN old = 1..Len(old) /\ DOMAIN new = 1..Len(new)
        <4>1. ts = old \o new /\ j \in DOMAIN ts
          BY <1>3 DEF old, new
        <4>2. /\ Len(old \o new) = Len(old) + Len(new) /\ old \o new \in Lists
              /\ \A i \in 1..(Len(old) + Len(new)) : (old \o new)[i] = IF i <= Len(old) THEN old[i] ELSE new[i - Len(old)]
          BY <2>3, ConcatProperties DEF Lists
        <4> HIDE DEF ts
        <4>3. DOMAIN ts = 1..(Len(old) + Len(new))
          BY <4>1, <4>2, LenProperties DEF Lists
        <4>4. Len(old) \in Nat /\ Len(new) \in Nat /\ DOMAIN old = 1..Len(old) /\ DOMAIN new = 1..Len(new)
          BY <2>3, LenProperties DEF Lists
        <4> QED  BY <4>1, <4>2, <4>3, <4>4
      <3>2. CASE j <= Len(old)
        <4>1. j \in DOMAIN old /\ p = old[j].keyPoint
          BY <3>1, <3>2
        <4>2. s.cards[p] + InList(Hands(s.handMap, "SOLO_CHAIN"), p) <= 0
          BY <1>1, <1>2, <4>1 DEF Progress, TriosAlone, old
        <4>3. Hands(s.handMap, "SOLO_CHAIN") = <<>>
          BY <1>7
        <4>4. InList(Hands(s.handMap, "SOLO_CHAIN"), p) = 0 /\ s.cards[p] \in Int /\ t.cards[p] <= s.cards[p]
          BY <1>2, <1>3, <2>1, <4>3, InListOfNone DEF Splits
        <4> HIDE DEF p
        <4> QED  BY <2>2, <4>2, <4>4
      <3>3. CASE ~(j <= Len(old))
        <4>1. j - Len(old) \in DOMAIN new /\ p = new[j - Len(old)].keyPoint
          BY <3>1, <3>3
        <4>2. p \in Count(s.cards, 3)
          BY <2>3, <4>1 DEF KeysIn
        <4>3. t.cards[p] = 0
          BY <1>3, <4>2
        <4> HIDE DEF p
        <4> QED  BY <4>3
      <3> QED  BY <3>2, <3>3
    <2> HIDE DEF p
    <2>5. t.cards[p] + InList(Hands(t.handMap, "SOLO_CHAIN"), p) <= 0
      BY <2>2, <2>4
    <2> QED  BY <2>5 DEF p
  <1>9. Progress(k, r, t)
    <2>1. Untouched(r, t)
      BY <1>1, <1>2, <1>7 DEF Progress, Untouched
    <2>2. AllTaken(r, t)
      BY <1>1 DEF AllTaken
    <2>3. NoPairChains(k, r, t)
      BY <1>1, <1>2, <1>7 DEF Progress, NoPairChains
    <2> QED  BY <1>8, <2>1, <2>2, <2>3 DEF Progress
  <1> QED  BY <1>1, <1>2, <1>5, <1>9 DEF Sound, t, r

(* After getNormalHand the kickers can be found: each point is in one of   *)
(* the lists of singles, and trios found earlier have no card left to be a *)
(* solo.                                                                   *)
LEMMA NormalHandReady ==
  ASSUME NEW d, Deal(d), NEW q, "getNormalHand" \in q, NEW k, NEW s, Books(d, s), Progress(k, q, s),
         NEW t, NormalTurn(s, t), Books(d, t)
  PROVE  Ready(t.handMap)
  <1> DEFINE sc == s.cards
             old == Hands(s.handMap, "TRIO")
             new == Singles("TRIO", Count(sc, 3))
             ts == Hands(t.handMap, "TRIO")
             solos == Hands(t.handMap, "SOLO")
             pairs == Hands(t.handMap, "PAIR")
  <1>1. s \in Splits /\ t \in Splits /\ s.handMap \in Maps /\ t.handMap \in Maps /\ sc \in [Point -> Int]
    BY DEF Books, Splits
  <1>2. Hands(s.handMap, "SOLO") = <<>> /\ Hands(s.handMap, "PAIR") = <<>>
    BY DEF Progress, Untouched
  <1>3. Count(sc, 2) \in SUBSET Point /\ Count(sc, 3) \in SUBSET Point /\ SoloPoints(sc) \in SUBSET Point
        /\ "TRIO" \in Bare \cup {"BOMB"} /\ "PAIR" \in Bare \cup {"BOMB"} /\ "SOLO" \in Bare \cup {"BOMB"}
    BY CountFacts DEF SoloPoints, Bare
  <1>4. solos = Singles("SOLO", SoloPoints(sc)) /\ DistinctKeys(solos) /\ KeysIn(solos, SoloPoints(sc))
    <2> DEFINE more == Singles("SOLO", SoloPoints(sc))
    <2>1. more \in Lists /\ DistinctKeys(more) /\ KeysIn(more, SoloPoints(sc))
      BY <1>3, SinglesFacts
    <2>2. solos = <<>> \o more
      BY <1>2 DEF NormalTurn
    <2> HIDE DEF more, solos
    <2>3. solos = more
      BY <2>1, <2>2, ConcatEmptySeq DEF Lists
    <2> QED  BY <2>1, <2>3 DEF more
  <1>5. DistinctKeys(pairs)
    <2> DEFINE more == Singles("PAIR", Count(sc, 2))
    <2>1. more \in Lists /\ DistinctKeys(more)
      BY <1>3, SinglesFacts
    <2>2. pairs = <<>> \o more
      BY <1>2 DEF NormalTurn
    <2> HIDE DEF more, pairs
    <2>3. pairs = more
      BY <2>1, <2>2, ConcatEmptySeq DEF Lists
    <2> QED  BY <2>1, <2>3
  <1>6. \A p \in SoloPoints(sc) : sc[p] = 1
    BY DEF SoloPoints
  <1>7. ASSUME NEW j \in DOMAIN ts
        PROVE  sc[ts[j].keyPoint] <= 0 \/ sc[ts[j].keyPoint] = 3
    <2>1. "TRIO" \in HandType
      BY DEF HandType
    <2>2. old \in Lists /\ new \in Lists /\ KeysIn(new, Count(sc, 3))
      BY <1>1, <1>3, <2>1, SinglesFacts, MapHands
    <2>3. ts = old \o new
      BY DEF NormalTurn
    <2>4. /\ j \in 1..(Len(old) + Len(new))
          /\ ts[j] = IF j <= Len(old) THEN old[j] ELSE new[j - Len(old)]
          /\ Len(old) \in Nat /\ Len(new) \in Nat /\ DOMAIN old = 1..Len(old) /\ DOMAIN new = 1..Len(new)
      <3> HIDE DEF old, new
      <3>1. /\ Len(old \o new) = Len(old) + Len(new) /\ old \o new \in Lists
            /\ \A i \in 1..(Len(old) + Len(new)) : (old \o new)[i] = IF i <= Len(old) THEN old[i] ELSE new[i - Len(old)]
        BY <2>2, ConcatProperties DEF Lists
      <3>2. j \in DOMAIN ts
        OBVIOUS
      <3> HIDE DEF ts
      <3>3. DOMAIN ts = 1..(Len(old) + Len(new))
        BY <2>3, <3>1, LenProperties DEF Lists
      <3>4. Len(old) \in Nat /\ Len(new) \in Nat /\ DOMAIN old = 1..Len(old) /\ DOMAIN new = 1..Len(new)
        BY <2>2, LenProperties DEF Lists
      <3> QED  BY <2>3, <3>1, <3>2, <3>3, <3>4
    <2>5. CASE j <= Len(old)
      <3> DEFINE p == old[j].keyPoint
                 i == InList(Hands(s.handMap, "SOLO_CHAIN"), p)
      <3> HIDE DEF ts
      <3>1. j \in DOMAIN old /\ ts[j] = old[j]
        BY <2>4, <2>5
      <3>2. p \in Point
        BY <1>1, <3>1, TrioKey
      <3>3. sc[p] + i <= 0
        BY <3>1 DEF Progress, TriosAlone
      <3>4. i \in Nat /\ sc[p] \in Int
        <4>1. "SOLO_CHAIN" \in HandType
          BY DEF HandType, ChainTypes
        <4>2. Hands(s.handMap, "SOLO_CHAIN") \in Lists
          BY <1>1, <4>1, MapHands
        <4> QED  BY <1>1, <3>2, <4>2, InListIsSum
      <3> HIDE DEF i, p, sc
      <3>5. sc[p] <= 0
        BY <3>3, <3>4
      <3> QED  BY <3>1, <3>5 DEF p
    <2>6. CASE ~(j <= Len(old))
      <3> HIDE DEF ts
      <3>1. j - Len(old) \in DOMAIN new /\ ts[j] = new[j - Len(old)]
        BY <2>4, <2>6
      <3>2. ts[j].keyPoint \in Count(sc, 3)
        BY <2>2, <3>1 DEF KeysIn
      <3> QED  BY <3>2, CountFacts
    <2> QED  BY <2>5, <2>6
  <1>8. Apart(ts, solos)
    <2> SUFFICES ASSUME NEW i \in DOMAIN ts, NEW j \in DOMAIN solos, ts[i].keyPoint = solos[j].keyPoint
                 PROVE  FALSE
      BY DEF Apart
    <2> DEFINE v == sc[ts[i].keyPoint]
    <2>1. v <= 0 \/ v = 3
      BY <1>7
    <2>2. solos[j].keyPoint \in SoloPoints(sc)
      BY <1>4 DEF KeysIn
    <2>3. v = 1
      BY <1>6, <2>2
    <2> HIDE DEF v
    <2> QED  BY <2>1, <2>3
  <1>9. \A p \in Point : InMap(t.handMap, p) <= 4
    BY BookBounds
  <1> QED  BY <1>1, <1>4, <1>5, <1>8, <1>9 DEF Ready

(* getNormalHand keeps the split sound, and leaves no cards.               *)
LEMMA NormalHandStep ==
  ASSUME NEW d, NEW k, NEW q, NEW s, Sound(d, k, q, s), q # <<>>, Head(q) = "getNormalHand"
  PROVE  Sound(d, k, Tail(q), getNormalHand(s))
  <1> DEFINE t == getNormalHand(s)
             r == ToSet(Tail(q))
  <1>1. /\ Order(Tail(q)) /\ r \subseteq ToSet(q) /\ "getNormalHand" \in ToSet(q) /\ "getNormalHand" \notin r
        /\ r \subseteq {"findKicker"}
    <2>1. Order(q)
      BY DEF Sound
    <2> QED  BY <2>1, OrderStep
  <1>2. Deal(d) /\ Books(d, s) /\ s \in Splits /\ Progress(k, ToSet(q), s)
    BY DEF Sound, Books
  <1>3. NormalTurn(s, t)
    <2>1. \A p \in Point : s.cards[p] <= 4 /\ (p \in Jokers => s.cards[p] <= 1)
      BY <1>2, BookBounds
    <2>2. Jokers \in SUBSET Point
      BY PointFacts
    <2> QED  BY <1>2, <2>1, <2>2, NormalKeeps
  <1> HIDE DEF t, r
  <1>4. KeepsBut(FoundTypes, s, t) /\ "PAIR_CHAIN" \notin FoundTypes /\ \A p \in Point : t.cards[p] <= 0
    <2>1. "PAIR_CHAIN" \notin FoundTypes
      BY DEF FoundTypes
    <2> QED  BY <1>3, <2>1 DEF NormalTurn, KeepsBut
  <1>5. Books(d, t) /\ Hands(t.handMap, "PAIR_CHAIN") = Hands(s.handMap, "PAIR_CHAIN")
    BY <1>2, <1>4, BooksKept
  <1>6. Ready(t.handMap)
    BY <1>1, <1>2, <1>3, <1>5, NormalHandReady
  <1>7. Progress(k, r, t)
    <2>1. Untouched(r, t)
      BY <1>1 DEF Untouched
    <2>2. TriosAlone(r, t)
      BY <1>1 DEF TriosAlone
    <2>3. AllTaken(r, t)
      BY <1>4, <1>6 DEF AllTaken
    <2>4. NoPairChains(k, r, t)
      BY <1>1, <1>2, <1>5 DEF Progress, NoPairChains
    <2> QED  BY <2>1, <2>2, <2>3, <2>4 DEF Progress
  <1> QED  BY <1>1, <1>2, <1>5, <1>7 DEF Sound, t, r

(* findKickerForTrioOrTrioChain keeps the split sound.                     *)
LEMMA FindKickerStep ==
  ASSUME NEW d, NEW k, NEW q, NEW s, Sound(d, k, q, s), q # <<>>, Head(q) = "findKicker"
  PROVE  Sound(d, k, Tail(q), findKickerForTrioOrTrioChain(s))
  <1> DEFINE t == findKickerForTrioOrTrioChain(s)
             r == ToSet(Tail(q))
  <1>1. /\ Order(Tail(q)) /\ r = {} /\ "getNormalHand" \notin ToSet(q)
    <2>1. Order(q)
      BY DEF Sound
    <2> QED  BY <2>1, OrderStep
  <1>2. Deal(d) /\ Books(d, s) /\ s \in Splits /\ Progress(k, ToSet(q), s)
    BY DEF Sound, Books
  <1>3. Ready(s.handMap) /\ \A p \in Point : s.cards[p] <= 0
    BY <1>1, <1>2 DEF Progress, AllTaken
  <1>4. t \in Splits /\ t.cards = s.cards /\ KickStep(s.handMap, t.handMap)
    BY <1>2, <1>3, FindKickerKeeps
  <1> HIDE DEF t, r
  <1>5. KeepsBut(Kicking, s, t)
    <2>1. \A p \in Point : Kept(t, p) = Kept(s, p)
      BY <1>4 DEF KickStep, Kept
    <2>2. \A p \in Point : t.cards[p] >= 0 \/ t.cards[p] >= s.cards[p]
      <3> SUFFICES ASSUME NEW p \in Point  PROVE t.cards[p] >= s.cards[p]
        OBVIOUS
      <3>1. s.cards[p] \in Int /\ t.cards[p] = s.cards[p]
        BY <1>2, <1>4 DEF Splits
      <3> QED  BY <3>1
    <2>3. \A u \in HandType \ Kicking : Hands(t.handMap, u) = Hands(s.handMap, u)
      BY <1>4 DEF KickStep
    <2> QED  BY <1>4, <2>1, <2>2, <2>3 DEF KeepsBut
  <1>6. Books(d, t) /\ Hands(t.handMap, "PAIR_CHAIN") = Hands(s.handMap, "PAIR_CHAIN")
    <2>1. "PAIR_CHAIN" \notin Kicking
      BY DEF Kicking, KickedTypes
    <2> QED  BY <1>2, <1>5, <2>1, BooksKept
  <1>7. Progress(k, r, t)
    <2>1. Untouched(r, t) /\ TriosAlone(r, t)
      BY <1>1 DEF Untouched, TriosAlone
    <2>2. AllTaken(r, t)
      BY <1>3, <1>4 DEF AllTaken, KickStep
    <2>3. NoPairChains(k, r, t)
      BY <1>1, <1>2, <1>6 DEF Progress, NoPairChains
    <2> QED  BY <2>1, <2>2, <2>3 DEF Progress
  <1> QED  BY <1>1, <1>2, <1>6, <1>7 DEF Sound, t, r
-----------------------------------------------------------------------------
(* The theorems                                                            *)

(* The inductive invariant of SplitCards.                                  *)
IInv == kind \in 1..5 /\ Sound(dealt, kind, todo, split)

(* The map a split starts with.                                            *)
LEMMA NoHandsFacts ==
  NoHands \in Maps /\ (\A p : InMap(NoHands, p) = 0) /\ \A u : Hands(NoHands, u) = <<>>
  <1>1. DOMAIN NoHands = {}
    BY DEF NoHands
  <1>2. NoHands \in [{} -> Lists]
    BY DEF NoHands
  <1>3. NoHands \in Maps
    <2>1. {} \in SUBSET HandType
      OBVIOUS
    <2> QED  BY <1>1, <1>2, <2>1 DEF Maps
  <1>4. \A p : InMap(NoHands, p) = 0
    <2> SUFFICES ASSUME NEW p  PROVE InMap(NoHands, p) = 0
      OBVIOUS
    <2> DEFINE f == [t \in DOMAIN NoHands |-> InList(NoHands[t], p)]
    <2>1. DOMAIN f = {}
      BY <1>1
    <2>2. InMap(NoHands, p) = SumFunctionOnSet(f, DOMAIN f)
      BY DEF InMap, SumFunction
    <2> HIDE DEF f
    <2> QED  BY <2>1, <2>2, SumEmpty
  <1>5. \A u : Hands(NoHands, u) = <<>>
    BY <1>1 DEF Hands
  <1> QED  BY <1>3, <1>4, <1>5

(* The deals of the specification are deals.                               *)
LEMMA DealtIsDeal == \A d \in Dealt : Deal(d)
  <1> SUFFICES ASSUME NEW card \in [0..Two -> Copies], NEW joker \in [Jokers -> {0, 1}], NEW d,
                      d = [q \in Point |-> IF q \in Jokers THEN joker[q] ELSE card[q]]
               PROVE  Deal(d)
    BY DEF Dealt
  <1>1. \A p \in Point \ Jokers : p \in 0..Two
    BY PointFacts, HandAssumption DEF Point, Jokers, Two, BLACK_JOKER, RED_JOKER
  <1>2. ASSUME NEW p \in Point
        PROVE  d[p] \in Nat /\ d[p] <= 4 /\ (p \in Jokers => d[p] <= 1)
    <2>1. CASE p \in Jokers
      <3>1. d[p] = joker[p] /\ joker[p] \in {0, 1}
        BY <2>1
      <3> QED  BY <3>1
    <2>2. CASE p \notin Jokers
      <3>1. d[p] = card[p] /\ card[p] \in Copies
        BY <1>1, <2>2
      <3>2. card[p] \in 0..4
        BY <3>1, SplitAssumption
      <3> QED  BY <2>2, <3>1, <3>2
    <2> QED  BY <2>1, <2>2
  <1>3. d \in [Point -> Nat]
    BY <1>2
  <1> QED  BY <1>2, <1>3, PointFacts DEF Deal

(* The last-card splits look for no pair chains.                           *)
LEMMA NoPairChainRoutines ==
  "getPairChain" \notin ToSet(Routines[4]) /\ "getPairChain" \notin ToSet(Routines[5])
  <1>1. "getPairChain" \notin ToSet(<<"getSoloChain", "getBomb", "getNormalHand">>)
    BY DEF ToSet
  <1>2. "getPairChain" \notin ToSet(<<"getBomb", "getTrio", "getSoloChain", "getNormalHand">>)
    BY DEF ToSet
  <1> QED  BY <1>1, <1>2 DEF Routines

(* A split starts sound: all cards are left.                               *)
LEMMA InitSound == Init => IInv
  <1> SUFFICES ASSUME Init  PROVE IInv
    OBVIOUS
  <1>1. kind \in 1..5 /\ dealt \in Dealt /\ split = InWork(dealt, NoHands)
    BY SplitAssumption DEF Init
  <1>2. PICK b \in {<<>>, <<"findKicker">>} : todo = Routines[kind] \o b
    BY DEF Init, RoutinesOf
  <1>3. Deal(dealt)
    BY <1>1, DealtIsDeal
  <1>4. /\ Order(todo) /\ "getNormalHand" \in ToSet(todo)
        /\ \A x : x # "findKicker" /\ x \in ToSet(todo) => x \in ToSet(Routines[kind])
    BY <1>1, <1>2, RoutinesAreBase, BaseIsOrdered
  <1>5. /\ split.cards = dealt /\ split.handMap = NoHands /\ split \in Splits
        /\ \A p : InMap(split.handMap, p) = 0 /\ \A u : Hands(split.handMap, u) = <<>>
    <2>1. dealt \in [Point -> Int]
      BY <1>3 DEF Deal
    <2> QED  BY <1>1, <2>1, NoHandsFacts DEF InWork, Splits
  <1>6. \A p \in Point : Kept(split, p) = dealt[p] /\ split.cards[p] >= 0
    <2> SUFFICES ASSUME NEW p \in Point  PROVE Kept(split, p) = dealt[p] /\ split.cards[p] >= 0
      OBVIOUS
    <2>1. dealt[p] \in Nat /\ Kept(split, p) = 0 + dealt[p] /\ split.cards[p] = dealt[p]
      BY <1>3, <1>5 DEF Deal, Kept
    <2> QED  BY <2>1
  <1>7. Books(dealt, split)
    BY <1>5, <1>6 DEF Books, Accounted, Covered
  <1>8. Progress(kind, ToSet(todo), split)
    <2>1. Untouched(ToSet(todo), split)
      BY <1>5 DEF Untouched
    <2>2. TriosAlone(ToSet(todo), split)
      <3>1. DOMAIN Hands(split.handMap, "TRIO") = {}
        BY <1>5
      <3> QED  BY <3>1 DEF TriosAlone
    <2>3. AllTaken(ToSet(todo), split)
      BY <1>4 DEF AllTaken
    <2>4. NoPairChains(kind, ToSet(todo), split)
      BY <1>4, <1>5, NoPairChainRoutines DEF NoPairChains
    <2> QED  BY <2>1, <2>2, <2>3, <2>4 DEF Progress
  <1> QED  BY <1>1, <1>3, <1>4, <1>7, <1>8 DEF IInv, Sound

(* Every routine keeps the split sound.                                    *)
LEMMA StepSound == IInv /\ [Next]_vars => IInv'
  <1> SUFFICES ASSUME IInv, [Next]_vars  PROVE IInv'
    OBVIOUS
  <1>1. kind \in 1..5 /\ Sound(dealt, kind, todo, split)
    BY DEF IInv
  <1>2. SUFFICES kind' = kind /\ Sound(dealt, kind, todo', split') /\ dealt' = dealt
    BY <1>1 DEF IInv
  <1>3. ASSUME NEW name, RunRoutine(name)
        PROVE  /\ kind' = kind /\ dealt' = dealt /\ todo # <<>> /\ Head(todo) = name
               /\ split' = Routine(name, split) /\ todo' = Tail(todo)
    BY <1>3 DEF RunRoutine
  <1>4. CASE RunRoutine("getSoloChain")
    <2>1. Routine("getSoloChain", split) = getSoloChain(split)
      BY DEF Routine
    <2> QED  BY <1>1, <1>3, <1>4, <2>1, SoloChainStep
  <1>5. CASE RunRoutine("getBomb")
    <2>1. Routine("getBomb", split) = getBomb(split)
      BY DEF Routine
    <2> QED  BY <1>1, <1>3, <1>5, <2>1, BombStep
  <1>6. CASE RunRoutine("getTrio")
    <2>1. Routine("getTrio", split) = getTrio(split)
      BY DEF Routine
    <2> QED  BY <1>1, <1>3, <1>6, <2>1, TrioStep
  <1>7. CASE RunRoutine("getTrioChain")
    <2>1. Routine("getTrioChain", split) = getTrioChain(split)
      BY DEF Routine
    <2> QED  BY <1>1, <1>3, <1>7, <2>1, TrioChainStep
  <1>8. CASE RunRoutine("getPairChain")
    <2>1. Routine("getPairChain", split) = getPairChain(split)
      BY DEF Routine
    <2> QED  BY <1>1, <1>3, <1>8, <2>1, PairChainStep
  <1>9. CASE RunRoutine("getNormalHand")
    <2>1. Routine("getNormalHand", split) = getNormalHand(split)
      BY DEF Routine
    <2> QED  BY <1>1, <1>3, <1>9, <2>1, NormalHandStep
  <1>10. CASE RunRoutine("findKicker")
    <2>1. Routine("findKicker", split) = findKickerForTrioOrTrioChain(split)
      BY DEF Routine
    <2> QED  BY <1>1, <1>3, <1>10, <2>1, FindKickerStep
  <1>11. CASE UNCHANGED vars
    BY <1>1, <1>11 DEF vars
  <1> QED  BY <1>4, <1>5, <1>6, <1>7, <1>8, <1>9, <1>10, <1>11 DEF Next

(* The invariant holds throughout, for every size of the game and every    *)
(* bound that satisfy HandAssumption and SplitAssumption.                  *)
THEOREM SplitInvariant == Spec => []IInv
  BY InitSound, StepSound, PTL DEF Spec

(* The invariant implies the type invariant.                               *)
LEMMA SoundIsTyped == IInv => TypeOK
  <1> SUFFICES ASSUME IInv  PROVE TypeOK
    OBVIOUS
  <1>1. kind \in 1..5 /\ split \in Splits
    BY DEF IInv, Sound, Books
  <1>2. cards \in [Point -> Int] /\ handMap \in Maps
    BY <1>1 DEF Splits, cards, handMap
  <1>3. ASSUME NEW t \in DOMAIN handMap, NEW h \in ToSet(handMap[t])
        PROVE  h \in Hand /\ h.type \in (IF t = "BOMB" THEN {"BOMB", "NUKE"} ELSE {t})
    <2>1. handMap[t] \in Seq(Shaped(t))
      BY <1>2 DEF Maps
    <2>2. h \in Shaped(t)
      <3>1. PICK j \in DOMAIN handMap[t] : h = handMap[t][j]
        BY DEF ToSet
      <3> QED  BY <2>1, <3>1, ElementOfSeq, LenProperties
    <2> QED  BY <2>2 DEF Shaped
  <1> QED  BY <1>1, <1>2, <1>3 DEF TypeOK

(* The counts of SplitCards are those of the invariant.                    *)
LEMMA KeptIsShown ==
  /\ \A p : InHands(p) + cards[p] = Kept(split, p)
  /\ BehindPairChain = Behind(split)
  BY DEF InHands, InMap, cards, handMap, Kept, BehindPairChain, Behind

(* The invariant implies that no cards are lost but those behind a pair    *)
(* chain.                                                                  *)
LEMMA SoundIsAccounted == IInv => LostCardsFollowPairChains
  <1> SUFFICES ASSUME IInv  PROVE LostCardsFollowPairChains
    OBVIOUS
  <1>1. Accounted(dealt, split)
    BY DEF IInv, Sound, Books
  <1> QED  BY <1>1, KeptIsShown DEF Accounted, LostCardsFollowPairChains

(* The invariant implies that a finished last-card split has every card in *)
(* a hand.                                                                 *)
LEMMA SoundIsComplete == IInv => LastCardSplitIsComplete
  <1> SUFFICES ASSUME IInv, kind \in {4, 5}, todo = <<>>, NEW p \in Point  PROVE InHands(p) = dealt[p]
    BY DEF LastCardSplitIsComplete
  <1>1. Books(dealt, split) /\ Progress(kind, ToSet(todo), split) /\ split \in Splits
    BY DEF IInv, Sound, Books
  <1>2. ToSet(todo) = {}
    BY DEF ToSet
  <1>3. Hands(split.handMap, "PAIR_CHAIN") = <<>> /\ split.cards[p] <= 0
    BY <1>1, <1>2 DEF Progress, AllTaken, NoPairChains
  <1>4. Behind(split) = {}
    BY <1>3 DEF Behind, ToSet
  <1> DEFINE i == InHands(p)
             c == split.cards[p]
             e == dealt[p]
             x == Kept(split, p)
  <1>5. x = e /\ (c >= 0 \/ x = e - 2)
    BY <1>1, <1>4 DEF Books, Accounted, Covered
  <1>6. i + c = x
    BY KeptIsShown DEF cards
  <1>7. i \in Nat /\ c \in Int /\ e \in Nat
    <2>1. i = InMap(split.handMap, p)
      BY DEF InHands, InMap, handMap
    <2>2. split.handMap \in Maps /\ c \in Int
      BY <1>1 DEF Splits
    <2>3. e \in Nat
      BY DEF IInv, Sound, Deal
    <2> QED  BY <2>1, <2>2, <2>3, InMapIsSum
  <1> HIDE DEF i, c, e, x
  <1>8. i = e
    BY <1>3, <1>5, <1>6, <1>7 DEF c
  <1> QED  BY <1>8 DEF i, e

(* Every hand found is a hand, on the list of its type.                    *)
THEOREM SplitTypeCorrect == Spec => []TypeOK
  BY SplitInvariant, SoundIsTyped, PTL

(* No routine of a split loses or doubles a card, but for two of the point *)
(* behind a pair chain (the loop of getPairChain), whatever the deal.      *)
THEOREM CardsAreConserved == Spec => []LostCardsFollowPairChains
  BY SplitInvariant, SoundIsAccounted, PTL

(* The splits for a lord's last card end with every card dealt in a hand.  *)
THEOREM LastCardSplitsTakeAll == Spec => []LastCardSplitIsComplete
  BY SplitInvariant, SoundIsComplete, PTL
=============================================================================
