-------------------------- MODULE HandTypesProofs --------------------------
(***************************************************************************)
(* What holds of hands and their order for a game of any size. Induction   *)
(* over data is done in sets here: the first part has the folds of the     *)
(* community modules, least naturals, Ascending and sums.                  *)
(***************************************************************************)
EXTENDS HandTypes, FiniteSetTheorems, TLAPS

(* A family of subsets of a finite set, unless empty, has a minimal        *)
(* member. Induction over finite sets is done with it: were there sets     *)
(* that lack a property, a minimal one would be contradictory.             *)
LEMMA SmallestFinite ==
  ASSUME NEW S, IsFiniteSet(S), NEW F \in SUBSET SUBSET S, F # {}
  PROVE  \E T \in F : \A U \in F : U \subseteq T => U = T
  <1>1. IsWellFoundedOn(StrictSubsetOrdering(S), SUBSET S)
    BY FS_StrictSubsetOrderingWellFounded, FS_FiniteSubsetsOfFinite
  <1>2. \E T \in F : \A U \in F : <<U, T>> \notin StrictSubsetOrdering(S)
    BY <1>1, WFMin
  <1> QED  BY <1>2 DEF StrictSubsetOrdering

(* Folds as functions on sets: how the next element is picked, what a step *)
(* returns, and the function.                                              *)
Picks(c, S)    == \A T \in SUBSET S : T # {} => c[T] \in T
Steps(F, S, A) == \A a \in A, x \in S : F[<<a, x>>] \in A
IsFold(g, F, base, c, S) ==
  \A T \in SUBSET S : g[T] = IF T = {} THEN base ELSE F[<<g[T \ {c[T]}], c[T]>>]

(* A fold of the community modules is a recursive function on sets, of     *)
(* which the definition says only CHOOSE: there is one, and so the CHOOSE  *)
(* finds it. F is what one element does to a value, c the choice of the    *)
(* next element.                                                           *)
LEMMA FoldExists ==
  ASSUME NEW S, IsFiniteSet(S), NEW A, NEW base \in A, NEW F, NEW c,
         Steps(F, S, A), Picks(c, S)
  PROVE  \E g \in [SUBSET S -> A] : IsFold(g, F, base, c, S)
  <1> USE DEF Picks, Steps, IsFold
  <1> DEFINE Closed(R) ==
        /\ <<{}, base>> \in R
        /\ \A T \in SUBSET S, a \in A :
             T # {} /\ <<T \ {c[T]}, a>> \in R => <<T, F[<<a, c[T]>>]>> \in R
      P == (SUBSET S) \X A
      G == {z \in P : \A R \in SUBSET P : Closed(R) => z \in R}
      Unique(T) == \E a \in A : <<T, a>> \in G /\ \A b \in A : <<T, b>> \in G => b = a
  <1>1. Closed(G)
    <2>1. <<{}, base>> \in G
      OBVIOUS
    <2>2. ASSUME NEW T \in SUBSET S, NEW a \in A, T # {}, <<T \ {c[T]}, a>> \in G
          PROVE  <<T, F[<<a, c[T]>>]>> \in G
      <3>1. c[T] \in S /\ F[<<a, c[T]>>] \in A
        BY <2>2
      <3>2. <<T, F[<<a, c[T]>>]>> \in P
        BY <3>1
      <3>3. ASSUME NEW R \in SUBSET P, Closed(R)
            PROVE  <<T, F[<<a, c[T]>>]>> \in R
        <4>1. <<T \ {c[T]}, a>> \in R
          BY <2>2, <3>3
        <4> QED  BY <4>1, <2>2, <3>3
      <3> QED  BY <3>2, <3>3
    <2> QED  BY <2>1, <2>2
  <1>2. ASSUME NEW z \in G, Closed(G \ {z})
        PROVE  FALSE
    <2>1. G \ {z} \in SUBSET P
      OBVIOUS
    <2> QED  BY <1>2, <2>1
  <1>3. \A T \in SUBSET S : Unique(T)
    <2> SUFFICES ASSUME \E T \in SUBSET S : ~Unique(T)
                 PROVE  FALSE
      OBVIOUS
    <2>1. PICK T \in SUBSET S : ~Unique(T) /\ \A U \in SUBSET S : ~Unique(U) /\ U \subseteq T => U = T
      <3> DEFINE Bad == {T \in SUBSET S : ~Unique(T)}
      <3>1. Bad \in SUBSET SUBSET S /\ Bad # {}
        OBVIOUS
      <3>2. \E T \in Bad : \A U \in Bad : U \subseteq T => U = T
        <4> HIDE DEF Bad
        <4> QED  BY <3>1, SmallestFinite
      <3>3. PICK T \in Bad : \A U \in Bad : U \subseteq T => U = T
        BY <3>2
      <3>4. T \in SUBSET S /\ ~Unique(T)
        OBVIOUS
      <3>5. ASSUME NEW U \in SUBSET S, ~Unique(U), U \subseteq T
            PROVE  U = T
        <4>1. U \in Bad
          BY <3>5
        <4> QED  BY <4>1, <3>3, <3>5
      <3> HIDE DEF Unique, Bad
      <3> QED  BY <3>4, <3>5
    <2>2. T # {}
      <3> SUFFICES ASSUME T = {}  PROVE Unique(T)
        BY <2>1
      <3>1. <<T, base>> \in G
        BY <1>1
      <3>2. ASSUME NEW b \in A, <<T, b>> \in G, b # base
            PROVE  FALSE
        <4>1. Closed(G \ {<<T, b>>})
          <5> HIDE DEF G
          <5> QED  BY <1>1, <3>2
        <4> HIDE DEF G, Closed
        <4> QED  BY <4>1, <1>2, <3>2
      <3> QED  BY <3>1, <3>2
    <2> DEFINE x == c[T]
    <2>3. x \in T /\ T \ {x} \in SUBSET S /\ T \ {x} # T /\ T \ {x} \subseteq T
      BY <2>2
    <2>4. Unique(T \ {x})
      <3> HIDE DEF Unique, x
      <3> QED  BY <2>1, <2>3
    <2>5. PICK a \in A : <<T \ {x}, a>> \in G /\ \A b \in A : <<T \ {x}, b>> \in G => b = a
      BY <2>4
    <2>6. F[<<a, x>>] \in A /\ <<T, F[<<a, x>>]>> \in G
      <3> HIDE DEF G
      <3> QED  BY <1>1, <2>2, <2>3, <2>5
    <2>7. ASSUME NEW b \in A, <<T, b>> \in G, b # F[<<a, x>>]
          PROVE  FALSE
      <3>1. <<{}, base>> \in G \ {<<T, b>>}
        <4> HIDE DEF G
        <4> QED  BY <1>1, <2>2
      <3>2. ASSUME NEW U \in SUBSET S, NEW d \in A, U # {}, <<U \ {c[U]}, d>> \in G \ {<<T, b>>}
            PROVE  <<U, F[<<d, c[U]>>]>> \in G \ {<<T, b>>}
        <4>1. <<U, F[<<d, c[U]>>]>> \in G
          <5> HIDE DEF G
          <5> QED  BY <1>1, <3>2
        <4>2. CASE U = T
          <5>1. d = a
            <6> HIDE DEF G
            <6> QED  BY <2>5, <3>2, <4>2
          <5> HIDE DEF G
          <5> QED  BY <4>1, <4>2, <5>1, <2>7
        <4>3. CASE U # T
          <5> HIDE DEF G
          <5> QED  BY <4>1, <4>3
        <4> QED  BY <4>2, <4>3
      <3>3. Closed(G \ {<<T, b>>})
        <4> HIDE DEF G
        <4> QED  BY <3>1, <3>2
      <3> HIDE DEF G, Closed
      <3> QED  BY <3>3, <1>2, <2>7
    <2> QED
      <3> HIDE DEF G, x
      <3> QED  BY <2>1, <2>6, <2>7
  <1> DEFINE g == [T \in SUBSET S |-> CHOOSE a \in A : <<T, a>> \in G]
  <1>4. \A T \in SUBSET S : g[T] \in A /\ <<T, g[T]>> \in G
    <2> HIDE DEF G
    <2> QED  BY <1>3
  <1>5. ASSUME NEW T \in SUBSET S
        PROVE  g[T] = IF T = {} THEN base ELSE F[<<g[T \ {c[T]}], c[T]>>]
    <2>1. CASE T = {}
      <3> HIDE DEF G, g
      <3> QED  BY <1>1, <1>3, <1>4, <2>1
    <2>2. CASE T # {}
      <3>1. c[T] \in S /\ T \ {c[T]} \in SUBSET S
        BY <2>2
      <3>2. <<T, F[<<g[T \ {c[T]}], c[T]>>]>> \in G /\ F[<<g[T \ {c[T]}], c[T]>>] \in A
        <4> HIDE DEF G, g
        <4> QED  BY <1>1, <1>4, <2>2, <3>1
      <3> HIDE DEF G, g
      <3> QED  BY <3>2, <1>3, <1>4, <2>2
    <2> QED  BY <2>1, <2>2
  <1>6. g \in [SUBSET S -> A]
    <2> HIDE DEF G
    <2> QED  BY <1>4
  <1> HIDE DEF g
  <1> QED  BY <1>5, <1>6

(* There is no second one.                                                 *)
LEMMA FoldUnique ==
  ASSUME NEW S, IsFiniteSet(S), NEW base, NEW F, NEW c, NEW g, NEW h,
         Picks(c, S), IsFold(g, F, base, c, S), IsFold(h, F, base, c, S)
  PROVE  \A T \in SUBSET S : g[T] = h[T]
  <1> USE DEF Picks, IsFold
  <1> DEFINE Bad == {T \in SUBSET S : g[T] # h[T]}
  <1> SUFFICES ASSUME Bad # {}  PROVE FALSE
    OBVIOUS
  <1>1. PICK T \in Bad : \A U \in Bad : U \subseteq T => U = T
    <2>1. Bad \in SUBSET SUBSET S
      OBVIOUS
    <2> HIDE DEF Bad
    <2> QED  BY <2>1, SmallestFinite
  <1>2. T # {} /\ T \ {c[T]} # T /\ T \ {c[T]} \in SUBSET S
    BY <1>1
  <1>3. g[T \ {c[T]}] = h[T \ {c[T]}]
    BY <1>1, <1>2
  <1> QED  BY <1>1, <1>2, <1>3

(* g has the sums of f over the subsets of S.                              *)
IsSum(g, f, S) ==
  \A T \in SUBSET S :
    /\ g[T] = IF T = {} THEN 0 ELSE f[CHOOSE x \in T : TRUE] + g[T \ {CHOOSE x \in T : TRUE}]
    /\ SumFunctionOnSet(f, T) = g[T]

(* SumFunctionOnSet is the function of a fold: element by element, a sum.  *)
LEMMA SumIsFold ==
  ASSUME NEW S, IsFiniteSet(S), NEW f, \A x \in S : f[x] \in Int
  PROVE  \E g \in [SUBSET S -> Int] : IsSum(g, f, S)
  <1> DEFINE F == [z \in Int \X S |-> f[z[2]] + z[1]]
             c == [T \in SUBSET S |-> CHOOSE x \in T : TRUE]
             Def(h, R) == [T \in SUBSET R |->
                          IF T = {} THEN 0
                          ELSE f[CHOOSE x \in T : TRUE] + h[T \ {CHOOSE x \in T : TRUE}]]
  <1>1. /\ \A a \in Int, x \in S : F[<<a, x>>] \in Int
        /\ \A T \in SUBSET S : T # {} => c[T] \in T
        /\ 0 \in Int
    OBVIOUS
  <1>2. PICK g \in [SUBSET S -> Int] : \A T \in SUBSET S :
           g[T] = IF T = {} THEN 0 ELSE F[<<g[T \ {c[T]}], c[T]>>]
    <2> DEFINE A == Int
               z == 0
    <2>1. z \in A /\ Steps(F, S, A) /\ Picks(c, S)
      BY <1>1 DEF Steps, Picks
    <2> HIDE DEF F, c, A, z
    <2>2. \E g \in [SUBSET S -> A] : IsFold(g, F, z, c, S)
      BY <2>1, FoldExists
    <2> QED  BY <2>2 DEF A, z, IsFold
  <1>3. \A T \in SUBSET S : g[T] = IF T = {} THEN 0
          ELSE f[CHOOSE x \in T : TRUE] + g[T \ {CHOOSE x \in T : TRUE}]
    BY <1>2
  <1>4. ASSUME NEW R \in SUBSET S
        PROVE  SumFunctionOnSet(f, R) = g[R]
    <2> DEFINE iter == CHOOSE h : h = Def(h, R)
    <2>1. [T \in SUBSET R |-> g[T]] = Def([T \in SUBSET R |-> g[T]], R)
      BY <1>3
    <2>2. iter = Def(iter, R)
      BY <2>1, Zenon
    <2>3. SumFunctionOnSet(f, R) = iter[R]
      BY DEF SumFunctionOnSet, FoldFunctionOnSet, MapThenFoldSet
    <2>4. \A T \in SUBSET R : iter[T] = IF T = {} THEN 0
          ELSE f[CHOOSE x \in T : TRUE] + iter[T \ {CHOOSE x \in T : TRUE}]
      <3> HIDE DEF iter
      <3> QED  BY <2>2
    <2> HIDE DEF iter
    <2> DEFINE Bad == {T \in SUBSET R : g[T] # iter[T]}
    <2>5. Bad = {}
      <3> SUFFICES ASSUME Bad # {}  PROVE FALSE
        OBVIOUS
      <3>1. PICK T \in Bad : \A U \in Bad : U \subseteq T => U = T
        <4>1. Bad \in SUBSET SUBSET S
          OBVIOUS
        <4> HIDE DEF Bad
        <4> QED  BY <4>1, SmallestFinite
      <3>2. T # {} /\ T \in SUBSET S
        BY <3>1, <1>3, <2>4
      <3> DEFINE x == CHOOSE x \in T : TRUE
      <3>3. x \in T
        BY <3>2
      <3> HIDE DEF x
      <3>4. g[T \ {x}] = iter[T \ {x}]
        BY <3>1, <3>3
      <3>5. g[T] = f[x] + g[T \ {x}] /\ iter[T] = f[x] + iter[T \ {x}]
        BY <1>3, <2>4, <3>2 DEF x
      <3> QED  BY <3>1, <3>4, <3>5
    <2> QED  BY <2>3, <2>5
  <1> QED  BY <1>3, <1>4 DEF IsSum

-----------------------------------------------------------------------------
(* A set of naturals, unless empty, has a least.                           *)
LEMMA LeastOfNat ==
  ASSUME NEW S \in SUBSET Nat, S # {}
  PROVE  \E n \in S : \A m \in S : n <= m
  <1> DEFINE R == OpToRel(<, Nat)
  <1>1. IsWellFoundedOn(R, Nat)
    BY NatLessThanWellFounded
  <1>2. PICK n \in S : \A m \in S : <<m, n>> \notin R
    <2> HIDE DEF R
    <2> QED  BY <1>1, WFMin
  <1>3. \A m \in S : ~(m < n)
    BY <1>2 DEF OpToRel
  <1> QED  BY <1>3

(* What Min returns of a set of naturals.                                  *)
LEMMA MinFacts ==
  ASSUME NEW S \in SUBSET Nat, S # {}
  PROVE  Min(S) \in S /\ Min(S) \in Nat /\ \A x \in S : Min(S) <= x
  BY LeastOfNat DEF Min

(* What Max returns of a bounded set of naturals.                          *)
LEMMA MaxFacts ==
  ASSUME NEW n \in Nat, NEW S \in SUBSET (0..n), S # {}
  PROVE  Max(S) \in S /\ Max(S) \in 0..n /\ \A x \in S : x <= Max(S)
  <1> DEFINE D == {n - x : x \in S}
  <1>1. PICK d \in D : \A e \in D : d <= e
    <2>1. \A x \in S : x \in Nat /\ x <= n
      OBVIOUS
    <2>2. D # {}
      OBVIOUS
    <2>3. D \in SUBSET Nat
      BY <2>1
    <2> HIDE DEF D
    <2> QED  BY <2>2, <2>3, LeastOfNat
  <1>2. PICK x \in S : d = n - x
    BY <1>1
  <1>3. \A y \in S : y <= x
    BY <1>1, <1>2
  <1> QED  BY <1>3 DEF Max

(* A bounded set of naturals is finite.                                    *)
LEMMA FiniteBelow ==
  ASSUME NEW n \in Nat, NEW S \in SUBSET (0..n)
  PROVE  IsFiniteSet(S) /\ Cardinality(S) \in Nat
  <1>1. IsFiniteSet(0..n)
    BY FS_Interval
  <1>2. IsFiniteSet(S)
    BY <1>1, FS_Subset
  <1> QED  BY <1>2, FS_CardinalityType

(* The elements of S before p.                                             *)
Below(S, p) == {q \in S : q < p}

(* Below are the elements of a set that are less than one of it; their     *)
(* number is its place in the ascending order.                             *)
LEMMA BelowFacts ==
  ASSUME NEW n \in Nat, NEW S \in SUBSET (0..n), NEW p \in S
  PROVE  /\ Below(S, p) \in SUBSET (0..n) /\ p \notin Below(S, p)
         /\ IsFiniteSet(Below(S, p)) /\ Cardinality(Below(S, p)) \in Nat
         /\ Cardinality(Below(S, p) \cup {p}) = Cardinality(Below(S, p)) + 1
         /\ Below(S, p) \cup {p} = {q \in S : q <= p}
  <1>0. \A x \in S : x \in Nat
    OBVIOUS
  <1>1. Below(S, p) \in SUBSET (0..n)
    BY DEF Below
  <1>2. p \notin Below(S, p)
    BY <1>0 DEF Below
  <1>3. IsFiniteSet(Below(S, p)) /\ Cardinality(Below(S, p)) \in Nat
    <2> HIDE DEF Below
    <2> QED  BY <1>1, FiniteBelow
  <1>4. Cardinality(Below(S, p) \cup {p}) = Cardinality(Below(S, p)) + 1
    BY <1>2, <1>3, FS_AddElement
  <1>5. Below(S, p) \cup {p} = {q \in S : q <= p}
    <2>1. p \in Nat /\ \A q \in S : (q <= p) <=> (q < p \/ q = p)
      BY <1>0
    <2> QED  BY <2>1 DEF Below
  <1> QED  BY <1>1, <1>2, <1>3, <1>4, <1>5

(* A greater element has a higher place.                                   *)
LEMMA RankIsMonotonic ==
  ASSUME NEW n \in Nat, NEW S \in SUBSET (0..n), NEW p \in S, NEW r \in S, p < r
  PROVE  /\ Cardinality(Below(S, p)) \in Nat /\ Cardinality(Below(S, r)) \in Nat
         /\ Cardinality(Below(S, p)) < Cardinality(Below(S, r))
  <1>1. \A x \in S : x \in Nat
    OBVIOUS
  <1>2. Below(S, p) \cup {p} \in SUBSET Below(S, r)
    <2>1. p \in Nat /\ r \in Nat /\ \A q \in S : q < p => q < r
      BY <1>1
    <2> QED  BY <2>1 DEF Below
  <1>a. IsFiniteSet(Below(S, r))
    BY BelowFacts
  <1>3. Cardinality(Below(S, p) \cup {p}) <= Cardinality(Below(S, r))
    BY <1>2, <1>a, FS_Subset
  <1>4. /\ Cardinality(Below(S, p)) \in Nat
        /\ Cardinality(Below(S, p) \cup {p}) = Cardinality(Below(S, p)) + 1
    BY BelowFacts
  <1>5. Cardinality(Below(S, r)) \in Nat
    BY BelowFacts
  <1> QED  BY <1>3, <1>4, <1>5

(* Every place is taken by an element.                                     *)
LEMMA RankExists ==
  ASSUME NEW n \in Nat, NEW S \in SUBSET (0..n), NEW k \in 1..Cardinality(S)
  PROVE  \E p \in S : Cardinality(Below(S, p)) = k - 1
  <1> DEFINE UpTo(p) == {q \in S : q <= p}
             B == {p \in S : Cardinality(UpTo(p)) >= k}
  <1>0. \A x \in S : x \in Nat
    OBVIOUS
  <1>a. IsFiniteSet(S) /\ Cardinality(S) \in Nat
    BY FiniteBelow
  <1>1. IsFiniteSet(S) /\ Cardinality(S) \in Nat /\ S # {}
    BY <1>a, FS_EmptySet
  <1>2. B # {} /\ B \in SUBSET Nat
    <2>0. Max(S) \in S /\ \A x \in S : x <= Max(S)
      BY <1>1, MaxFacts
    <2>1. Max(S) \in S /\ UpTo(Max(S)) = S
      BY <2>0
    <2>2. Max(S) \in B
      BY <2>1, <1>1
    <2> QED  BY <2>2, <1>0
  <1>3. PICK p \in B : \A q \in B : p <= q
    <2> HIDE DEF B
    <2> QED  BY <1>2, LeastOfNat
  <1>4. Below(S, p) \in SUBSET (0..n) /\ UpTo(p) = Below(S, p) \cup {p}
    <2>1. p \in S
      OBVIOUS
    <2> HIDE DEF B
    <2>2. Below(S, p) \in SUBSET (0..n)
      BY <2>1, BelowFacts
    <2>3. UpTo(p) = Below(S, p) \cup {p}
      <3>1. \A q \in S : q \in Nat /\ p \in Nat /\ ((q <= p) <=> (q < p \/ q = p))
        BY <1>0, <2>1
      <3> QED  BY <2>1, <3>1 DEF Below
    <2> QED  BY <2>2, <2>3
  <1>5. Cardinality(Below(S, p)) \in Nat /\ Cardinality(Below(S, p)) + 1 >= k
    <2>1. Cardinality(UpTo(p)) = Cardinality(Below(S, p)) + 1 /\ Cardinality(Below(S, p)) \in Nat
      BY <1>4, BelowFacts
    <2>2. Cardinality(UpTo(p)) >= k
      BY <1>3
    <2> HIDE DEF UpTo
    <2> QED  BY <2>1, <2>2
  <1>6. ASSUME Cardinality(Below(S, p)) >= k
        PROVE  FALSE
    <2>1. Below(S, p) # {}
      BY <1>6, FS_EmptySet
    <2>2. Max(Below(S, p)) \in Below(S, p) /\ \A x \in Below(S, p) : x <= Max(Below(S, p))
      <3> HIDE DEF B, UpTo
      <3> QED  BY <2>1, <1>4, MaxFacts
    <2> DEFINE m == Max(Below(S, p))
    <2>a. m \in S /\ m < p
      BY <2>2 DEF Below
    <2>b. \A q \in S : (q <= m) <=> (q < p)
      <3>1. \A q \in S : q < p => q <= m
        BY <2>2 DEF Below
      <3>2. p \in Nat /\ m \in Nat
        BY <2>a, <1>0
      <3> HIDE DEF m
      <3> QED  BY <3>1, <3>2, <2>a, <1>0
    <2>3. m \in S /\ m < p /\ UpTo(m) = Below(S, p)
      BY <2>a, <2>b DEF Below
    <2> HIDE DEF m
    <2>4. m \in B
      BY <2>3, <1>6
    <2> QED  BY <2>3, <2>4, <1>3
  <1> QED  BY <1>3, <1>5, <1>6

(* Ascending lists the points of a set, each once, from the lowest on.     *)
LEMMA AscendingFacts ==
  ASSUME NEW n \in Nat, NEW S \in SUBSET (0..n)
  PROVE  /\ Ascending(S) \in Seq(S)
         /\ Len(Ascending(S)) = Cardinality(S) /\ Cardinality(S) \in Nat
         /\ \A p \in S : \E j \in 1..Cardinality(S) : Ascending(S)[j] = p
         /\ \A i, j \in 1..Cardinality(S) : i < j => Ascending(S)[i] < Ascending(S)[j]
  <1>0. \A x \in S : x \in Nat
    OBVIOUS
  <1>1. IsFiniteSet(S) /\ Cardinality(S) \in Nat
    BY FiniteBelow
  <1>2. \A k \in 1..Cardinality(S) : /\ Ascending(S)[k] \in S
                                     /\ Cardinality(Below(S, Ascending(S)[k])) = k - 1
    <2> SUFFICES ASSUME NEW k \in 1..Cardinality(S)
                 PROVE  LET c == CHOOSE p \in S : Cardinality(Below(S, p)) = k - 1
                        IN  c \in S /\ Cardinality(Below(S, c)) = k - 1
      BY DEF Ascending, Below
    <2> QED  BY RankExists
  <1>3. Ascending(S) \in [1..Cardinality(S) -> S]
    BY <1>2 DEF Ascending
  <1>4. \A p \in S : \E j \in 1..Cardinality(S) : Ascending(S)[j] = p
    <2> SUFFICES ASSUME NEW p \in S
                 PROVE  \E j \in 1..Cardinality(S) : Ascending(S)[j] = p
      OBVIOUS
    <2> DEFINE j == Cardinality(Below(S, p)) + 1
    <2>1. j \in 1..Cardinality(S)
      <3>1. Below(S, p) \in SUBSET S /\ p \notin Below(S, p) /\ Below(S, p) # S
        BY DEF Below
      <3> QED  BY <3>1, <1>1, FS_Subset, FS_CardinalityType
    <2>0. Cardinality(Below(S, p)) \in Nat
      BY <1>1, FS_Subset, FS_CardinalityType DEF Below
    <2>2. Ascending(S)[j] \in S /\ Cardinality(Below(S, Ascending(S)[j])) = Cardinality(Below(S, p))
      <3>1. Cardinality(Below(S, Ascending(S)[j])) = j - 1
        <4> HIDE DEF j
        <4> QED  BY <2>1, <1>2
      <3> QED  BY <3>1, <2>0, <2>1, <1>2
    <2>3. Ascending(S)[j] = p
      <3> DEFINE a == Ascending(S)[j]
      <3>1. a \in S /\ a \in Nat /\ p \in Nat /\ Cardinality(Below(S, a)) = Cardinality(Below(S, p))
        BY <2>2, <1>0
      <3> HIDE DEF a
      <3>2. ~(a < p) /\ ~(p < a)
        BY <3>1, RankIsMonotonic
      <3>3. a = p
        BY <3>1, <3>2
      <3> QED  BY <3>3 DEF a
    <2> QED  BY <2>1, <2>3
  <1>5. \A i, j \in 1..Cardinality(S) : i < j => Ascending(S)[i] < Ascending(S)[j]
    <2> SUFFICES ASSUME NEW i \in 1..Cardinality(S), NEW j \in 1..Cardinality(S), i < j,
                        ~(Ascending(S)[i] < Ascending(S)[j])
                 PROVE  FALSE
      OBVIOUS
    <2> DEFINE a == Ascending(S)[i]
               b == Ascending(S)[j]
    <2>1. a \in S /\ b \in S /\ Cardinality(Below(S, a)) = i - 1 /\ Cardinality(Below(S, b)) = j - 1
      BY <1>2
    <2>2. a # b /\ b < a
      <3>1. i - 1 # j - 1
        OBVIOUS
      <3>2. a # b
        BY <2>1, <3>1
      <3>3. a \in Nat /\ b \in Nat /\ ~(a < b)
        BY <2>1, <1>0
      <3> HIDE DEF a, b
      <3> QED  BY <3>2, <3>3
    <2> HIDE DEF a, b
    <2>3. Cardinality(Below(S, b)) < Cardinality(Below(S, a))
      BY <2>1, <2>2, RankIsMonotonic
    <2> QED  BY <2>1, <2>3
  <1> QED  BY <1>1, <1>3, <1>4, <1>5

(* Of nothing, Ascending lists nothing.                                    *)
LEMMA AscendingEmpty == Ascending({}) = <<>>
  BY FS_EmptySet DEF Ascending

-----------------------------------------------------------------------------
(* The sum over nothing is 0.                                              *)
LEMMA SumEmpty == \A f : SumFunctionOnSet(f, {}) = 0
  <1> SUFFICES ASSUME NEW f  PROVE SumFunctionOnSet(f, {}) = 0
    OBVIOUS
  <1> DEFINE S == {}
  <1>1. IsFiniteSet(S) /\ \A x \in S : f[x] \in Int
    BY FS_EmptySet
  <1>2. S = {} /\ S \in SUBSET S
    OBVIOUS
  <1> HIDE DEF S
  <1>3. SumFunctionOnSet(f, S) = 0
    <2>1. PICK g \in [SUBSET S -> Int] : IsSum(g, f, S)
      BY <1>1, SumIsFold
    <2> QED  BY <2>1, <1>2 DEF IsSum
  <1> QED  BY <1>2, <1>3

(* Any element may be taken off first.                                     *)
LEMMA SumStep ==
  ASSUME NEW S, IsFiniteSet(S), NEW f, \A x \in S : f[x] \in Int, NEW x \in S
  PROVE  /\ SumFunctionOnSet(f, S) \in Int /\ SumFunctionOnSet(f, S \ {x}) \in Int
         /\ SumFunctionOnSet(f, S) = f[x] + SumFunctionOnSet(f, S \ {x})
  <1>0. PICK g \in [SUBSET S -> Int] : IsSum(g, f, S)
    BY SumIsFold
  <1>1. /\ \A T \in SUBSET S :
             g[T] = IF T = {} THEN 0 ELSE f[CHOOSE y \in T : TRUE] + g[T \ {CHOOSE y \in T : TRUE}]
        /\ \A T \in SUBSET S : SumFunctionOnSet(f, T) = g[T]
    BY <1>0 DEF IsSum
  <1> DEFINE Bad == {T \in SUBSET S : \E y \in T : g[T] # f[y] + g[T \ {y}]}
  <1>2. Bad = {}
    <2> SUFFICES ASSUME Bad # {}  PROVE FALSE
      OBVIOUS
    <2>1. PICK T \in Bad : \A U \in Bad : U \subseteq T => U = T
      <3>1. Bad \in SUBSET SUBSET S
        OBVIOUS
      <3> HIDE DEF Bad
      <3> QED  BY <3>1, SmallestFinite
    <2>2. PICK y \in T : g[T] # f[y] + g[T \ {y}]
      OBVIOUS
    <2> DEFINE c == CHOOSE z \in T : TRUE
    <2>3. c \in T /\ T \in SUBSET S
      OBVIOUS
    <2>4. g[T] = f[c] + g[T \ {c}]
      BY <1>1, <2>3
    <2> HIDE DEF c
    <2>5. c # y
      BY <2>2, <2>4
    <2>6. T \ {c} \notin Bad /\ T \ {y} \notin Bad
      <3> HIDE DEF Bad
      <3> QED  BY <2>1, <2>2, <2>3
    <2>7. T \ {c} \in SUBSET S /\ y \in T \ {c} /\ T \ {y} \in SUBSET S /\ c \in T \ {y}
      BY <2>2, <2>3, <2>5
    <2>8. g[T \ {c}] = f[y] + g[(T \ {c}) \ {y}] /\ g[T \ {y}] = f[c] + g[(T \ {y}) \ {c}]
      BY <2>6, <2>7
    <2>9. (T \ {c}) \ {y} = (T \ {y}) \ {c}
      OBVIOUS
    <2>10. f[y] \in Int /\ f[c] \in Int /\ g[(T \ {c}) \ {y}] \in Int
      BY <2>2, <2>3
    <2> DEFINE r == g[(T \ {c}) \ {y}]
               a == f[y]
               b == f[c]
    <2>11. a \in Int /\ b \in Int /\ r \in Int /\ g[T] = b + (a + r) /\ g[T \ {y}] = b + r
      BY <2>4, <2>8, <2>9, <2>10
    <2>12. g[T] # a + g[T \ {y}]
      BY <2>2
    <2> HIDE DEF Bad, r, a, b
    <2> QED  BY <2>11, <2>12
  <1>3. S \in SUBSET S /\ S \ {x} \in SUBSET S
    OBVIOUS
  <1>4. g[S] = f[x] + g[S \ {x}]
    BY <1>2, <1>3
  <1>5. g[S] \in Int /\ g[S \ {x}] \in Int /\ SumFunctionOnSet(f, S) = g[S]
        /\ SumFunctionOnSet(f, S \ {x}) = g[S \ {x}]
    BY <1>1, <1>3
  <1> QED  BY <1>4, <1>5

(* A sum of integers is one, and of naturals a natural.                    *)
LEMMA SumType ==
  ASSUME NEW S, IsFiniteSet(S), NEW f, \A x \in S : f[x] \in Int
  PROVE  SumFunctionOnSet(f, S) \in Int
  <1>1. CASE S = {}
    BY <1>1, SumEmpty
  <1>2. CASE S # {}
    BY <1>2, SumStep
  <1> QED  BY <1>1, <1>2

(* What holds of sums: the sum of what is taken off, point by point, is    *)
(* taken off the sum.                                                      *)
LEMMA SumLinear ==
  ASSUME NEW S, IsFiniteSet(S), NEW f, NEW g, NEW h,
         \A x \in S : f[x] \in Int /\ g[x] \in Int /\ h[x] = f[x] - g[x]
  PROVE  SumFunctionOnSet(h, S) = SumFunctionOnSet(f, S) - SumFunctionOnSet(g, S)
  <1> DEFINE Good(T) == SumFunctionOnSet(h, T) = SumFunctionOnSet(f, T) - SumFunctionOnSet(g, T)
             Bad == {T \in SUBSET S : ~Good(T)}
  <1>1. Bad = {}
    <2> SUFFICES ASSUME Bad # {}  PROVE FALSE
      OBVIOUS
    <2>1. PICK T \in Bad : \A U \in Bad : U \subseteq T => U = T
      <3>1. Bad \in SUBSET SUBSET S
        OBVIOUS
      <3> HIDE DEF Bad
      <3> QED  BY <3>1, SmallestFinite
    <2>2. T \in SUBSET S /\ ~Good(T)
      OBVIOUS
    <2>3. T # {}
      <3> HIDE DEF Bad
      <3>1. SumFunctionOnSet(f, {}) = 0 /\ SumFunctionOnSet(g, {}) = 0 /\ SumFunctionOnSet(h, {}) = 0
        BY SumEmpty
      <3>2. Good({})
        BY <3>1
      <3> HIDE DEF Good
      <3> QED  BY <2>2, <3>2
    <2>4. PICK x \in T : TRUE
      BY <2>3
    <2>5. Good(T \ {x})
      <3>1. T \ {x} \in SUBSET S /\ T \ {x} \subseteq T /\ T \ {x} # T
        BY <2>2, <2>4
      <3>2. T \ {x} \notin Bad
        <4> HIDE DEF Bad
        <4> QED  BY <2>1, <3>1
      <3> HIDE DEF Good
      <3> QED  BY <3>1, <3>2
    <2>6. IsFiniteSet(T) /\ \A y \in T : f[y] \in Int /\ g[y] \in Int /\ h[y] \in Int /\ h[y] = f[y] - g[y]
      BY <2>2, FS_Subset
    <2> HIDE DEF Bad
    <2>7. /\ SumFunctionOnSet(f, T \ {x}) \in Int
          /\ SumFunctionOnSet(f, T) = f[x] + SumFunctionOnSet(f, T \ {x})
      BY <2>6, <2>4, SumStep
    <2>8. /\ SumFunctionOnSet(g, T \ {x}) \in Int
          /\ SumFunctionOnSet(g, T) = g[x] + SumFunctionOnSet(g, T \ {x})
      BY <2>6, <2>4, SumStep
    <2>9. /\ SumFunctionOnSet(h, T \ {x}) \in Int
          /\ SumFunctionOnSet(h, T) = h[x] + SumFunctionOnSet(h, T \ {x})
      BY <2>6, <2>4, SumStep
    <2>10. f[x] \in Int /\ g[x] \in Int /\ h[x] = f[x] - g[x]
      BY <2>6
    <2>11. Good(T)
      BY <2>5, <2>7, <2>8, <2>9, <2>10
    <2> QED  BY <2>2, <2>11
  <1>2. S \notin Bad /\ S \in SUBSET S
    BY <1>1
  <1> QED  BY <1>2

(* A sum of naturals is a natural.                                         *)
LEMMA SumNatural ==
  ASSUME NEW S, IsFiniteSet(S), NEW f, \A x \in S : f[x] \in Nat
  PROVE  SumFunctionOnSet(f, S) \in Nat
  <1> DEFINE Bad == {T \in SUBSET S : SumFunctionOnSet(f, T) \notin Nat}
  <1>1. Bad = {}
    <2> SUFFICES ASSUME Bad # {}  PROVE FALSE
      OBVIOUS
    <2>1. PICK T \in Bad : \A U \in Bad : U \subseteq T => U = T
      <3>1. Bad \in SUBSET SUBSET S
        OBVIOUS
      <3> HIDE DEF Bad
      <3> QED  BY <3>1, SmallestFinite
    <2>2. T \in SUBSET S /\ SumFunctionOnSet(f, T) \notin Nat
      OBVIOUS
    <2>3. PICK x \in T : TRUE
      BY <2>2, SumEmpty
    <2>4. SumFunctionOnSet(f, T \ {x}) \in Nat
      BY <2>1, <2>2, <2>3
    <2>5. IsFiniteSet(T) /\ \A y \in T : f[y] \in Int
      BY <2>2, FS_Subset
    <2>6. SumFunctionOnSet(f, T) = f[x] + SumFunctionOnSet(f, T \ {x}) /\ f[x] \in Nat
      BY <2>2, <2>3, <2>5, SumStep
    <2> HIDE DEF Bad
    <2> QED  BY <2>2, <2>4, <2>6
  <1>2. S \notin Bad /\ S \in SUBSET S
    BY <1>1
  <1> QED  BY <1>2

-----------------------------------------------------------------------------
(* What is needed of the points: they are the naturals up to the red       *)
(* joker, the jokers among them.                                           *)
LEMMA PointFacts ==
  /\ RED_JOKER \in Nat /\ BLACK_JOKER \in Nat /\ Two \in Nat /\ LastChain \in Nat
  /\ Point = 0..RED_JOKER /\ Jokers \in SUBSET Point /\ Jokers # {} /\ 0 \in Point
  /\ IsFiniteSet(Point) /\ \A p \in Point : p \in Nat
  BY HandAssumption, FS_Interval DEF RED_JOKER, BLACK_JOKER, Two, Point, Jokers

(* Any set of points is finite, and Ascending lists it.                    *)
LEMMA AscendingOfPoints ==
  ASSUME NEW S \in SUBSET Point
  PROVE  /\ IsFiniteSet(S) /\ Cardinality(S) \in Nat /\ (Cardinality(S) = 0 <=> S = {})
         /\ Ascending(S) \in Seq(Point) /\ Len(Ascending(S)) = Cardinality(S)
  <1>1. IsFiniteSet(S)
    BY PointFacts, FS_Subset
  <1>2. Cardinality(S) \in Nat /\ (Cardinality(S) = 0 <=> S = {})
    BY <1>1, FS_CardinalityType, FS_EmptySet
  <1>3. Ascending(S) \in Seq(S) /\ Len(Ascending(S)) = Cardinality(S)
    BY PointFacts, AscendingFacts
  <1> QED  BY <1>1, <1>2, <1>3

(* HandOf makes a hand of points.                                          *)
LEMMA HandOfIsHand ==
  ASSUME NEW type \in HandType, NEW body \in SUBSET Point, body # {},
         NEW kickers \in SUBSET Point
  PROVE  HandOf(type, body, kickers) \in Hand
  <1>1. Min(body) \in Point
    BY PointFacts, MinFacts
  <1>2. Cardinality(body) \in Nat /\ Ascending(kickers) \in Seq(Point)
    BY AscendingOfPoints
  <1> QED  BY <1>1, <1>2 DEF HandOf, Hand

(* No hand is a hand as well, of the type NOTHING.                         *)
LEMMA NothingIsHand == NothingHand \in Hand
  BY PointFacts DEF NothingHand, Hand, HandType

(* Whatever the cards, getHand returns a hand.                             *)
THEOREM GetHandIsHand ==
  ASSUME NEW points
  PROVE  getHand(points) \in Hand
  <1> DEFINE solo == sortedCard(points, 1)
             pair == sortedCard(points, 2)
             trio == sortedCard(points, 3)
             four == sortedCard(points, 4)
             s == Cardinality(solo)
             d == Cardinality(pair)
             t == Cardinality(trio)
             f == Cardinality(four)
  <1>1. /\ solo \in SUBSET Point /\ pair \in SUBSET Point
        /\ trio \in SUBSET Point /\ four \in SUBSET Point
    BY DEF sortedCard
  <1> HIDE DEF solo, pair, trio, four
  <1>2. /\ s \in Nat /\ (s = 0 <=> solo = {}) /\ d \in Nat /\ (d = 0 <=> pair = {})
        /\ t \in Nat /\ (t = 0 <=> trio = {}) /\ f \in Nat /\ (f = 0 <=> four = {})
    BY <1>1, AscendingOfPoints
  <1>3. \A type \in HandType : \A k \in {{}, solo, pair} :
          /\ HandOf(type, Jokers, k) \in Hand
          /\ s > 0 => HandOf(type, solo, k) \in Hand
          /\ d > 0 => HandOf(type, pair, k) \in Hand
          /\ t > 0 => HandOf(type, trio, k) \in Hand
          /\ f > 0 => HandOf(type, four, k) \in Hand
    <2> SUFFICES ASSUME NEW type \in HandType, NEW k \in {{}, solo, pair}
                 PROVE  /\ HandOf(type, Jokers, k) \in Hand
                        /\ s > 0 => HandOf(type, solo, k) \in Hand
                        /\ d > 0 => HandOf(type, pair, k) \in Hand
                        /\ t > 0 => HandOf(type, trio, k) \in Hand
                        /\ f > 0 => HandOf(type, four, k) \in Hand
      OBVIOUS
    <2>1. k \in SUBSET Point
      BY <1>1
    <2> QED  BY <1>1, <1>2, <2>1, PointFacts, HandOfIsHand
  <1> HIDE DEF s, d, t, f
  <1>4. /\ ChainTypes \subseteq HandType
        /\ {"TRIO_PAIR", "TRIO_SOLO", "TRIO", "PAIR", "SOLO",
            "FOUR_DUAL_PAIR", "FOUR_DUAL_SOLO", "BOMB", "NUKE"} \subseteq HandType
    BY DEF HandType
  <1> QED  BY <1>2, <1>3, <1>4, NothingIsHand DEF getHand, solo, pair, trio, four, s, d, t, f, ChainTypes

(* Each point occurs at most four times in a hand, whatever the hand is.   *)
LEMMA PointsOfAHand ==
  ASSUME NEW hand
  PROVE  handToPointsArray(hand) \in [Point -> 0..4]
  <1>1. BodyWidth(hand.type) \in 0..4
    BY DEF BodyWidth
  <1>2. KickerWidth(hand.type) \in 0..4
    BY DEF KickerWidth
  <1> QED  BY <1>1, <1>2 DEF handToPointsArray

(* isHandHigherThan orders hands strictly: no hand is higher than itself,  *)
(* and a trick, in which every hand is higher than the one before, never   *)
(* gets back to a hand it has seen. RbtOutGetTakeOutCard passes when its   *)
(* choice is not higher, which relies on this.                             *)
THEOREM HigherIsStrict ==
  \A h0, h1 \in Hand : isHandHigherThan(h0, h1) => ~isHandHigherThan(h1, h0)
  BY DEF isHandHigherThan, Hand, Point

(* A hand higher than a higher hand is higher: what isHandHigherThan finds *)
(* a robot need not compare with the hands before.                         *)
THEOREM HigherIsTransitive ==
  \A h0, h1, h2 \in Hand :
    isHandHigherThan(h0, h1) /\ isHandHigherThan(h1, h2) => isHandHigherThan(h0, h2)
  BY DEF isHandHigherThan, Hand, Point
=============================================================================
