--------------------------- MODULE CardTableProofs ---------------------------
(***************************************************************************)
(* Theorems of CardTable, for tables that tell the robot of a refusal      *)
(* once and before the cards the system plays.                             *)
(*                                                                         *)
(* What the robot believes is compared with what the table holds across    *)
(* the messages under way. The invariant says that there is a trace: one   *)
(* view of the game for each message the robot has not read, the first is  *)
(* what the robot should believe now, the last is the table, and each      *)
(* message leads from one view to the next.                                *)
(***************************************************************************)
EXTENDS CardTable, FiniteSetTheorems, SequenceTheorems, TLAPS

(* The tables of the theorems; the run checks the same ones.               *)
ToldOnce == Refusal \subseteq {"ack", "trust"}

-----------------------------------------------------------------------------
(* Views                                                                   *)
AllOf(hand)    == UNION {hand[s] : s \in Seats}
OthersOf(hand) == UNION {hand[s] : s \in Others}

Phases == {"idle",   \* no game
           "back",   \* the robot does not know its cards yet
           "dealt",  \* the base cards are not announced
           "play",
           "over"}   \* the last cards are played, the result is not told

View == [hand  : [Seats -> SUBSET Cards],
         out   : [Cards -> 0..1],      \* cards the robot took out that are not played
         phase : Phases,
         lord  : Seats \cup {NoSeat},
         base  : SUBSET Cards]         \* cards counted as the others' that are not

Sound(v) ==
  /\ v \in View
  /\ \A s, t \in Seats : s # t => v.hand[s] \cap v.hand[t] = {}
  /\ \A c \in Cards : v.out[c] <= Bag(v.hand[Me])[c]
  /\ v.base \cap OthersOf(v.hand) = {}

(* The messages to the robot.                                              *)
Message ==
  [type : {"deal"}, cards : SUBSET Cards]
  \cup [type : {"base"}, lord : Seats, cards : SUBSET Cards]
  \cup [type : {"takeout"}, seat : Seats, next : Seats \cup {NoSeat}, cards : SUBSET Cards]
  \cup [type : {"ack"}, ok : BOOLEAN]
  \cup [type : {"trust", "result"}]
  \cup [type : {"keep"}, cards : SUBSET Cards, lord : Seats \cup {NoSeat}]

(* How a message leads from view a to view b, for a robot whose            *)
(* vecLastTakeOutCards is last.                                            *)
DealLink(m, a, b) ==
  /\ m.cards = b.hand[Me]
  /\ \A s \in Seats : Cardinality(b.hand[s]) = HandSize
  /\ AllOf(b.hand) \cup b.base = Cards /\ b.base \cap AllOf(b.hand) = {}
  /\ Cardinality(b.base) = BaseSize
  /\ b.phase = "dealt" /\ b.out = NoCards

BaseLink(m, a, b) ==
  /\ a.phase = "dealt" /\ a.out = NoCards
  /\ m.cards = a.base /\ Cardinality(a.base) = BaseSize
  /\ a.base \cap AllOf(a.hand) = {}
  /\ \A s \in Seats : Cardinality(a.hand[s]) = HandSize
  /\ b.hand = [a.hand EXCEPT ![m.lord] = @ \cup a.base]
  /\ b.phase = "play" /\ b.out = NoCards /\ b.lord = m.lord
  /\ b.base = IF m.lord = Me THEN a.base ELSE {}

TakeOutLink(m, a, b, last) ==
  /\ a.phase = "play"
  /\ m.cards \subseteq a.hand[m.seat]
  /\ b.hand = [a.hand EXCEPT ![m.seat] = @ \ m.cards]
  /\ b.phase = IF m.next = NoSeat THEN "over" ELSE "play"
  /\ b.lord = a.lord /\ b.base = a.base
  /\ IF m.seat = Me
     THEN a.out = (IF last = Bag(m.cards) THEN last ELSE NoCards) /\ b.out = NoCards
     ELSE b.out = a.out

(* The robot puts the cards it took out back.                              *)
RecoveryLink(a, b, last) ==
  a.phase = "play" /\ a.out = last /\ b = [a EXCEPT !.out = NoCards]

Link(m, a, b, last) ==
  \/ m.type = "deal" /\ DealLink(m, a, b)
  \/ m.type = "base" /\ BaseLink(m, a, b)
  \/ m.type = "takeout" /\ TakeOutLink(m, a, b, last)
  \/ m.type = "ack" /\ ~m.ok /\ RecoveryLink(a, b, last)
  \/ m.type = "ack" /\ m.ok /\ a.phase = "play" /\ b = a
  \/ m.type = "trust" /\ RecoveryLink(a, b, last)
  \/ m.type = "result" /\ a.phase = "over" /\ b.phase = "idle"
  \/ /\ m.type = "keep" /\ m.cards = b.hand[Me]
     /\ b.phase = "play" /\ b.out = NoCards /\ last = NoCards

(* The message that gives the turn to the robot, and the last one of a     *)
(* game: nothing follows them before the robot read them.                  *)
TurnNotice(m) ==
  \/ m.type = "base" /\ m.lord = Me
  \/ m.type = "takeout" /\ m.next = Me
Closing(m) == TurnNotice(m) \/ m.type = "result"

Trace(q, a, b, last) ==
  \E f : /\ f[1] = a /\ f[Len(q) + 1] = b
         /\ \A i \in 1..(Len(q) + 1) : Sound(f[i])
         /\ \A i \in 1..Len(q) :
              /\ Link(q[i], f[i], f[i + 1], last)
              /\ i < Len(q) => ~Closing(q[i])

-----------------------------------------------------------------------------
(* The invariant                                                           *)

(* Cards of the robot that are neither back in aiCardsVec nor played.      *)
Pending == delayed # {} \/ toServer # <<>> \/ (refused # NoRefusal /\ policy = "trust")

IsTable(v) ==
  /\ v.hand = hands /\ v.lord = lord
  /\ v.phase = IF turn = NoSeat THEN "idle" ELSE "play"
  /\ v.out = IF Pending THEN lastTakeOut ELSE NoCards

(* The cards not played yet.                                               *)
Unplayed(v) == AllOf(v.hand) \cup (IF v.phase = "dealt" THEN v.base ELSE {})

Counted(v) ==
  /\ \A s \in Seats : total[s] = Cardinality(v.hand[s])
  /\ remainPoints = PointsOf(Unplayed(v))
  /\ otherPoints = PointsOf(OthersOf(v.hand) \cup v.base)
  /\ IF v.phase = "dealt" \/ v.lord = Me THEN Cardinality(v.base) = BaseSize ELSE v.base = {}

(* The robot believes view v.                                              *)
Believes(v) ==
  v.phase \in {"dealt", "play"} =>
    /\ aiCardsVec = Bag(v.hand[Me]) (-) v.out
    /\ points = PointsOf(v.hand[Me])
    /\ \A p \in Points : PointsOf(Unplayed(v))[p] <= remainPoints[p]
    /\ ~rejoined => Counted(v)

(* The robot owes the table an answer, which is waiting or under way.      *)
Answering ==
  /\ turn = Me /\ ~excused /\ refused = NoRefusal /\ toRobot = <<>>
  /\ \/ delayed = {lastTakeOut} /\ toServer = <<>>
     \/ delayed = {} /\ toServer = <<lastTakeOut>>

Turns ==
  /\ delayed # {} \/ toServer # <<>> => Answering
  /\ refused # NoRefusal => turn = Me /\ excused /\ refused = lastTakeOut
  /\ excused /\ refused = NoRefusal => lastTakeOut = NoCards
  /\ away => /\ toRobot = <<>> /\ toServer = <<>> /\ delayed = {}
             /\ lastTakeOut = NoCards /\ refused = NoRefusal
  /\ toRobot # <<>> /\ TurnNotice(toRobot[Len(toRobot)]) =>
       turn = Me /\ ~excused /\ refused = NoRefusal
  /\ policy \in Refusal

Agreed ==
  \E a, b : /\ Trace(toRobot, a, b, lastTakeOut) /\ IsTable(b)
            /\ ~away => Believes(a)

Typed ==
  /\ TypeOK
  /\ toRobot \in Seq(Message)

IInv == Typed /\ Turns /\ Agreed

-----------------------------------------------------------------------------
(* Cards and points                                                        *)

(* The deck is finite.                                                     *)
LEMMA CardsFinite == IsFiniteSet(Cards) /\ Cardinality(Cards) = NumCards
<1>1. NumCards \in Nat /\ 0 \in Int /\ NumCards - 1 \in Int
  BY TableAssumption
<1>2. QED
  BY <1>1, FS_Interval DEF Cards

(* Every card has a point.                                                 *)
LEMMA PointOfCard == \A c \in Cards : cardToPoint(c) \in Points
<1>1. NumPoints \in Nat \ {0} /\ NumCards \in Nat
  BY TableAssumption
<1>2. QED
  BY <1>1 DEF Cards, Points, cardToPoint

(* The points of a set of cards are numbers.                               *)
LEMMA PointsTyped == \A S \in SUBSET Cards : PointsOf(S) \in [Points -> Nat]
<1> SUFFICES ASSUME NEW S \in SUBSET Cards, NEW p \in Points
             PROVE  Cardinality({c \in S : cardToPoint(c) = p}) \in Nat
  BY DEF PointsOf
<1>1. {c \in S : cardToPoint(c) = p} \in SUBSET Cards
  OBVIOUS
<1>2. QED
  BY <1>1, CardsFinite, FS_Subset, FS_CardinalityType

(* The points of disjoint sets of cards add up.                            *)
LEMMA PointsUnion ==
  ASSUME NEW S \in SUBSET Cards, NEW T \in SUBSET Cards, S \cap T = {}
  PROVE  PointsOf(S \cup T) = PointsOf(S) (+) PointsOf(T)
<1> DEFINE at(X, p) == {c \in X : cardToPoint(c) = p}
<1>1. ASSUME NEW p \in Points
      PROVE  Cardinality(at(S \cup T, p)) = Cardinality(at(S, p)) + Cardinality(at(T, p))
  <2>1. at(S, p) \in SUBSET Cards /\ at(T, p) \in SUBSET Cards
    OBVIOUS
  <2>2. at(S \cup T, p) = at(S, p) \cup at(T, p) /\ at(S, p) \cap at(T, p) = {}
    OBVIOUS
  <2>3. IsFiniteSet(at(S, p)) /\ IsFiniteSet(at(T, p))
    BY <2>1, CardsFinite, FS_Subset
  <2>4. Cardinality(at(S, p)) \in Nat /\ Cardinality(at(T, p)) \in Nat
    BY <2>3, FS_CardinalityType
  <2> HIDE DEF at
  <2>5. Cardinality(at(S, p) \cup at(T, p))
          = Cardinality(at(S, p)) + Cardinality(at(T, p)) - Cardinality(at(S, p) \cap at(T, p))
    BY <2>3, FS_Union
  <2>6. Cardinality(at(S, p) \cap at(T, p)) = 0
    BY <2>2, FS_EmptySet
  <2>7. Cardinality(at(S, p) \cup at(T, p)) = Cardinality(at(S, p)) + Cardinality(at(T, p))
    BY <2>4, <2>5, <2>6
  <2>8. QED
    BY <2>2, <2>7
<1>2. QED
  BY <1>1 DEF PointsOf, (+)

(* The points of cards that are taken away are subtracted.                 *)
LEMMA PointsDifference ==
  ASSUME NEW S \in SUBSET Cards, NEW T \in SUBSET S
  PROVE  PointsOf(S \ T) = PointsOf(S) (-) PointsOf(T)
<1>1. PointsOf((S \ T) \cup T) = PointsOf(S \ T) (+) PointsOf(T)
  <2>1. S \ T \in SUBSET Cards /\ T \in SUBSET Cards /\ (S \ T) \cap T = {}
    OBVIOUS
  <2>2. QED
    BY <2>1, PointsUnion
<1>2. (S \ T) \cup T = S
  OBVIOUS
<1>3. /\ PointsOf(S) \in [Points -> Nat] /\ PointsOf(T) \in [Points -> Nat]
      /\ PointsOf(S \ T) \in [Points -> Nat]
  BY PointsTyped
<1> DEFINE s == PointsOf(S)
           t == PointsOf(T)
           d == PointsOf(S \ T)
<1>4. s = d (+) t
  BY <1>1, <1>2
<1>5. s \in [Points -> Nat] /\ t \in [Points -> Nat] /\ d \in [Points -> Nat]
  BY <1>3
<1> HIDE DEF s, t, d
<1>6. d = s (-) t
  BY <1>4, <1>5 DEF (+), (-)
<1>7. QED
  BY <1>6 DEF s, t, d

(* Fewer cards have fewer points.                                          *)
LEMMA PointsMonotone ==
  ASSUME NEW S \in SUBSET Cards, NEW T \in SUBSET S, NEW p \in Points
  PROVE  PointsOf(T)[p] <= PointsOf(S)[p]
<1> DEFINE at(X) == {c \in X : cardToPoint(c) = p}
<1>1. at(S) \in SUBSET Cards /\ at(T) \in SUBSET at(S)
  OBVIOUS
<1>2. IsFiniteSet(at(S))
  BY <1>1, CardsFinite, FS_Subset
<1>3. Cardinality(at(T)) <= Cardinality(at(S))
  BY <1>1, <1>2, FS_Subset
<1>4. QED
  BY <1>3 DEF PointsOf

(* The counters of a new game are the points of all cards.                 *)
LEMMA DeckIsPoints == Deck = PointsOf(Cards)
  BY DEF Deck, PointsOf

(* Subsets of the deck are finite.                                         *)
LEMMA CardSets ==
  ASSUME NEW S \in SUBSET Cards
  PROVE  /\ IsFiniteSet(S) /\ Cardinality(S) \in Nat
         /\ \A T \in SUBSET S : Cardinality(S \ T) = Cardinality(S) - Cardinality(T)
         /\ \A T \in SUBSET Cards :
              S \cap T = {} => Cardinality(S \cup T) = Cardinality(S) + Cardinality(T)
<1>1. IsFiniteSet(S) /\ Cardinality(S) \in Nat
  BY CardsFinite, FS_Subset, FS_CardinalityType
<1>2. ASSUME NEW T \in SUBSET S PROVE Cardinality(S \ T) = Cardinality(S) - Cardinality(T)
  <2>1. Cardinality(S \ T) = Cardinality(S) - Cardinality(S \cap T)
    BY <1>1, FS_Difference
  <2>2. S \cap T = T
    OBVIOUS
  <2>3. QED
    BY <2>1, <2>2
<1>3. ASSUME NEW T \in SUBSET Cards, S \cap T = {}
      PROVE  Cardinality(S \cup T) = Cardinality(S) + Cardinality(T)
  <2>1. IsFiniteSet(T) /\ Cardinality(T) \in Nat
    BY CardsFinite, FS_Subset, FS_CardinalityType
  <2>2. Cardinality(S \cup T) = Cardinality(S) + Cardinality(T) - Cardinality(S \cap T)
    BY <1>1, <2>1, FS_Union
  <2>3. Cardinality(S \cap T) = 0
    BY <1>3, FS_EmptySet
  <2>4. QED
    BY <1>1, <2>1, <2>2, <2>3
<1>4. QED
  BY <1>1, <1>2, <1>3

(* takeOutHand finds no card that is not there.                            *)
LEMMA FoundIsThere ==
  ASSUME NEW vec \in [Cards -> 0..1], NEW h \in Hands
  PROVE  /\ Found(vec, h) \in [Cards -> 0..1]
         /\ \A c \in Cards : Found(vec, h)[c] <= vec[c]
<1>1. ASSUME NEW c \in Cards PROVE h[cardToPoint(c)] - CountBelow(vec, c) \in Int
  <2>1. h[cardToPoint(c)] \in Int
    <3>1. NumCards \in Nat /\ HandSize \in Nat /\ h \in [Points -> 0..(HandSize + BaseSize)]
      BY TableAssumption DEF Hands
    <3>2. QED
      BY <3>1, PointOfCard
  <2>2. CountBelow(vec, c) \in Int
    <3>1. NumCards \in Nat /\ NumPoints \in Nat
      BY TableAssumption
    <3> DEFINE at(d) == IF d >= 0 THEN vec[d] ELSE 0
    <3>2. at(c - NumPoints) \in Int /\ at(c - 2 * NumPoints) \in Int /\ at(c - 3 * NumPoints) \in Int
      BY <3>1 DEF Cards
    <3>3. CountBelow(vec, c) = at(c - NumPoints) + at(c - 2 * NumPoints) + at(c - 3 * NumPoints)
      BY DEF CountBelow
    <3> HIDE DEF at
    <3>4. QED
      BY <3>2, <3>3
  <2> HIDE DEF cardToPoint
  <2>3. QED
    BY <2>1, <2>2
<1> DEFINE left(c) == h[cardToPoint(c)] - CountBelow(vec, c)
<1>2. Found(vec, h) = [c \in Cards |-> IF left(c) < 0 THEN 0 ELSE IF left(c) < vec[c] THEN left(c) ELSE vec[c]]
  BY DEF Found
<1>3. \A c \in Cards : left(c) \in Int
  BY <1>1
<1> HIDE DEF left
<1>4. QED
  BY <1>2, <1>3

-----------------------------------------------------------------------------
(* Traces                                                                  *)

(* With no message under way the robot's view is the table's.              *)
LEMMA EmptyTrace ==
  ASSUME NEW a, NEW b, NEW last
  PROVE  Trace(<<>>, a, b, last) <=> a = b /\ Sound(a)
<1>1. Len(<<>>) = 0
  OBVIOUS
<1>2. ASSUME Trace(<<>>, a, b, last) PROVE a = b /\ Sound(a)
  <2>1. PICK f : /\ f[1] = a /\ f[Len(<<>>) + 1] = b
                 /\ \A i \in 1..(Len(<<>>) + 1) : Sound(f[i])
    BY <1>2 DEF Trace
  <2>2. f[0 + 1] = b /\ 1 \in 1..(0 + 1)
    BY <1>1, <2>1
  <2>3. QED
    BY <1>1, <2>1, <2>2
<1>3. ASSUME a = b, Sound(a) PROVE Trace(<<>>, a, b, last)
  <2> DEFINE f == [i \in {1} |-> a]
  <2>1. f[1] = a /\ f[Len(<<>>) + 1] = b
    BY <1>1, <1>3
  <2>2. \A i \in 1..(Len(<<>>) + 1) : Sound(f[i])
    BY <1>1, <1>3
  <2>3. \A i \in 1..Len(<<>>) : /\ Link(<<>>[i], f[i], f[i + 1], last)
                                /\ i < Len(<<>>) => ~Closing(<<>>[i])
    BY <1>1
  <2>4. QED
    BY <2>1, <2>2, <2>3 DEF Trace
<1>4. QED
  BY <1>2, <1>3

(* The ends of a trace are views.                                          *)
LEMMA TraceEnds ==
  ASSUME NEW q \in Seq(Message), NEW a, NEW b, NEW last, Trace(q, a, b, last)
  PROVE  Sound(a) /\ Sound(b)
<1>1. PICK f : /\ f[1] = a /\ f[Len(q) + 1] = b
               /\ \A i \in 1..(Len(q) + 1) : Sound(f[i])
  BY DEF Trace
<1>2. Len(q) \in Nat
  OBVIOUS
<1>3. 1 \in 1..(Len(q) + 1) /\ Len(q) + 1 \in 1..(Len(q) + 1)
  BY <1>2
<1>4. QED
  BY <1>1, <1>3

(* Reading a message takes the first view away.                            *)
LEMMA ReadTrace ==
  ASSUME NEW q \in Seq(Message), NEW a, NEW b, NEW last, Trace(q, a, b, last), q # <<>>
  PROVE  \E c : /\ Sound(a) /\ Sound(c) /\ Link(Head(q), a, c, last)
                /\ Trace(Tail(q), c, b, last)
                /\ Closing(Head(q)) => Tail(q) = <<>>
<1>1. PICK f : /\ f[1] = a /\ f[Len(q) + 1] = b
               /\ \A i \in 1..(Len(q) + 1) : Sound(f[i])
               /\ \A i \in 1..Len(q) :
                    /\ Link(q[i], f[i], f[i + 1], last)
                    /\ i < Len(q) => ~Closing(q[i])
  BY DEF Trace
<1>2. /\ Len(q) \in Nat \ {0} /\ Head(q) = q[1]
      /\ Tail(q) \in Seq(Message) /\ Len(Tail(q)) = Len(q) - 1
      /\ \A i \in 1..Len(Tail(q)) : Tail(q)[i] = q[i + 1]
  OBVIOUS
<1> DEFINE n == Len(q)
           r == Tail(q)
           g == [i \in 1..n |-> f[i + 1]]
<1>3. n \in Nat \ {0} /\ Len(r) = n - 1 /\ \A i \in 1..(n - 1) : r[i] = q[i + 1]
  BY <1>2
<1>4. 1 \in 1..n /\ 1 \in 1..(n + 1) /\ 2 \in 1..(n + 1)
  BY <1>3
<1>5. Sound(f[1]) /\ Sound(f[2]) /\ Link(q[1], f[1], f[2], last)
  <2>1. f[1 + 1] = f[2]
    OBVIOUS
  <2>2. QED
    BY <1>1, <1>4, <2>1
<1>6. Trace(r, f[2], b, last)
  <2>1. g[1] = f[2] /\ g[(n - 1) + 1] = b
    BY <1>1, <1>3
  <2>2. \A i \in 1..((n - 1) + 1) : Sound(g[i])
    <3>1. \A i \in 1..n : i + 1 \in 1..(n + 1) /\ g[i] = f[i + 1]
      BY <1>3
    <3>2. (n - 1) + 1 = n
      BY <1>3
    <3> HIDE DEF g
    <3>3. QED
      BY <1>1, <3>1, <3>2
  <2>3. ASSUME NEW i \in 1..(n - 1)
        PROVE  Link(r[i], g[i], g[i + 1], last) /\ (i < n - 1 => ~Closing(r[i]))
    <3>1. i + 1 \in 1..n /\ g[i] = f[i + 1] /\ g[i + 1] = f[(i + 1) + 1] /\ r[i] = q[i + 1]
      BY <1>3
    <3>2. i < n - 1 => i + 1 < n
      BY <1>3
    <3> HIDE DEF g, r
    <3>3. QED
      BY <1>1, <3>1, <3>2
  <2> HIDE DEF g, r, n
  <2>4. QED
    BY <1>3, <2>1, <2>2, <2>3 DEF Trace
<1>7. ASSUME Closing(Head(q)) PROVE Tail(q) = <<>>
  <2>1. ~(1 < n)
    BY <1>1, <1>2, <1>4, <1>7
  <2>2. Len(r) = 0
    BY <1>3, <2>1
  <2>3. QED
    BY <1>2, <2>2, EmptySeq
<1>8. QED
  BY <1>1, <1>2, <1>5, <1>6, <1>7

(* Sending a message appends the view it leads to.                         *)
LEMMA SendTrace ==
  ASSUME NEW q \in Seq(Message), NEW a, NEW b, NEW c, NEW last, NEW m \in Message,
         Trace(q, a, b, last), Sound(c), Link(m, b, c, last),
         q # <<>> => ~Closing(q[Len(q)])
  PROVE  Trace(Append(q, m), a, c, last)
<1>1. PICK f : /\ f[1] = a /\ f[Len(q) + 1] = b
               /\ \A i \in 1..(Len(q) + 1) : Sound(f[i])
               /\ \A i \in 1..Len(q) :
                    /\ Link(q[i], f[i], f[i + 1], last)
                    /\ i < Len(q) => ~Closing(q[i])
  BY DEF Trace
<1> DEFINE n == Len(q)
           r == Append(q, m)
           g == [i \in 1..(n + 2) |-> IF i = n + 2 THEN c ELSE f[i]]
<1>2. /\ n \in Nat /\ Len(r) = n + 1 /\ r[n + 1] = m
      /\ \A i \in 1..n : r[i] = q[i]
  OBVIOUS
<1>3. n # 0 => q # <<>>
  OBVIOUS
<1>4. g[1] = a /\ g[(n + 1) + 1] = c /\ \A i \in 1..(n + 1) : g[i] = f[i]
  BY <1>1, <1>2
<1>5. \A i \in 1..((n + 1) + 1) : Sound(g[i])
  <2> SUFFICES ASSUME NEW i \in 1..((n + 1) + 1) PROVE Sound(g[i])
    OBVIOUS
  <2>1. i \in 1..(n + 1) \/ i = (n + 1) + 1
    BY <1>2
  <2> HIDE DEF g, n
  <2>2. QED
    BY <1>1, <1>4, <2>1 DEF n
<1>6. ASSUME NEW i \in 1..(n + 1)
      PROVE  Link(r[i], g[i], g[i + 1], last) /\ (i < n + 1 => ~Closing(r[i]))
  <2>1. CASE i = n + 1
    <3>1. g[n + 1] = b /\ g[(n + 1) + 1] = c /\ r[n + 1] = m
      BY <1>1, <1>2, <1>4
    <3> HIDE DEF g, r, n
    <3>2. QED
      BY <1>2, <2>1, <3>1
  <2>2. CASE i \in 1..n
    <3>1. i + 1 \in 1..(n + 1) /\ i \in 1..(n + 1)
      BY <1>2, <2>2
    <3>2. g[i] = f[i] /\ g[i + 1] = f[i + 1] /\ r[i] = q[i]
      BY <1>2, <1>4, <2>2, <3>1
    <3>3. i < n => ~Closing(q[i])
      BY <1>1, <2>2
    <3>4. i = n => ~Closing(q[i])
      BY <1>2, <1>3, <2>2
    <3>5. i < n \/ i = n
      BY <1>2, <2>2
    <3>6. Link(q[i], f[i], f[i + 1], last)
      BY <1>1, <2>2
    <3> HIDE DEF g, r, n
    <3>7. QED
      BY <3>2, <3>3, <3>4, <3>5, <3>6
  <2>3. i = n + 1 \/ i \in 1..n
    BY <1>2
  <2>4. QED
    BY <2>1, <2>2, <2>3
<1> HIDE DEF g, r, n
<1>7. Trace(r, a, c, last)
  BY <1>2, <1>4, <1>5, <1>6 DEF Trace
<1>8. QED
  BY <1>7 DEF r

-----------------------------------------------------------------------------
(* The initial state                                                       *)

(* The constant bags and counters have their types.                        *)
LEMMA ConstantsTyped ==
  /\ NoCards \in [Cards -> 0..1] /\ NoCards \in [Cards -> Nat]
  /\ Nothing \in [Points -> Nat] /\ Deck \in [Points -> Nat]
  /\ \A S \in SUBSET Cards : Bag(S) \in [Cards -> 0..1] /\ Bag(S) \in [Cards -> Nat]
<1>1. NoCards \in [Cards -> 0..1] /\ NoCards \in [Cards -> Nat]
  BY DEF NoCards
<1>2. Nothing \in [Points -> Nat]
  BY DEF Nothing
<1>3. Deck \in [Points -> Nat]
  BY PointsTyped, DeckIsPoints
<1>4. \A S \in SUBSET Cards : Bag(S) \in [Cards -> 0..1] /\ Bag(S) \in [Cards -> Nat]
  BY DEF Bag
<1>5. QED
  BY <1>1, <1>2, <1>3, <1>4

(* A refused hand differs from none.                                       *)
LEMMA NoRefusalIsNoHand == \A t \in [Cards -> 0..1] : t # NoRefusal
<1> SUFFICES ASSUME NEW t \in [Cards -> 0..1], t = NoRefusal PROVE FALSE
  OBVIOUS
<1>1. 0 \in Cards
  <2>1. NumCards \in Nat /\ HandSize \in Nat /\ NumCards - 3 * HandSize > 0
    BY TableAssumption DEF BaseSize
  <2>2. NumCards > 0
    BY <2>1
  <2>3. QED
    BY <2>1, <2>2 DEF Cards
<1>2. t[0] \in 0..1 /\ t[0] = -1
  BY <1>1 DEF NoRefusal
<1>3. QED
  BY <1>2

(* The invariant holds at first.                                           *)
LEMMA InitInv == Init => IInv
<1> SUFFICES ASSUME Init PROVE IInv
  OBVIOUS
<1>1. TypeOK
  <2>1. /\ aiCardsVec \in [Cards -> Nat] /\ lastTakeOut \in [Cards -> 0..1]
        /\ points \in [Points -> Nat] /\ remainPoints \in [Points -> Nat]
        /\ otherPoints \in [Points -> Int]
    BY ConstantsTyped DEF Init, Nothing
  <2>2. total \in [Seats -> Int] /\ hands \in [Seats -> SUBSET Cards]
    BY DEF Init
  <2>3. /\ curHandSeat \in Seats \cup {NoSeat} /\ lordSeat \in Seats \cup {NoSeat}
        /\ {lord, turn, top} \subseteq Seats \cup {NoSeat}
    BY DEF Init
  <2>4. delayed \subseteq [Cards -> 0..1] /\ Cardinality(delayed) <= 1
    <3>1. delayed = {} /\ Cardinality({}) = 0
      BY FS_EmptySet DEF Init
    <3>2. Cardinality(delayed) <= 1
      BY <3>1
    <3>3. QED
      BY <3>1, <3>2
  <2>5. losses \in 0..MaxLosses /\ policy \in Refusals
    <3>1. MaxLosses \in Nat /\ Refusal \subseteq Refusals
      BY TableAssumption
    <3>2. QED
      BY <3>1 DEF Init
  <2>6. QED
    BY <2>1, <2>2, <2>3, <2>4, <2>5 DEF TypeOK
<1>2. Typed
  <2>1. <<>> \in Seq(Message)
    OBVIOUS
  <2>2. QED
    BY <1>1, <2>1 DEF Init, Typed
<1>3. Turns
  BY DEF Init, Turns
<1>4. Agreed
  <2> DEFINE v == [hand |-> [s \in Seats |-> {}], out |-> NoCards, phase |-> "idle",
                   lord |-> NoSeat, base |-> {}]
  <2>1. Sound(v)
    <3>1. v \in View
      BY ConstantsTyped DEF View, Phases
    <3>2. \A s, t \in Seats : v.hand[s] \cap v.hand[t] = {}
      OBVIOUS
    <3>3. \A c \in Cards : v.out[c] <= Bag(v.hand[Me])[c]
      BY DEF NoCards, Bag, Me, Seats
    <3>4. QED
      BY <3>1, <3>2, <3>3 DEF Sound
  <2>2. IsTable(v)
    BY DEF IsTable, Init, Pending
  <2>3. Believes(v)
    BY DEF Believes
  <2> HIDE DEF v
  <2>4. Trace(toRobot, v, v, lastTakeOut)
    BY <2>1, EmptyTrace DEF Init
  <2>5. QED
    BY <2>2, <2>3, <2>4 DEF Agreed
<1>5. QED
  BY <1>2, <1>3, <1>4 DEF IInv

-----------------------------------------------------------------------------
(* Messages to the robot                                                   *)

(* What a message of each type carries.                                    *)
LEMMA MessageTyped ==
  ASSUME NEW m \in Message
  PROVE  /\ m.type \in {"deal", "base", "takeout", "keep"} => m.cards \in SUBSET Cards
         /\ m.type = "base" => m.lord \in Seats
         /\ m.type = "takeout" => m.seat \in Seats /\ m.next \in Seats \cup {NoSeat}
         /\ m.type = "ack" => m.ok \in BOOLEAN
         /\ m.type = "keep" => m.lord \in Seats \cup {NoSeat}
  BY DEF Message

(* Nothing is read while the robot is answering.                           *)
LEMMA NotAnswering ==
  ASSUME IInv, toRobot # <<>>
  PROVE  delayed = {} /\ toServer = <<>>
  BY DEF IInv, Turns, Answering

(* The last message stays the last one.                                    *)
LEMMA LastStays ==
  ASSUME NEW q \in Seq(Message), q # <<>>, Tail(q) # <<>>
  PROVE  Tail(q)[Len(Tail(q))] = q[Len(q)]
<1>1. Tail(q) \in Seq(Message) /\ Len(Tail(q)) = Len(q) - 1
      /\ \A i \in 1..Len(Tail(q)) : Tail(q)[i] = q[i + 1]
  BY HeadTailProperties
<1>2. Len(Tail(q)) \in Nat \ {0} /\ Len(q) \in Nat
  BY <1>1, EmptySeq
<1>3. Tail(q)[Len(Tail(q))] = q[Len(Tail(q)) + 1]
  BY <1>1, <1>2
<1>4. QED
  BY <1>1, <1>2, <1>3

(* Reading a message that leaves vecLastTakeOutCards and the delayed       *)
(* answer alone keeps what is said of the turns.                           *)
LEMMA ReadTurns ==
  ASSUME IInv, ~away, toRobot # <<>>, Read, UNCHANGED <<lastTakeOut, delayed>>
  PROVE  Turns'
<1>1. /\ toRobot' = Tail(toRobot) /\ toServer' = toServer /\ away' = away
      /\ hands' = hands /\ turn' = turn /\ refused' = refused /\ excused' = excused
      /\ policy' = policy /\ lastTakeOut' = lastTakeOut /\ delayed' = delayed
  BY DEF Read, tableVars
<1>2. toRobot \in Seq(Message) /\ Turns
  BY DEF IInv, Typed
<1>3. delayed = {} /\ toServer = <<>>
  BY NotAnswering
<1>4. ASSUME toRobot' # <<>>, TurnNotice(toRobot'[Len(toRobot')])
      PROVE  turn = Me /\ ~excused /\ refused = NoRefusal
  <2>1. toRobot'[Len(toRobot')] = toRobot[Len(toRobot)]
    BY <1>1, <1>2, <1>4, LastStays
  <2>2. TurnNotice(toRobot[Len(toRobot)])
    BY <1>4, <2>1
  <2>3. QED
    BY <1>2, <2>2 DEF Turns
<1>5. /\ delayed' # {} \/ toServer' # <<>> => Answering'
      /\ refused' # NoRefusal => turn' = Me /\ excused' /\ refused' = lastTakeOut'
      /\ excused' /\ refused' = NoRefusal => lastTakeOut' = NoCards
      /\ away' => FALSE
      /\ policy' \in Refusal
  BY <1>1, <1>2, <1>3 DEF Turns
<1>6. QED
  BY <1>1, <1>4, <1>5 DEF Turns

(* Such a message does not change what the table's view is.                *)
LEMMA ReadTable ==
  ASSUME Read, UNCHANGED <<lastTakeOut, delayed>>, NEW v, IsTable(v)
  PROVE  IsTable(v)'
  BY DEF Read, tableVars, IsTable, Pending

(* A message that is read comes with the views around it.                  *)
LEMMA ReadViews ==
  ASSUME IInv, ~away, toRobot # <<>>
  PROVE  /\ Msg \in Message /\ Tail(toRobot) \in Seq(Message)
         /\ \E a, b, c : /\ Sound(a) /\ Sound(b) /\ Sound(c) /\ Believes(a) /\ IsTable(b)
                         /\ Link(Msg, a, c, lastTakeOut)
                         /\ Trace(Tail(toRobot), c, b, lastTakeOut)
                         /\ Closing(Msg) => Tail(toRobot) = <<>>
<1>1. toRobot \in Seq(Message)
  BY DEF IInv, Typed
<1>2. Msg \in Message /\ Tail(toRobot) \in Seq(Message)
  BY <1>1, HeadTailProperties DEF Msg
<1>3. PICK a, b : Trace(toRobot, a, b, lastTakeOut) /\ IsTable(b) /\ Believes(a)
  BY DEF IInv, Agreed
<1>4. Sound(b)
  BY <1>1, <1>3, TraceEnds
<1>5. \E c : /\ Sound(a) /\ Sound(c) /\ Link(Msg, a, c, lastTakeOut)
             /\ Trace(Tail(toRobot), c, b, lastTakeOut)
             /\ Closing(Msg) => Tail(toRobot) = <<>>
  BY <1>1, <1>3, ReadTrace DEF Msg
<1>6. QED
  BY <1>2, <1>3, <1>4, <1>5

-----------------------------------------------------------------------------
(* The handlers                                                            *)
RobotTyped ==
  /\ aiCardsVec \in [Cards -> Nat] /\ lastTakeOut \in [Cards -> 0..1]
  /\ points \in [Points -> Nat] /\ remainPoints \in [Points -> Nat]
  /\ otherPoints \in [Points -> Int] /\ total \in [Seats -> Int]
  /\ curHandSeat \in Seats \cup {NoSeat} /\ lordSeat \in Seats \cup {NoSeat}
  /\ delayed \subseteq [Cards -> 0..1] /\ Cardinality(delayed) <= 1

TableTyped ==
  /\ hands \in [Seats -> SUBSET Cards]
  /\ {lord, turn, top} \subseteq Seats \cup {NoSeat}
  /\ losses \in 0..MaxLosses /\ policy \in Refusals

(* The types of the robot's variables and of the table's.                  *)
LEMMA TypeParts == TypeOK <=> RobotTyped /\ TableTyped
  BY DEF TypeOK, RobotTyped, TableTyped

(* The same of the next state.                                             *)
LEMMA TypePartsNext == TypeOK' <=> RobotTyped' /\ TableTyped'
  BY DEF TypeOK, RobotTyped, TableTyped

(* Reading leaves the table alone.                                         *)
LEMMA ReadTyped ==
  ASSUME IInv, ~away, toRobot # <<>>, Read, RobotTyped'
  PROVE  Typed'
<1>1. TableTyped /\ toRobot' = Tail(toRobot) /\ Tail(toRobot) \in Seq(Message)
  BY ReadViews, TypeParts DEF IInv, Typed, Read
<1>2. TableTyped'
  BY <1>1 DEF TableTyped, Read, tableVars
<1>3. QED
  BY <1>1, <1>2, TypePartsNext DEF Typed

(* A view's cards, by their types.                                         *)
LEMMA SoundFacts ==
  ASSUME NEW v, Sound(v)
  PROVE  /\ v.hand \in [Seats -> SUBSET Cards] /\ v.hand[Me] \in SUBSET Cards
         /\ AllOf(v.hand) \in SUBSET Cards /\ OthersOf(v.hand) \in SUBSET Cards
         /\ AllOf(v.hand) = v.hand[Me] \cup OthersOf(v.hand)
         /\ v.hand[Me] \cap OthersOf(v.hand) = {}
         /\ v.out \in [Cards -> 0..1] /\ v.base \in SUBSET Cards
         /\ v.base \cap OthersOf(v.hand) = {}
<1>1. v \in View /\ v.base \cap OthersOf(v.hand) = {}
  BY DEF Sound
<1>2. v.hand \in [Seats -> SUBSET Cards] /\ v.out \in [Cards -> 0..1] /\ v.base \in SUBSET Cards
  BY <1>1 DEF View
<1>3. Me \in Seats /\ Seats = Others \cup {Me} /\ Me \notin Others
  BY DEF Me, Seats, Others
<1>4. v.hand[Me] \in SUBSET Cards
  BY <1>2, <1>3
<1>5. AllOf(v.hand) \in SUBSET Cards /\ OthersOf(v.hand) \in SUBSET Cards
  BY <1>2, <1>3 DEF AllOf, OthersOf
<1>6. AllOf(v.hand) = v.hand[Me] \cup OthersOf(v.hand)
  BY <1>3 DEF AllOf, OthersOf
<1>7. \A t \in Others : v.hand[Me] \cap v.hand[t] = {}
  BY <1>3 DEF Sound
<1>8. v.hand[Me] \cap OthersOf(v.hand) = {}
  BY <1>7 DEF OthersOf
<1>9. QED
  BY <1>1, <1>2, <1>4, <1>5, <1>6, <1>8

(* A robot that gets its cards believes the view of the deal.              *)
LEMMA DealRead ==
  ASSUME IInv, RecvInitHardCardNotify
  PROVE  IInv'
<1>1. /\ ~away /\ toRobot # <<>> /\ Msg.type = "deal" /\ Read
      /\ aiCardsVec' = Bag(Msg.cards) /\ points' = PointsOf(Msg.cards)
      /\ total' = [s \in Seats |-> HandSize] /\ remainPoints' = Deck
      /\ otherPoints' = Deck (-) PointsOf(Msg.cards)
      /\ curHandSeat' = NoSeat /\ lordSeat' = NoSeat /\ rejoined' = FALSE
      /\ lastTakeOut' = lastTakeOut /\ delayed' = delayed
  BY DEF RecvInitHardCardNotify, Receives
<1>2. Msg \in Message
  BY <1>1, ReadViews
<1>3. Msg.cards \in SUBSET Cards
  BY <1>1, <1>2, MessageTyped
<1>4. PICK a, b, c : /\ Sound(c) /\ IsTable(b) /\ Link(Msg, a, c, lastTakeOut)
                     /\ Trace(Tail(toRobot), c, b, lastTakeOut)
  BY <1>1, ReadViews
<1>5. DealLink(Msg, a, c)
  BY <1>1, <1>4 DEF Link
<1>6. RobotTyped'
  <2>1. RobotTyped
    BY TypeParts DEF IInv, Typed
  <2>2. aiCardsVec' \in [Cards -> Nat] /\ points' \in [Points -> Nat] /\ remainPoints' \in [Points -> Nat]
    BY <1>1, <1>3, ConstantsTyped, PointsTyped
  <2>3. otherPoints' \in [Points -> Int]
    <3>1. Deck \in [Points -> Nat] /\ PointsOf(Msg.cards) \in [Points -> Nat]
      BY <1>3, ConstantsTyped, PointsTyped
    <3>2. Deck (-) PointsOf(Msg.cards) \in [Points -> Int]
      BY <3>1 DEF (-)
    <3>3. QED
      BY <1>1, <3>2
  <2>4. total' \in [Seats -> Int]
    BY <1>1, TableAssumption
  <2>5. QED
    BY <1>1, <2>1, <2>2, <2>3, <2>4 DEF RobotTyped
<1>7. Typed' /\ Turns'
  BY <1>1, <1>6, ReadTyped, ReadTurns
<1>8. IsTable(b)' /\ Trace(toRobot', c, b, lastTakeOut')
  BY <1>1, <1>4, ReadTable DEF Read
<1>9. Believes(c)'
  <2>1. /\ Msg.cards = c.hand[Me] /\ c.phase = "dealt" /\ c.out = NoCards
        /\ \A s \in Seats : Cardinality(c.hand[s]) = HandSize
        /\ AllOf(c.hand) \cup c.base = Cards
    BY <1>5 DEF DealLink
  <2>2. aiCardsVec' = Bag(c.hand[Me]) (-) c.out
    <3>1. Bag(c.hand[Me]) = Bag(c.hand[Me]) (-) NoCards
      BY DEF Bag, NoCards, (-)
    <3>2. QED
      BY <1>1, <2>1, <3>1
  <2>3. Unplayed(c) = Cards
    BY <2>1 DEF Unplayed
  <2>4. \A p \in Points : PointsOf(Unplayed(c))[p] <= remainPoints'[p]
    BY <1>1, <2>3, DeckIsPoints, PointsMonotone
  <2>5. Counted(c)'
    <3>1. \A s \in Seats : total'[s] = Cardinality(c.hand[s])
      BY <1>1, <2>1
    <3>2. remainPoints' = PointsOf(Unplayed(c))
      BY <1>1, <2>3, DeckIsPoints
    <3>3. otherPoints' = PointsOf(OthersOf(c.hand) \cup c.base)
      <4>1. Cards \ Msg.cards = OthersOf(c.hand) \cup c.base
        <5>1. c.hand[Me] \cap c.base = {}
          BY <1>4, <1>5, SoundFacts DEF DealLink
        <5>2. QED
          BY <1>4, <2>1, <5>1, SoundFacts
      <4>2. PointsOf(Cards \ Msg.cards) = Deck (-) PointsOf(Msg.cards)
        BY <1>3, PointsDifference, DeckIsPoints
      <4>3. QED
        BY <1>1, <4>1, <4>2
    <3>4. Cardinality(c.base) = BaseSize
      BY <1>5 DEF DealLink
    <3>5. QED
      BY <2>1, <3>1, <3>2, <3>3, <3>4 DEF Counted
  <2>6. QED
    BY <1>1, <2>1, <2>2, <2>4, <2>5 DEF Believes
<1>10. Agreed'
  BY <1>8, <1>9 DEF Agreed
<1>11. QED
  BY <1>7, <1>10 DEF IInv

(* Taking out cards removes cards that are there and remembers them.       *)
LEMMA TakesOutHeld ==
  ASSUME NEW vec \in [Cards -> 0..1], NEW pts, NEW free, TakeOutFrom(vec, pts, free)
  PROVE  \E t \in [Cards -> 0..1] :
           /\ lastTakeOut' = t /\ delayed' = {t} /\ aiCardsVec' = vec (-) t
           /\ \A c \in Cards : t[c] <= vec[c]
<1>1. vec (-) NoCards = vec /\ NoCards \in [Cards -> 0..1] /\ \A c \in Cards : NoCards[c] <= vec[c]
  BY DEF NoCards, (-)
<1>2. CASE Choose(vec, NoCards, NoCards)
  BY <1>1, <1>2 DEF Choose
<1>3. CASE \E h \in Hands : Choose(vec (-) Found(vec, h), Found(vec, h), Found(vec, h))
  <2>1. PICK h \in Hands : Choose(vec (-) Found(vec, h), Found(vec, h), Found(vec, h))
    BY <1>3
  <2> DEFINE t == Found(vec, h)
  <2>2. t \in [Cards -> 0..1] /\ \A c \in Cards : t[c] <= vec[c]
    BY FoundIsThere
  <2>3. lastTakeOut' = t /\ delayed' = {t} /\ aiCardsVec' = vec (-) t
    BY <2>1 DEF Choose
  <2>4. QED
    BY <2>2, <2>3
<1>4. QED
  <2>1. \/ \E h \in Hands : \/ Choose(vec (-) Found(vec, h), Found(vec, h), Found(vec, h))
                            \/ PutBack(vec, Found(vec, h))
        \/ Choose(vec, NoCards, NoCards)
    BY DEF TakeOutFrom
  <2>2. QED
    BY <2>1, <1>2, <1>3 DEF PutBack

(* A message that nothing follows is the last one.                         *)
LEMMA OnlyMessage ==
  ASSUME NEW q \in Seq(Message), q # <<>>, Tail(q) = <<>>
  PROVE  Head(q) = q[Len(q)]
<1> DEFINE n == Len(q)
           k == Len(Tail(q))
<1>1. n \in Nat /\ k = n - 1
  BY HeadTailProperties
<1>2. k = 0
  BY EmptySeq
<1> HIDE DEF n, k
<1>3. n = 1
  BY <1>1, <1>2
<1>4. QED
  BY <1>3 DEF n

(* The robot answers the message that gives it the turn: the view of the   *)
(* table, which it has reached, gains the cards it took out.               *)
LEMMA TurnAnswered ==
  ASSUME IInv, ~away, toRobot # <<>>, TurnNotice(Msg), Tail(toRobot) = <<>>, Read,
         NEW v, Sound(v), IsTable(v), v.phase = "play",
         NEW t \in [Cards -> 0..1], lastTakeOut' = t, delayed' = {t},
         aiCardsVec' = Bag(v.hand[Me]) (-) t,
         \A c \in Cards : t[c] <= Bag(v.hand[Me])[c],
         points' = PointsOf(v.hand[Me]),
         \A p \in Points : PointsOf(Unplayed(v))[p] <= remainPoints'[p],
         ~rejoined' => Counted(v)'
  PROVE  Turns' /\ Agreed'
<1>1. /\ toRobot' = <<>> /\ toServer' = toServer /\ away' = away
      /\ hands' = hands /\ turn' = turn /\ refused' = refused /\ excused' = excused
      /\ policy' = policy /\ lord' = lord
  BY DEF Read, tableVars
<1>2. turn = Me /\ ~excused /\ refused = NoRefusal /\ toServer = <<>> /\ policy \in Refusal
  <2>1. Msg = toRobot[Len(toRobot)]
    BY OnlyMessage DEF IInv, Typed, Msg
  <2>2. TurnNotice(toRobot[Len(toRobot)])
    BY <2>1
  <2>3. QED
    BY <2>2, NotAnswering DEF IInv, Turns
<1>3. Turns'
  BY <1>1, <1>2 DEF Turns, Answering
<1> DEFINE w == [v EXCEPT !.out = t]
<1>4. v \in View
  BY DEF Sound
<1>5. /\ w \in View /\ w.hand = v.hand /\ w.phase = v.phase /\ w.lord = v.lord
      /\ w.base = v.base /\ w.out = t
  BY <1>4 DEF View
<1> HIDE DEF w
<1>6. Sound(w)
  BY <1>5 DEF Sound
<1>7. IsTable(w)'
  <2>1. Pending'
    BY DEF Pending
  <2>2. QED
    BY <1>1, <1>5, <2>1 DEF IsTable
<1>8. Believes(w)'
  <2>1. ~rejoined' => Counted(w)'
    BY <1>5 DEF Counted, Unplayed
  <2>2. QED
    BY <1>5, <2>1 DEF Believes, Unplayed
<1>9. Trace(toRobot', w, w, lastTakeOut')
  BY <1>1, <1>6, EmptyTrace
<1>10. Agreed'
  BY <1>7, <1>8, <1>9 DEF Agreed
<1>11. QED
  BY <1>3, <1>10

(* What the base cards change, for a robot that believed the deal.         *)
LEMMA BaseCounted ==
  ASSUME NEW m \in Message, m.type = "base", NEW a, NEW c, Sound(a), Sound(c), Believes(a),
         BaseLink(m, a, c), RobotTyped,
         total' = [total EXCEPT ![m.lord] = HandSize + BaseSize],
         UNCHANGED <<otherPoints, remainPoints, rejoined>>
  PROVE  /\ total' \in [Seats -> Int]
         /\ aiCardsVec = Bag(a.hand[Me]) /\ points = PointsOf(a.hand[Me])
         /\ \A p \in Points : PointsOf(Unplayed(c))[p] <= remainPoints'[p]
         /\ ~rejoined' => Counted(c)'
<1>1. /\ a.phase = "dealt" /\ a.out = NoCards
      /\ m.cards = a.base /\ Cardinality(a.base) = BaseSize
      /\ a.base \cap AllOf(a.hand) = {}
      /\ \A s \in Seats : Cardinality(a.hand[s]) = HandSize
      /\ c.hand = [a.hand EXCEPT ![m.lord] = @ \cup a.base]
      /\ c.phase = "play" /\ c.out = NoCards /\ c.lord = m.lord
      /\ c.base = IF m.lord = Me THEN a.base ELSE {}
  BY DEF BaseLink
<1>2. m.lord \in Seats /\ Me \in Seats /\ Seats = Others \cup {Me} /\ Me \notin Others
  BY MessageTyped DEF Me, Seats, Others
<1>3. /\ a.hand \in [Seats -> SUBSET Cards] /\ a.base \in SUBSET Cards
      /\ a.hand[Me] \in SUBSET Cards
  BY SoundFacts
<1>4. HandSize \in Nat /\ BaseSize \in Int
  BY TableAssumption DEF BaseSize
<1>5. total' \in [Seats -> Int]
  <2>1. total \in [Seats -> Int] /\ HandSize + BaseSize \in Int
    BY <1>4 DEF RobotTyped
  <2>2. QED
    BY <2>1
<1>6. /\ aiCardsVec = Bag(a.hand[Me]) (-) NoCards /\ points = PointsOf(a.hand[Me])
      /\ \A p \in Points : PointsOf(Unplayed(a))[p] <= remainPoints[p]
      /\ ~rejoined => Counted(a)
  BY <1>1 DEF Believes
<1>7. aiCardsVec = Bag(a.hand[Me])
  <2>1. Bag(a.hand[Me]) = Bag(a.hand[Me]) (-) NoCards
    BY DEF Bag, NoCards, (-)
  <2>2. QED
    BY <1>6, <2>1
<1>8. Unplayed(c) = Unplayed(a)
  <2>1. AllOf(c.hand) = AllOf(a.hand) \cup a.base
    BY <1>1, <1>2, <1>3 DEF AllOf
  <2>2. QED
    BY <1>1, <2>1 DEF Unplayed
<1>9. ASSUME ~rejoined' PROVE Counted(c)'
  <2>1. Counted(a)
    BY <1>6, <1>9
  <2>2. \A s \in Seats : total'[s] = Cardinality(c.hand[s])
    <3>1. Cardinality(a.hand[m.lord] \cup a.base) = HandSize + BaseSize
      <4>1. a.hand[m.lord] \in SUBSET Cards /\ a.hand[m.lord] \cap a.base = {}
        BY <1>1, <1>2, <1>3 DEF AllOf
      <4>2. Cardinality(a.hand[m.lord] \cup a.base)
              = Cardinality(a.hand[m.lord]) + Cardinality(a.base)
        BY <1>3, <4>1, CardSets
      <4>3. QED
        BY <1>1, <1>2, <4>2
    <3>2. total'[m.lord] = HandSize + BaseSize
      BY <1>2 DEF RobotTyped
    <3>3. \A s \in Seats \ {m.lord} : total'[s] = total[s] /\ c.hand[s] = a.hand[s]
      BY <1>1, <1>2, <1>3 DEF RobotTyped
    <3>4. c.hand[m.lord] = a.hand[m.lord] \cup a.base
      BY <1>1, <1>2, <1>3
    <3>5. \A s \in Seats : total[s] = Cardinality(a.hand[s])
      BY <2>1 DEF Counted
    <3>6. QED
      BY <3>1, <3>2, <3>3, <3>4, <3>5
  <2>3. otherPoints' = PointsOf(OthersOf(c.hand) \cup c.base)
    <3>1. otherPoints = PointsOf(OthersOf(a.hand) \cup a.base)
      BY <2>1 DEF Counted
    <3>2. OthersOf(a.hand) \cup a.base = OthersOf(c.hand) \cup c.base
      <4>1. CASE m.lord = Me
        BY <1>1, <1>2, <1>3, <4>1 DEF OthersOf
      <4>2. CASE m.lord # Me
        <5>1. OthersOf(c.hand) = OthersOf(a.hand) \cup a.base
          BY <1>1, <1>2, <1>3, <4>2 DEF OthersOf
        <5>2. QED
          BY <1>1, <4>2, <5>1
      <4>3. QED
        BY <4>1, <4>2
    <3>3. QED
      BY <3>1, <3>2
  <2>4. remainPoints' = PointsOf(Unplayed(c))
    BY <1>8, <2>1 DEF Counted
  <2>5. IF c.phase = "dealt" \/ c.lord = Me THEN Cardinality(c.base) = BaseSize ELSE c.base = {}
    BY <1>1
  <2>6. QED
    BY <2>2, <2>3, <2>4, <2>5 DEF Counted
<1>10. \A p \in Points : PointsOf(Unplayed(c))[p] <= remainPoints'[p]
  BY <1>6, <1>8
<1>11. QED
  BY <1>5, <1>6, <1>7, <1>9, <1>10

(* A robot that gets the base cards announced believes the view with them; *)
(* a lord takes out cards it holds.                                        *)
LEMMA BaseRead ==
  ASSUME IInv, RecvGetBaseCardNotify
  PROVE  IInv'
<1>1. /\ ~away /\ toRobot # <<>> /\ Msg.type = "base" /\ Read
      /\ lordSeat' = Msg.lord
      /\ total' = [total EXCEPT ![Msg.lord] = HandSize + BaseSize]
      /\ otherPoints' = otherPoints /\ remainPoints' = remainPoints
      /\ curHandSeat' = curHandSeat /\ rejoined' = rejoined
  BY DEF RecvGetBaseCardNotify, Receives
<1>2. Msg \in Message /\ RobotTyped
  BY <1>1, ReadViews, TypeParts DEF IInv, Typed
<1>3. Msg.cards \in SUBSET Cards /\ Msg.lord \in Seats
  BY <1>1, <1>2, MessageTyped
<1>4. PICK a, b, c : /\ Sound(a) /\ Sound(b) /\ Sound(c) /\ Believes(a) /\ IsTable(b)
                     /\ Link(Msg, a, c, lastTakeOut)
                     /\ Trace(Tail(toRobot), c, b, lastTakeOut)
                     /\ Closing(Msg) => Tail(toRobot) = <<>>
  BY <1>1, ReadViews
<1>5. BaseLink(Msg, a, c)
  BY <1>1, <1>4 DEF Link
<1>6. /\ total' \in [Seats -> Int]
      /\ aiCardsVec = Bag(a.hand[Me]) /\ points = PointsOf(a.hand[Me])
      /\ \A p \in Points : PointsOf(Unplayed(c))[p] <= remainPoints'[p]
      /\ ~rejoined' => Counted(c)'
  BY <1>1, <1>2, <1>4, <1>5, BaseCounted
<1>7. /\ a.hand \in [Seats -> SUBSET Cards] /\ a.hand[Me] \in SUBSET Cards
      /\ c.hand[Me] \in SUBSET Cards /\ Me \in Seats
      /\ Msg.cards = a.base /\ a.base \cap AllOf(a.hand) = {}
      /\ c.hand = [a.hand EXCEPT ![Msg.lord] = @ \cup a.base]
      /\ c.phase = "play" /\ c.out = NoCards
  BY <1>4, <1>5, SoundFacts DEF BaseLink, Me, Seats
<1>8. CASE Msg.lord # Me
  <2>1. /\ points' = points /\ aiCardsVec' = aiCardsVec
        /\ lastTakeOut' = lastTakeOut /\ delayed' = delayed
    BY <1>8 DEF RecvGetBaseCardNotify
  <2>2. RobotTyped'
    BY <1>1, <1>2, <1>3, <1>6, <2>1 DEF RobotTyped
  <2>3. Typed' /\ Turns'
    BY <1>1, <2>1, <2>2, ReadTyped, ReadTurns
  <2>4. IsTable(b)' /\ Trace(toRobot', c, b, lastTakeOut')
    BY <1>1, <1>4, <2>1, ReadTable DEF Read
  <2>5. Believes(c)'
    <3>1. c.hand[Me] = a.hand[Me]
      BY <1>3, <1>7, <1>8
    <3>2. aiCardsVec' = Bag(c.hand[Me]) (-) c.out
      <4>1. Bag(c.hand[Me]) = Bag(c.hand[Me]) (-) NoCards
        BY DEF Bag, NoCards, (-)
      <4>2. QED
        BY <1>6, <1>7, <2>1, <3>1, <4>1
    <3>3. QED
      BY <1>6, <2>1, <3>1, <3>2 DEF Believes
  <2>6. QED
    BY <2>3, <2>4, <2>5 DEF IInv, Agreed
<1>9. CASE Msg.lord = Me
  <2>1. /\ points' = points (+) PointsOf(Msg.cards)
        /\ TakeOutFrom(aiCardsVec (+) Bag(Msg.cards), points', isFree(Me, curHandSeat))
    BY <1>9 DEF RecvGetBaseCardNotify
  <2>2. c.hand[Me] = a.hand[Me] \cup Msg.cards /\ a.hand[Me] \cap Msg.cards = {}
    BY <1>7, <1>9 DEF AllOf
  <2>3. points' = PointsOf(c.hand[Me])
    BY <1>3, <1>6, <1>7, <2>1, <2>2, PointsUnion
  <2>4. aiCardsVec (+) Bag(Msg.cards) = Bag(c.hand[Me])
    <3>1. Bag(a.hand[Me]) (+) Bag(Msg.cards) = Bag(a.hand[Me] \cup Msg.cards)
      BY <2>2 DEF Bag, (+)
    <3>2. QED
      BY <1>6, <2>2, <3>1
  <2>5. Bag(c.hand[Me]) \in [Cards -> 0..1]
    BY <1>7, ConstantsTyped
  <2>6. PICK t \in [Cards -> 0..1] :
           /\ lastTakeOut' = t /\ delayed' = {t} /\ aiCardsVec' = Bag(c.hand[Me]) (-) t
           /\ \A k \in Cards : t[k] <= Bag(c.hand[Me])[k]
    BY <2>1, <2>4, <2>5, TakesOutHeld
  <2>7. Tail(toRobot) = <<>> /\ TurnNotice(Msg)
    BY <1>1, <1>4, <1>9 DEF Closing, TurnNotice
  <2>8. c = b
    <3>1. Trace(<<>>, c, b, lastTakeOut)
      BY <1>4, <2>7
    <3>2. QED
      BY <3>1, EmptyTrace
  <2>9. Turns' /\ Agreed'
    BY <1>1, <1>4, <1>6, <1>7, <2>3, <2>6, <2>7, <2>8, TurnAnswered
  <2>10. RobotTyped'
    <3>1. aiCardsVec' \in [Cards -> Nat]
      BY <2>5, <2>6 DEF (-)
    <3>2. Cardinality(delayed') <= 1 /\ delayed' \subseteq [Cards -> 0..1]
      <4>1. Cardinality({t}) = 1
        BY FS_Singleton
      <4>2. Cardinality(delayed') <= 1
        BY <2>6, <4>1
      <4>3. QED
        BY <2>6, <4>2
    <3>3. points' \in [Points -> Nat]
      BY <1>7, <2>3, PointsTyped
    <3>4. QED
      BY <1>1, <1>2, <1>3, <1>6, <2>6, <3>1, <3>2, <3>3 DEF RobotTyped
  <2>11. QED
    BY <1>1, <2>9, <2>10, ReadTyped DEF IInv
<1>10. QED
  BY <1>8, <1>9

(* What an announcement of cards changes in the counters of a robot that   *)
(* believed the view before it.                                            *)
LEMMA TakeOutCounted ==
  ASSUME NEW m \in Message, m.type = "takeout", NEW a, NEW c, Sound(a), Sound(c), Believes(a),
         NEW last, TakeOutLink(m, a, c, last), RobotTyped,
         RbtInTakeOutCard(m.seat, m.cards), UNCHANGED rejoined
  PROVE  /\ points' \in [Points -> Nat] /\ remainPoints' \in [Points -> Nat]
         /\ otherPoints' \in [Points -> Int] /\ total' \in [Seats -> Int]
         /\ curHandSeat' \in Seats \cup {NoSeat}
         /\ points' = PointsOf(c.hand[Me])
         /\ \A p \in Points : PointsOf(Unplayed(c))[p] <= remainPoints'[p]
         /\ ~rejoined' => Counted(c)'
<1> DEFINE seat == m.seat
           cards == m.cards
           pts == PointsOf(cards)
<1>1. /\ total' = [total EXCEPT ![seat] = @ - Cardinality(cards)]
      /\ remainPoints' = remainPoints (-) pts
      /\ otherPoints' = IF seat = Me THEN otherPoints ELSE otherPoints (-) pts
      /\ points' = IF seat = Me THEN points (-) pts ELSE points
      /\ curHandSeat' = IF cards = {} THEN curHandSeat ELSE seat
      /\ rejoined' = rejoined
  BY DEF RbtInTakeOutCard
<1>2. /\ seat \in Seats /\ cards \in SUBSET Cards
      /\ Me \in Seats /\ Seats = Others \cup {Me} /\ Me \notin Others
  BY MessageTyped DEF Me, Seats, Others
<1>3. /\ a.phase = "play" /\ cards \in SUBSET a.hand[seat]
      /\ c.hand = [a.hand EXCEPT ![seat] = @ \ cards]
      /\ c.phase # "dealt" /\ c.lord = a.lord /\ c.base = a.base
  BY DEF TakeOutLink
<1>4. /\ a.hand \in [Seats -> SUBSET Cards] /\ a.hand[Me] \in SUBSET Cards
      /\ AllOf(a.hand) \in SUBSET Cards /\ OthersOf(a.hand) \in SUBSET Cards
      /\ a.base \in SUBSET Cards /\ a.base \cap OthersOf(a.hand) = {}
  BY SoundFacts
<1>5. \A s, t \in Seats : s # t => a.hand[s] \cap a.hand[t] = {}
  BY DEF Sound
<1>6. /\ points = PointsOf(a.hand[Me])
      /\ \A p \in Points : PointsOf(Unplayed(a))[p] <= remainPoints[p]
      /\ ~rejoined => Counted(a)
  BY <1>3 DEF Believes
<1>7. /\ pts \in [Points -> Nat] /\ points \in [Points -> Nat]
      /\ remainPoints \in [Points -> Nat] /\ otherPoints \in [Points -> Int]
      /\ total \in [Seats -> Int] /\ curHandSeat \in Seats \cup {NoSeat}
      /\ Cardinality(cards) \in Nat
  BY <1>2, PointsTyped, CardSets DEF RobotTyped
<1> HIDE DEF seat, cards, pts
<1>8. points' = PointsOf(c.hand[Me]) /\ points' \in [Points -> Nat]
  <2>1. CASE seat = Me
    <3>1. c.hand[Me] = a.hand[Me] \ cards /\ cards \in SUBSET a.hand[Me]
      BY <1>2, <1>3, <1>4, <2>1
    <3>2. PointsOf(a.hand[Me] \ cards) = PointsOf(a.hand[Me]) (-) PointsOf(cards)
      BY <1>4, <3>1, PointsDifference
    <3>3. points' = PointsOf(c.hand[Me])
      BY <1>1, <1>6, <2>1, <3>1, <3>2 DEF pts
    <3>4. c.hand[Me] \in SUBSET Cards
      BY <1>4, <3>1
    <3>5. QED
      BY <3>3, <3>4, PointsTyped
  <2>2. CASE seat # Me
    <3>1. c.hand[Me] = a.hand[Me]
      BY <1>2, <1>3, <1>4, <2>2
    <3>2. QED
      BY <1>1, <1>6, <1>7, <2>2, <3>1
  <2>3. QED
    BY <2>1, <2>2
<1>9. /\ Unplayed(a) = AllOf(a.hand) /\ Unplayed(c) = AllOf(a.hand) \ cards
      /\ cards \in SUBSET AllOf(a.hand)
  <2>1. AllOf(c.hand) = AllOf(a.hand) \ cards
    <3>1. \A s \in Seats : c.hand[s] = a.hand[s] \ cards
      <4> SUFFICES ASSUME NEW s \in Seats PROVE c.hand[s] = a.hand[s] \ cards
        OBVIOUS
      <4>1. CASE s = seat
        BY <1>2, <1>3, <1>4, <4>1
      <4>2. CASE s # seat
        <5>1. c.hand[s] = a.hand[s] /\ a.hand[s] \cap a.hand[seat] = {}
          BY <1>2, <1>3, <1>4, <1>5, <4>2
        <5>2. QED
          BY <1>3, <5>1
      <4>3. QED
        BY <4>1, <4>2
    <3>2. QED
      BY <3>1 DEF AllOf
  <2>2. cards \in SUBSET AllOf(a.hand)
    BY <1>2, <1>3 DEF AllOf
  <2>3. QED
    BY <1>3, <2>1, <2>2 DEF Unplayed
<1>10. PointsOf(Unplayed(c)) = PointsOf(Unplayed(a)) (-) pts
  BY <1>4, <1>9, PointsDifference DEF pts
<1>11. /\ \A p \in Points : pts[p] <= remainPoints[p]
       /\ \A p \in Points : PointsOf(Unplayed(c))[p] <= remainPoints'[p]
  <2> DEFINE u == PointsOf(Unplayed(a))
             w == PointsOf(Unplayed(c))
  <2>1. u \in [Points -> Nat] /\ w \in [Points -> Nat]
    <3>1. Unplayed(a) \in SUBSET Cards /\ Unplayed(c) \in SUBSET Cards
      BY <1>4, <1>9
    <3>2. QED
      BY <3>1, PointsTyped
  <2>2. \A p \in Points : pts[p] <= u[p]
    BY <1>4, <1>9, PointsMonotone DEF pts
  <2>3. w = u (-) pts /\ \A p \in Points : u[p] <= remainPoints[p]
    BY <1>6, <1>10
  <2> HIDE DEF u, w
  <2>4. \A p \in Points : pts[p] <= remainPoints[p]
    BY <1>7, <2>1, <2>2, <2>3
  <2>5. \A p \in Points : w[p] <= remainPoints'[p]
    BY <1>1, <1>7, <2>1, <2>3 DEF (-)
  <2>6. QED
    BY <2>4, <2>5 DEF w
<1>12. remainPoints' \in [Points -> Nat]
  <2>1. remainPoints' = [p \in Points |-> remainPoints[p] - pts[p]]
    BY <1>1, <1>7 DEF (-)
  <2>2. QED
    BY <1>7, <1>11, <2>1
<1>13. otherPoints' \in [Points -> Int]
  <2>1. otherPoints (-) pts \in [Points -> Int]
    BY <1>7 DEF (-)
  <2>2. QED
    BY <1>1, <1>7, <2>1
<1>14. total' \in [Seats -> Int] /\ curHandSeat' \in Seats \cup {NoSeat}
  BY <1>1, <1>2, <1>7
<1>15. ASSUME ~rejoined' PROVE Counted(c)'
  <2>1. Counted(a)
    BY <1>1, <1>6, <1>15
  <2>2. \A s \in Seats : total'[s] = Cardinality(c.hand[s])
    <3> SUFFICES ASSUME NEW s \in Seats PROVE total'[s] = Cardinality(c.hand[s])
      OBVIOUS
    <3>1. total[s] = Cardinality(a.hand[s])
      BY <2>1 DEF Counted
    <3>2. CASE s # seat
      BY <1>1, <1>2, <1>3, <1>4, <1>7, <3>1, <3>2
    <3>3. CASE s = seat
      <4>1. Cardinality(a.hand[s] \ cards) = Cardinality(a.hand[s]) - Cardinality(cards)
        BY <1>3, <1>4, <3>3, CardSets
      <4>2. c.hand[s] = a.hand[s] \ cards
        BY <1>2, <1>3, <1>4, <3>3
      <4>3. total'[s] = total[s] - Cardinality(cards)
        BY <1>1, <1>2, <1>7, <3>3
      <4>4. QED
        BY <3>1, <4>1, <4>2, <4>3
    <3>4. QED
      BY <3>2, <3>3
  <2>3. otherPoints' = PointsOf(OthersOf(c.hand) \cup c.base)
    <3>1. otherPoints = PointsOf(OthersOf(a.hand) \cup a.base)
      BY <2>1 DEF Counted
    <3>2. CASE seat = Me
      <4>1. OthersOf(c.hand) = OthersOf(a.hand)
        BY <1>2, <1>3, <1>4, <3>2 DEF OthersOf
      <4>2. QED
        BY <1>1, <1>3, <3>1, <3>2, <4>1
    <3>3. CASE seat # Me
      <4>1. seat \in Others /\ cards \in SUBSET OthersOf(a.hand)
        BY <1>2, <1>3, <3>3 DEF OthersOf
      <4>2. OthersOf(c.hand) = OthersOf(a.hand) \ cards
        <5>1. \A s \in Others : c.hand[s] = a.hand[s] \ cards
          <6> SUFFICES ASSUME NEW s \in Others PROVE c.hand[s] = a.hand[s] \ cards
            OBVIOUS
          <6>1. CASE s = seat
            BY <1>2, <1>3, <1>4, <6>1
          <6>2. CASE s # seat
            <7>1. c.hand[s] = a.hand[s] /\ a.hand[s] \cap a.hand[seat] = {}
              BY <1>2, <1>3, <1>4, <1>5, <6>2
            <7>2. QED
              BY <1>3, <7>1
          <6>3. QED
            BY <6>1, <6>2
        <5>2. QED
          BY <5>1 DEF OthersOf
      <4>3. /\ OthersOf(c.hand) \cup c.base = (OthersOf(a.hand) \cup a.base) \ cards
            /\ cards \in SUBSET (OthersOf(a.hand) \cup a.base)
            /\ OthersOf(a.hand) \cup a.base \in SUBSET Cards
        BY <1>3, <1>4, <4>1, <4>2
      <4>4. PointsOf((OthersOf(a.hand) \cup a.base) \ cards) = otherPoints (-) pts
        BY <3>1, <4>3, PointsDifference DEF pts
      <4>5. QED
        BY <1>1, <3>3, <4>3, <4>4
    <3>4. QED
      BY <3>2, <3>3
  <2>4. remainPoints' = PointsOf(Unplayed(c))
    <3>1. remainPoints = PointsOf(Unplayed(a))
      BY <2>1 DEF Counted
    <3>2. QED
      BY <1>1, <1>10, <3>1
  <2>5. IF c.phase = "dealt" \/ c.lord = Me THEN Cardinality(c.base) = BaseSize ELSE c.base = {}
    BY <1>3, <2>1 DEF Counted
  <2>6. QED
    BY <2>2, <2>3, <2>4, <2>5 DEF Counted
<1>16. QED
  BY <1>8, <1>11, <1>12, <1>13, <1>14, <1>15

(* aiCardsVec follows an announcement: the cards the robot took out itself *)
(* are gone already, those the system played for it are removed.           *)
LEMMA KeptCardsExact ==
  ASSUME NEW m \in Message, m.type = "takeout", NEW a, NEW c, Sound(a), Sound(c), Believes(a),
         TakeOutLink(m, a, c, lastTakeOut)
  PROVE  KeptCards(m.seat, m.cards) = Bag(c.hand[Me]) (-) c.out
<1>1. /\ m.seat \in Seats /\ m.cards \in SUBSET Cards /\ Me \in Seats
  BY MessageTyped DEF Me, Seats
<1>2. /\ a.phase = "play" /\ m.cards \in SUBSET a.hand[m.seat]
      /\ c.hand = [a.hand EXCEPT ![m.seat] = @ \ m.cards]
  BY DEF TakeOutLink
<1>3. /\ a.hand \in [Seats -> SUBSET Cards] /\ a.hand[Me] \in SUBSET Cards
  BY SoundFacts
<1>4. aiCardsVec = Bag(a.hand[Me]) (-) a.out
  BY <1>2 DEF Believes
<1>5. CASE m.seat # Me
  <2>1. c.hand[Me] = a.hand[Me] /\ c.out = a.out
    BY <1>1, <1>2, <1>3, <1>5 DEF TakeOutLink
  <2>2. QED
    BY <1>4, <1>5, <2>1 DEF KeptCards
<1>6. CASE m.seat = Me
  <2>1. /\ c.hand[Me] = a.hand[Me] \ m.cards /\ c.out = NoCards /\ m.cards \in SUBSET a.hand[Me]
        /\ a.out = IF lastTakeOut = Bag(m.cards) THEN lastTakeOut ELSE NoCards
    BY <1>1, <1>2, <1>3, <1>6 DEF TakeOutLink
  <2>2. Bag(c.hand[Me]) (-) c.out = [k \in Cards |-> IF k \in a.hand[Me] \ m.cards THEN 1 ELSE 0]
    BY <2>1 DEF Bag, NoCards, (-)
  <2>3. CASE lastTakeOut = Bag(m.cards)
    <3>1. KeptCards(m.seat, m.cards) = Bag(a.hand[Me]) (-) Bag(m.cards)
      BY <1>4, <2>1, <2>3 DEF KeptCards, IsLastTakeOutCards
    <3>2. Bag(a.hand[Me]) (-) Bag(m.cards)
            = [k \in Cards |-> IF k \in a.hand[Me] \ m.cards THEN 1 ELSE 0]
      BY <2>1 DEF Bag, (-)
    <3>3. QED
      BY <2>2, <3>1, <3>2
  <2>4. CASE lastTakeOut # Bag(m.cards)
    <3>1. aiCardsVec = [k \in Cards |-> IF k \in a.hand[Me] THEN 1 ELSE 0]
      BY <1>4, <2>1, <2>4 DEF Bag, NoCards, (-)
    <3>2. KeptCards(m.seat, m.cards) = RemoveExtraCards(m.cards)
      BY <1>6, <2>4 DEF KeptCards, IsLastTakeOutCards
    <3>3. RemoveExtraCards(m.cards) = [k \in Cards |-> IF k \in a.hand[Me] \ m.cards THEN 1 ELSE 0]
      BY <2>1, <3>1 DEF RemoveExtraCards
    <3>4. QED
      BY <2>2, <3>2, <3>3
  <2>5. QED
    BY <2>3, <2>4
<1>7. QED
  BY <1>5, <1>6

(* A robot that reads an announcement believes the view after it, and      *)
(* takes out cards it holds when it is next.                               *)
LEMMA TakeOutRead ==
  ASSUME IInv, RecvGetTakeOutCardNotify
  PROVE  IInv'
<1>1. /\ ~away /\ toRobot # <<>> /\ Msg.type = "takeout" /\ Read
      /\ RbtInTakeOutCard(Msg.seat, Msg.cards)
      /\ lordSeat' = lordSeat /\ rejoined' = rejoined
  BY DEF RecvGetTakeOutCardNotify, Receives
<1>2. Msg \in Message /\ RobotTyped
  BY <1>1, ReadViews, TypeParts DEF IInv, Typed
<1>3. PICK a, b, c : /\ Sound(a) /\ Sound(b) /\ Sound(c) /\ Believes(a) /\ IsTable(b)
                     /\ Link(Msg, a, c, lastTakeOut)
                     /\ Trace(Tail(toRobot), c, b, lastTakeOut)
                     /\ Closing(Msg) => Tail(toRobot) = <<>>
  BY <1>1, ReadViews
<1>4. TakeOutLink(Msg, a, c, lastTakeOut)
  BY <1>1, <1>3 DEF Link
<1>5. /\ points' \in [Points -> Nat] /\ remainPoints' \in [Points -> Nat]
      /\ otherPoints' \in [Points -> Int] /\ total' \in [Seats -> Int]
      /\ curHandSeat' \in Seats \cup {NoSeat}
      /\ points' = PointsOf(c.hand[Me])
      /\ \A p \in Points : PointsOf(Unplayed(c))[p] <= remainPoints'[p]
      /\ ~rejoined' => Counted(c)'
  BY <1>1, <1>2, <1>3, <1>4, TakeOutCounted
<1>6. KeptCards(Msg.seat, Msg.cards) = Bag(c.hand[Me]) (-) c.out
  BY <1>1, <1>2, <1>3, <1>4, KeptCardsExact
<1>7. CASE Msg.next # Me
  <2>1. /\ aiCardsVec' = KeptCards(Msg.seat, Msg.cards)
        /\ lastTakeOut' = lastTakeOut /\ delayed' = delayed
    BY <1>7 DEF RecvGetTakeOutCardNotify
  <2>2. RobotTyped'
    <3>1. aiCardsVec' \in [Cards -> Nat]
      BY <1>2, <2>1 DEF KeptCards, RemoveExtraCards, RobotTyped
    <3>2. QED
      BY <1>1, <1>2, <1>5, <2>1, <3>1 DEF RobotTyped
  <2>3. Typed' /\ Turns'
    BY <1>1, <2>1, <2>2, ReadTyped, ReadTurns
  <2>4. IsTable(b)' /\ Trace(toRobot', c, b, lastTakeOut')
    BY <1>1, <1>3, <2>1, ReadTable DEF Read
  <2>5. Believes(c)'
    BY <1>5, <1>6, <2>1 DEF Believes
  <2>6. QED
    BY <2>3, <2>4, <2>5 DEF IInv, Agreed
<1>8. CASE Msg.next = Me
  <2>1. TakeOutFrom(KeptCards(Msg.seat, Msg.cards), points', isFree(lordSeat, curHandSeat'))
    BY <1>8 DEF RecvGetTakeOutCardNotify
  <2>2. Tail(toRobot) = <<>> /\ TurnNotice(Msg)
    BY <1>1, <1>3, <1>8 DEF Closing, TurnNotice
  <2>3. c = b
    <3>1. Trace(<<>>, c, b, lastTakeOut)
      BY <1>3, <2>2
    <3>2. QED
      BY <3>1, EmptyTrace
  <2>4. c.phase = "play"
    BY <1>4, <1>8 DEF TakeOutLink, Me, NoSeat
  <2>5. c.out = NoCards
    <3>1. toRobot \in Seq(Message)
      BY DEF IInv, Typed
    <3>2. TurnNotice(toRobot[Len(toRobot)])
      BY <1>1, <2>2, <3>1, OnlyMessage DEF Msg
    <3>3. refused = NoRefusal /\ delayed = {} /\ toServer = <<>>
      BY <1>1, <3>2, NotAnswering DEF IInv, Turns
    <3>4. QED
      BY <1>3, <2>3, <3>3 DEF IsTable, Pending
  <2>6. KeptCards(Msg.seat, Msg.cards) = Bag(c.hand[Me])
    <3>1. Bag(c.hand[Me]) = Bag(c.hand[Me]) (-) NoCards
      BY DEF Bag, NoCards, (-)
    <3>2. QED
      BY <1>6, <2>5, <3>1
  <2>7. c.hand[Me] \in SUBSET Cards /\ Bag(c.hand[Me]) \in [Cards -> 0..1]
    BY <1>3, SoundFacts, ConstantsTyped
  <2>8. PICK t \in [Cards -> 0..1] :
           /\ lastTakeOut' = t /\ delayed' = {t} /\ aiCardsVec' = Bag(c.hand[Me]) (-) t
           /\ \A k \in Cards : t[k] <= Bag(c.hand[Me])[k]
    BY <2>1, <2>6, <2>7, TakesOutHeld
  <2>9. Turns' /\ Agreed'
    BY <1>1, <1>3, <1>5, <2>2, <2>3, <2>4, <2>8, TurnAnswered
  <2>10. RobotTyped'
    <3>1. aiCardsVec' \in [Cards -> Nat]
      BY <2>7, <2>8 DEF (-)
    <3>2. Cardinality(delayed') <= 1 /\ delayed' \subseteq [Cards -> 0..1]
      <4>1. Cardinality({t}) = 1
        BY FS_Singleton
      <4>2. Cardinality(delayed') <= 1
        BY <2>8, <4>1
      <4>3. QED
        BY <2>8, <4>2
    <3>3. QED
      BY <1>1, <1>2, <1>5, <2>8, <3>1, <3>2 DEF RobotTyped
  <2>11. QED
    BY <1>1, <2>9, <2>10, ReadTyped DEF IInv
<1>9. QED
  BY <1>7, <1>8

(* A refusal or a trust notice puts back exactly the cards taken out.      *)
LEMMA RecoveryRead ==
  ASSUME IInv, ~away, toRobot # <<>>, Read, RecoveryHandCards,
         Msg.type = "trust" \/ (Msg.type = "ack" /\ ~Msg.ok)
  PROVE  IInv'
<1>1. /\ aiCardsVec' = aiCardsVec (+) lastTakeOut
      /\ lastTakeOut' = lastTakeOut /\ points' = points /\ total' = total
      /\ otherPoints' = otherPoints /\ remainPoints' = remainPoints
      /\ curHandSeat' = curHandSeat /\ lordSeat' = lordSeat /\ rejoined' = rejoined
      /\ delayed' = delayed
  BY DEF RecoveryHandCards
<1>2. PICK a, b, c : /\ Sound(a) /\ Sound(b) /\ Sound(c) /\ Believes(a) /\ IsTable(b)
                     /\ Link(Msg, a, c, lastTakeOut)
                     /\ Trace(Tail(toRobot), c, b, lastTakeOut)
  BY ReadViews
<1>3. a.phase = "play" /\ a.out = lastTakeOut /\ c = [a EXCEPT !.out = NoCards]
  BY <1>2 DEF Link, RecoveryLink
<1>4. a \in View /\ c \in View
  BY <1>2 DEF Sound
<1>5. c.hand = a.hand /\ c.phase = a.phase /\ c.lord = a.lord /\ c.base = a.base /\ c.out = NoCards
  BY <1>3, <1>4 DEF View
<1>6. aiCardsVec = Bag(a.hand[Me]) (-) lastTakeOut
  BY <1>2, <1>3 DEF Believes
<1>7. RobotTyped
  BY TypeParts DEF IInv, Typed
<1>8. aiCardsVec' = Bag(c.hand[Me]) (-) c.out /\ aiCardsVec' \in [Cards -> Nat]
  <2>1. lastTakeOut \in [Cards -> 0..1]
    BY <1>7 DEF RobotTyped
  <2>2. (Bag(a.hand[Me]) (-) lastTakeOut) (+) lastTakeOut = Bag(a.hand[Me])
    BY <2>1 DEF Bag, (+), (-)
  <2>3. Bag(c.hand[Me]) = Bag(c.hand[Me]) (-) NoCards
    BY DEF Bag, NoCards, (-)
  <2>4. c.hand[Me] \in SUBSET Cards
    BY <1>2, SoundFacts
  <2>5. QED
    BY <1>1, <1>5, <1>6, <2>2, <2>3, <2>4, ConstantsTyped
<1>9. RobotTyped'
  BY <1>1, <1>7, <1>8 DEF RobotTyped
<1>10. Typed' /\ Turns'
  BY <1>1, <1>9, ReadTyped, ReadTurns
<1>11. IsTable(b)' /\ Trace(toRobot', c, b, lastTakeOut')
  BY <1>1, <1>2, ReadTable DEF Read
<1>12. Believes(c)'
  <2>1. c.phase = "play"
    BY <1>3, <1>5
  <2>2. /\ points = PointsOf(a.hand[Me])
        /\ \A p \in Points : PointsOf(Unplayed(a))[p] <= remainPoints[p]
        /\ ~rejoined => Counted(a)
    BY <1>2, <1>3 DEF Believes
  <2>3. Unplayed(c) = Unplayed(a)
    BY <1>5 DEF Unplayed
  <2>4. ~rejoined' => Counted(c)'
    BY <1>1, <1>5, <2>2, <2>3 DEF Counted
  <2>5. QED
    BY <1>1, <1>5, <1>8, <2>2, <2>3, <2>4 DEF Believes
<1>13. QED
  BY <1>10, <1>11, <1>12 DEF IInv, Agreed

(* A positive answer changes nothing.                                      *)
LEMMA AcceptRead ==
  ASSUME IInv, ~away, toRobot # <<>>, Read, Msg.type = "ack", Msg.ok, UNCHANGED <<robotVars, delayed>>
  PROVE  IInv'
<1>1. /\ aiCardsVec' = aiCardsVec
      /\ lastTakeOut' = lastTakeOut /\ points' = points /\ total' = total
      /\ otherPoints' = otherPoints /\ remainPoints' = remainPoints
      /\ curHandSeat' = curHandSeat /\ lordSeat' = lordSeat /\ rejoined' = rejoined
      /\ delayed' = delayed
  BY DEF robotVars
<1>2. PICK a, b, c : /\ Sound(c) /\ Believes(a) /\ IsTable(b)
                     /\ Link(Msg, a, c, lastTakeOut)
                     /\ Trace(Tail(toRobot), c, b, lastTakeOut)
  BY ReadViews
<1>3. c = a
  BY <1>2 DEF Link
<1>4. RobotTyped
  BY TypeParts DEF IInv, Typed
<1>5. RobotTyped'
  BY <1>1, <1>4 DEF RobotTyped
<1>6. Typed' /\ Turns'
  BY <1>1, <1>5, ReadTyped, ReadTurns
<1>7. IsTable(b)' /\ Trace(toRobot', c, b, lastTakeOut')
  BY <1>1, <1>2, ReadTable DEF Read
<1>8. Believes(c)'
  BY <1>1, <1>2, <1>3 DEF Believes, Counted
<1>9. QED
  BY <1>6, <1>7, <1>8 DEF IInv, Agreed

(* The result ends the game; nothing follows it.                           *)
LEMMA ResultRead ==
  ASSUME IInv, RecvGetGameResultNotify
  PROVE  IInv'
<1>1. /\ ~away /\ toRobot # <<>> /\ Msg.type = "result" /\ Read
      /\ aiCardsVec' = NoCards /\ lastTakeOut' = NoCards /\ points' = Nothing
      /\ total' = [s \in Seats |-> 0] /\ remainPoints' = Deck
      /\ curHandSeat' = NoSeat /\ lordSeat' = NoSeat /\ otherPoints' = otherPoints
      /\ rejoined' = rejoined /\ delayed' = delayed
  BY DEF RecvGetGameResultNotify, Receives, RbtResetData
<1>2. PICK a, b, c : /\ Sound(a) /\ Sound(b) /\ Sound(c) /\ IsTable(b)
                     /\ Link(Msg, a, c, lastTakeOut)
                     /\ Trace(Tail(toRobot), c, b, lastTakeOut)
                     /\ Closing(Msg) => Tail(toRobot) = <<>>
  BY <1>1, ReadViews
<1>3. /\ toRobot' = <<>> /\ toServer' = toServer /\ away' = away
      /\ hands' = hands /\ turn' = turn /\ refused' = refused /\ excused' = excused
      /\ policy' = policy /\ lord' = lord
  BY <1>1, <1>2 DEF Closing, Read, tableVars
<1>4. c = b
  <2>1. Trace(<<>>, c, b, lastTakeOut)
    BY <1>1, <1>2 DEF Closing
  <2>2. QED
    BY <2>1, EmptyTrace
<1>5. c.phase = "idle"
  BY <1>1, <1>2 DEF Link
<1>6. turn = NoSeat /\ turn # Me
  BY <1>2, <1>4, <1>5 DEF IsTable, NoSeat, Me
<1>7. delayed = {} /\ toServer = <<>> /\ refused = NoRefusal /\ policy \in Refusal
  BY <1>1, <1>6, NotAnswering DEF IInv, Turns
<1>8. Turns'
  BY <1>1, <1>3, <1>6, <1>7 DEF Turns
<1>9. RobotTyped'
  <2>1. RobotTyped
    BY TypeParts DEF IInv, Typed
  <2>2. total' \in [Seats -> Int]
    BY <1>1
  <2>3. QED
    BY <1>1, <2>1, <2>2, ConstantsTyped DEF RobotTyped
<1>10. Typed'
  BY <1>1, <1>9, ReadTyped
<1>11. IsTable(b)' /\ Trace(toRobot', c, b, lastTakeOut')
  <2>1. ~Pending /\ ~Pending'
    BY <1>1, <1>3, <1>7 DEF Pending
  <2>2. QED
    BY <1>2, <1>3, <1>4, <2>1, EmptyTrace DEF IsTable
<1>12. Believes(c)'
  BY <1>5 DEF Believes
<1>13. QED
  BY <1>8, <1>10, <1>11, <1>12 DEF IInv, Agreed

(* A robot that rejoins learns its hand, and has no cards taken out.       *)
LEMMA KeepRead ==
  ASSUME IInv, RecvKeepPlayAck
  PROVE  IInv'
<1>1. /\ ~away /\ toRobot # <<>> /\ Msg.type = "keep" /\ Read
      /\ aiCardsVec' = Bag(Msg.cards) /\ lastTakeOut' = NoCards
      /\ points' = PointsOf(Msg.cards)
      /\ total' = [s \in Seats |-> IF s = Me THEN Cardinality(Msg.cards) ELSE 0]
      /\ remainPoints' = Deck /\ curHandSeat' = NoSeat /\ lordSeat' = Msg.lord
      /\ rejoined' = TRUE /\ otherPoints' = otherPoints /\ delayed' = delayed
  BY DEF RecvKeepPlayAck, Receives
<1>2. Msg \in Message
  BY <1>1, ReadViews
<1>3. Msg.cards \in SUBSET Cards /\ Msg.lord \in Seats \cup {NoSeat}
  BY <1>1, <1>2, MessageTyped
<1>4. PICK a, b, c : /\ Sound(c) /\ IsTable(b)
                     /\ Link(Msg, a, c, lastTakeOut)
                     /\ Trace(Tail(toRobot), c, b, lastTakeOut)
  BY <1>1, ReadViews
<1>5. /\ Msg.cards = c.hand[Me] /\ c.phase = "play" /\ c.out = NoCards
      /\ lastTakeOut = NoCards
  BY <1>1, <1>4 DEF Link
<1>6. lastTakeOut' = lastTakeOut
  BY <1>1, <1>5
<1>7. RobotTyped'
  <2>1. RobotTyped
    BY TypeParts DEF IInv, Typed
  <2>2. total' \in [Seats -> Int]
    BY <1>1, <1>3, CardSets
  <2>3. QED
    BY <1>1, <1>3, <2>1, <2>2, ConstantsTyped, PointsTyped DEF RobotTyped
<1>8. Typed' /\ Turns'
  BY <1>1, <1>6, <1>7, ReadTyped, ReadTurns
<1>9. IsTable(b)' /\ Trace(toRobot', c, b, lastTakeOut')
  BY <1>1, <1>4, <1>6, ReadTable DEF Read
<1>10. Believes(c)'
  <2>1. aiCardsVec' = Bag(c.hand[Me]) (-) c.out
    <3>1. Bag(c.hand[Me]) = Bag(c.hand[Me]) (-) NoCards
      BY DEF Bag, NoCards, (-)
    <3>2. QED
      BY <1>1, <1>5, <3>1
  <2>2. \A p \in Points : PointsOf(Unplayed(c))[p] <= remainPoints'[p]
    <3>1. Unplayed(c) \in SUBSET Cards
      BY <1>4, SoundFacts DEF Unplayed
    <3>2. QED
      BY <1>1, <3>1, DeckIsPoints, PointsMonotone
  <2>3. QED
    BY <1>1, <1>5, <2>1, <2>2 DEF Believes
<1>11. QED
  BY <1>8, <1>9, <1>10 DEF IInv, Agreed

-----------------------------------------------------------------------------
(* The delayed answer                                                      *)

(* The answer leaves the timer once, in the robot's turn.                  *)
LEMMA DelayedSent ==
  ASSUME IInv, DelaySendMsgTimer
  PROVE  IInv'
<1>1. PICK cards \in delayed :
        /\ delayed' = delayed \ {cards} /\ toServer' = Append(toServer, cards)
        /\ UNCHANGED <<robotVars, toRobot, tableVars, away, losses, policy>>
  BY DEF DelaySendMsgTimer
<1>2. /\ turn = Me /\ ~excused /\ refused = NoRefusal /\ toRobot = <<>>
      /\ delayed = {lastTakeOut} /\ toServer = <<>>
  BY <1>1 DEF IInv, Turns, Answering
<1>3. /\ delayed' = {} /\ toServer' = <<lastTakeOut>>
      /\ lastTakeOut' = lastTakeOut /\ toRobot' = toRobot /\ turn' = turn
      /\ excused' = excused /\ refused' = refused /\ away' = away /\ policy' = policy
      /\ hands' = hands /\ lord' = lord
  <2>1. cards = lastTakeOut
    BY <1>1, <1>2
  <2>2. Append(<<>>, lastTakeOut) = <<lastTakeOut>>
    OBVIOUS
  <2>3. toServer' = <<lastTakeOut>>
    BY <1>1, <1>2, <2>1, <2>2
  <2>4. QED
    BY <1>1, <1>2, <2>1, <2>3 DEF robotVars, tableVars
<1>4. ~away /\ policy \in Refusal
  BY <1>1 DEF IInv, Turns
<1>5. toServer' # <<>>
  BY <1>3
<1>6. Turns'
  BY <1>2, <1>3, <1>4 DEF Turns, Answering
<1>7. Typed'
  <2>1. Cardinality({}) = 0
    BY FS_EmptySet
  <2>2. Cardinality(delayed') <= 1 /\ delayed' \subseteq [Cards -> 0..1]
    BY <1>3, <2>1
  <2>3. RobotTyped /\ TableTyped /\ toRobot \in Seq(Message)
    BY TypeParts DEF IInv, Typed
  <2>4. RobotTyped'
    BY <1>1, <2>2, <2>3 DEF RobotTyped, robotVars
  <2>5. TableTyped'
    BY <1>1, <2>3 DEF TableTyped, tableVars
  <2>6. QED
    BY <1>3, <2>3, <2>4, <2>5, TypePartsNext DEF Typed
<1>8. Agreed'
  <2>1. PICK a, b : /\ Trace(toRobot, a, b, lastTakeOut) /\ IsTable(b)
                    /\ ~away => Believes(a)
    BY DEF IInv, Agreed
  <2>2. Pending /\ Pending'
    BY <1>1, <1>5 DEF Pending
  <2>3. IsTable(b)'
    BY <1>3, <2>1, <2>2 DEF IsTable
  <2>4. Believes(a)'
    BY <1>1, <1>4, <2>1 DEF Believes, Counted, robotVars
  <2>5. Trace(toRobot', a, b, lastTakeOut')
    BY <1>3, <2>1
  <2>6. QED
    BY <2>3, <2>4, <2>5 DEF Agreed
<1>9. QED
  BY <1>6, <1>7, <1>8 DEF IInv

-----------------------------------------------------------------------------
(* Cards that are played                                                   *)

(* The result comes last.                                                  *)
LEMMA ResultEnds ==
  ASSUME NEW q \in Seq(Message), NEW a, NEW b, NEW last, Trace(q, a, b, last), q # <<>>,
         q[Len(q)].type = "result"
  PROVE  b.phase = "idle"
<1>1. PICK f : /\ f[1] = a /\ f[Len(q) + 1] = b
               /\ \A i \in 1..(Len(q) + 1) : Sound(f[i])
               /\ \A i \in 1..Len(q) : Link(q[i], f[i], f[i + 1], last)
  BY DEF Trace
<1> DEFINE n == Len(q)
<1>2. n \in Nat \ {0}
  BY EmptySeq
<1>3. n \in 1..n /\ n \in 1..(n + 1)
  BY <1>2
<1>4. Link(q[n], f[n], b, last) /\ Sound(f[n])
  BY <1>1, <1>3
<1>5. QED
  BY <1>4 DEF Link

(* While a player other than NoSeat is to play and the robot is not asked, *)
(* messages may be added.                                                  *)
LEMMA NotClosed ==
  ASSUME IInv, turn # NoSeat, turn # Me \/ excused \/ toRobot = <<>>
  PROVE  toRobot # <<>> => ~Closing(toRobot[Len(toRobot)])
<1> SUFFICES ASSUME toRobot # <<>>, Closing(toRobot[Len(toRobot)]) PROVE FALSE
  OBVIOUS
<1>1. ~TurnNotice(toRobot[Len(toRobot)])
  BY DEF IInv, Turns
<1>2. toRobot[Len(toRobot)].type = "result"
  BY <1>1 DEF Closing
<1>3. PICK a, b : Trace(toRobot, a, b, lastTakeOut) /\ IsTable(b)
  BY DEF IInv, Agreed
<1>4. b.phase = "idle"
  BY <1>2, <1>3, ResultEnds DEF IInv, Typed
<1>5. b.phase = "play"
  BY <1>3 DEF IsTable
<1>6. QED
  BY <1>4, <1>5

(* The announcement of cards, and the view after them.                     *)
Told(seat, next, cards) == [type |-> "takeout", seat |-> seat, next |-> next, cards |-> cards]
Result(next) == IF next = NoSeat THEN <<[type |-> "result"]>> ELSE <<>>
Notices(seat, next, cards) == <<Told(seat, next, cards)>> \o Result(next)
After(v, seat, cards, phase) ==
  [hand |-> [v.hand EXCEPT ![seat] = @ \ cards], out |-> IF seat = Me THEN NoCards ELSE v.out,
   phase |-> phase, lord |-> v.lord, base |-> v.base]

(* The view after a play is sound.                                         *)
LEMMA AfterSound ==
  ASSUME NEW v, Sound(v), NEW seat \in Seats, NEW cards \in SUBSET v.hand[seat], NEW phase \in Phases
  PROVE  Sound(After(v, seat, cards, phase))
<1> DEFINE w == After(v, seat, cards, phase)
<1>1. /\ w.hand = [v.hand EXCEPT ![seat] = @ \ cards] /\ w.phase = phase
      /\ w.out = (IF seat = Me THEN NoCards ELSE v.out) /\ w.lord = v.lord /\ w.base = v.base
  BY DEF After
<1>2. /\ v.hand \in [Seats -> SUBSET Cards] /\ v.out \in [Cards -> 0..1] /\ v.base \in SUBSET Cards
      /\ v.base \cap OthersOf(v.hand) = {} /\ v.lord \in Seats \cup {NoSeat}
  BY SoundFacts DEF Sound, View
<1>3. w \in View
  <2>1. [v.hand EXCEPT ![seat] = @ \ cards] \in [Seats -> SUBSET Cards]
    BY <1>2
  <2>2. (IF seat = Me THEN NoCards ELSE v.out) \in [Cards -> 0..1]
    BY <1>2, ConstantsTyped
  <2>3. QED
    BY <1>2, <2>1, <2>2 DEF View, After
<1>4. \A s \in Seats : w.hand[s] \in SUBSET v.hand[s]
  BY <1>1, <1>2
<1>5. \A s, t \in Seats : s # t => w.hand[s] \cap w.hand[t] = {}
  <2>1. \A s, t \in Seats : s # t => v.hand[s] \cap v.hand[t] = {}
    BY DEF Sound
  <2>2. QED
    BY <1>4, <2>1
<1>6. w.base \cap OthersOf(w.hand) = {}
  BY <1>1, <1>2, <1>4 DEF OthersOf, Others
<1>7. \A k \in Cards : w.out[k] <= Bag(w.hand[Me])[k]
  <2>1. CASE seat = Me
    BY <1>1, <2>1 DEF NoCards, Bag
  <2>2. CASE seat # Me
    <3>1. w.hand[Me] = v.hand[Me]
      BY <1>1, <1>2, <2>2 DEF Me, Seats
    <3>2. QED
      BY <1>1, <2>2, <3>1 DEF Sound
  <2>3. QED
    BY <2>1, <2>2
<1> HIDE DEF w
<1>8. Sound(w)
  BY <1>3, <1>5, <1>6, <1>7 DEF Sound
<1>9. QED
  BY <1>8 DEF w

(* A play extends the trace, by its announcement and at the end of the     *)
(* game by the result.                                                     *)
LEMMA PlayTrace ==
  ASSUME NEW q \in Seq(Message), NEW a, NEW v, NEW last, Trace(q, a, v, last),
         q # <<>> => ~Closing(q[Len(q)]), v.phase = "play",
         NEW seat \in Seats, NEW cards \in SUBSET v.hand[seat], NEW next \in Seats \cup {NoSeat},
         seat = Me => v.out = IF last = Bag(cards) THEN last ELSE NoCards
  PROVE  \A r : r = q \o Notices(seat, next, cards) =>
           /\ r \in Seq(Message)
           /\ TurnNotice(r[Len(r)]) => next = Me
           /\ Trace(r, a, After(v, seat, cards, IF next = NoSeat THEN "idle" ELSE "play"), last)
<1> DEFINE told == Told(seat, next, cards)
           result == [type |-> "result"]
           mid == After(v, seat, cards, IF next = NoSeat THEN "over" ELSE "play")
           end == After(v, seat, cards, "idle")
<1>1. Sound(v) /\ v.hand \in [Seats -> SUBSET Cards]
  BY TraceEnds, SoundFacts
<1>2. Sound(mid) /\ Sound(end)
  BY <1>1, AfterSound DEF Phases
<1>3. told \in Message /\ result \in Message
  <2>1. cards \in SUBSET Cards
    BY <1>1
  <2>2. told \in [type : {"takeout"}, seat : Seats, next : Seats \cup {NoSeat}, cards : SUBSET Cards]
    BY <2>1 DEF Told
  <2>3. result \in [type : {"trust", "result"}]
    OBVIOUS
  <2>4. QED
    BY <2>2, <2>3 DEF Message
<1>4. /\ told.type = "takeout" /\ told.seat = seat /\ told.next = next /\ told.cards = cards
      /\ result.type = "result"
  BY DEF Told
<1>5. Link(told, v, mid, last)
  <2>1. TakeOutLink(told, v, mid, last)
    BY <1>4 DEF TakeOutLink, After
  <2>2. QED
    BY <1>4, <2>1 DEF Link
<1> HIDE DEF told, result
<1>6. Trace(Append(q, told), a, mid, last) /\ Append(q, told) \in Seq(Message)
  BY <1>2, <1>3, <1>5, SendTrace, AppendProperties
<1>7. Append(q, told)[Len(Append(q, told))] = told /\ Append(q, told) # <<>>
  BY <1>3, AppendProperties
<1>8. CASE next # NoSeat
  <2>1. q \o (<<told>> \o <<>>) = Append(q, told)
    <3>1. <<told>> \in Seq(Message)
      BY <1>3
    <3>2. <<told>> \o <<>> = <<told>>
      BY <3>1, ConcatEmptySeq
    <3>3. QED
      BY <1>3, <3>2, AppendIsConcat
  <2>2. TurnNotice(told) => next = Me
    BY <1>4 DEF TurnNotice
  <2>3. mid = After(v, seat, cards, "play")
    BY <1>8
  <2>4. Result(next) = <<>>
    BY <1>8 DEF Result
  <2> HIDE DEF mid
  <2>5. QED
    BY <1>6, <1>7, <1>8, <2>1, <2>2, <2>3, <2>4 DEF told, Notices
<1>9. CASE next = NoSeat
  <2>1. mid.phase = "over" /\ end.phase = "idle"
    BY <1>9 DEF After
  <2>2. Link(result, mid, end, last)
    BY <1>4, <2>1 DEF Link
  <2>3. ~Closing(told)
    BY <1>4, <1>9 DEF Closing, TurnNotice, NoSeat, Me
  <2> DEFINE r == Append(Append(q, told), result)
  <2>4. Trace(r, a, end, last) /\ r \in Seq(Message) /\ r # <<>> /\ r[Len(r)] = result
    <3> HIDE DEF mid, end
    <3>1. Trace(r, a, end, last)
      BY <1>2, <1>3, <1>6, <1>7, <2>2, <2>3, SendTrace
    <3>2. QED
      BY <1>3, <1>6, <3>1, AppendProperties
  <2>5. q \o (<<told>> \o <<result>>) = r
    <3>1. <<told>> \in Seq(Message) /\ <<result>> \in Seq(Message)
      BY <1>3
    <3>2. (q \o <<told>>) \o <<result>> = q \o (<<told>> \o <<result>>)
      BY <3>1, ConcatAssociative
    <3>3. q \o <<told>> = Append(q, told)
      BY <1>3, AppendIsConcat
    <3>4. Append(q, told) \o <<result>> = r
      BY <1>3, <1>6, AppendIsConcat
    <3>5. QED
      BY <3>2, <3>3, <3>4
  <2>6. ~TurnNotice(result)
    BY <1>4 DEF TurnNotice
  <2>7. Result(next) = <<result>>
    BY <1>9 DEF Result, result
  <2> HIDE DEF r, end
  <2>8. QED
    BY <1>9, <2>4, <2>5, <2>6, <2>7 DEF told, end, Notices
<1>10. QED
  BY <1>8, <1>9

(* Sequences of messages may be grouped either way.                        *)
LEMMA Grouping ==
  ASSUME NEW q \in Seq(Message), NEW x \in Seq(Message), NEW z \in Seq(Message)
  PROVE  q \o (x \o z) = (q \o x) \o z
  BY ConcatAssociative

(* The notices of a play reach a connected robot in the order of Play.     *)
LEMMA PushedInOrder ==
  ASSUME toRobot \in Seq(Message), ~away, NEW x \in Seq(Message), NEW m \in Message,
         NEW r \in Seq(Message), Push(x \o <<m>> \o <<>> \o r)
  PROVE  toRobot' = (toRobot \o x) \o (<<m>> \o r)
<1>1. toRobot' = toRobot \o (((x \o <<m>>) \o <<>>) \o r)
  BY DEF Push
<1>2. PICK y \in Seq(Message) : y = <<m>>
  <2>1. <<m>> \in Seq(Message)
    OBVIOUS
  <2>2. QED
    BY <2>1, Zenon
<1>3. PICK z \in Seq(Message) : z = y \o r
  BY ConcatProperties
<1>4. x \o y \in Seq(Message)
  BY ConcatProperties
<1>5. (x \o y) \o <<>> = x \o y
  BY <1>4, ConcatEmptySeq
<1>6. (x \o y) \o r = x \o z
  BY <1>3, ConcatAssociative
<1>7. toRobot \o (x \o z) = (toRobot \o x) \o z
  <2>1. \A q \in Seq(Message) : q \o (x \o z) = (q \o x) \o z
    BY Grouping
  <2>2. QED
    BY <2>1
<1>8. QED
  BY <1>1, <1>2, <1>3, <1>5, <1>6, <1>7

(* A play keeps the invariant: of the player to move, with the notices     *)
(* before it and the view v they lead to.                                  *)
LEMMA PlayKeeps ==
  ASSUME IInv, NEW seat \in Seats, turn = seat, NEW cards \in SUBSET hands[seat],
         NEW before \in Seq(Message), Play(seat, cards, before, <<>>), UNCHANGED <<robotVars, away, losses, policy>>,
         delayed = {}, delayed' = {}, toServer' = <<>>,
         NEW a, NEW v, Sound(v), v.hand = hands, v.lord = lord, v.phase = "play",
         seat = Me => v.out = (IF lastTakeOut = Bag(cards) THEN lastTakeOut ELSE NoCards),
         seat # Me => v.out = NoCards,
         ~away => /\ Believes(a) /\ Trace(toRobot \o before, a, v, lastTakeOut)
                  /\ LET q == toRobot \o before IN q # <<>> => ~Closing(q[Len(q)])
  PROVE  IInv'
<1> DEFINE over == cards = hands[seat]
<1>0. PICK next \in Seats \cup {NoSeat} :
        (next = NoSeat <=> over) /\ next = IF over THEN NoSeat ELSE (seat + 1) % 3
  <2>1. (seat + 1) % 3 \in Seats
    BY DEF Seats
  <2>2. NoSeat \notin Seats
    BY DEF NoSeat, Seats
  <2>3. QED
    BY <2>1, <2>2
<1> DEFINE phase == IF next = NoSeat THEN "idle" ELSE "play"
           q == toRobot \o before
           end == Result(next)
           w == After(v, seat, cards, phase)
<1>1. /\ hands' = [hands EXCEPT ![seat] = @ \ cards] /\ turn' = next
      /\ top' = (IF cards = {} THEN top ELSE seat)
      /\ refused' = NoRefusal /\ excused' = (next = Me /\ away) /\ lord' = lord
      /\ Push(before \o <<Told(seat, next, cards)>> \o <<>> \o end)
  BY <1>0 DEF Play, Told, Result
<1>2. /\ aiCardsVec' = aiCardsVec /\ lastTakeOut' = lastTakeOut /\ points' = points
      /\ total' = total /\ otherPoints' = otherPoints /\ remainPoints' = remainPoints
      /\ curHandSeat' = curHandSeat /\ lordSeat' = lordSeat /\ rejoined' = rejoined
      /\ away' = away /\ losses' = losses /\ policy' = policy
  BY DEF robotVars
<1>4. TableTyped /\ RobotTyped /\ toRobot \in Seq(Message) /\ hands \in [Seats -> SUBSET Cards]
  BY TypeParts DEF IInv, Typed, TableTyped
<1>5. cards \in SUBSET v.hand[seat] /\ Sound(w)
  <2>1. cards \in SUBSET v.hand[seat]
    OBVIOUS
  <2>2. phase \in Phases
    BY DEF Phases
  <2>3. QED
    BY <2>1, <2>2, AfterSound
<1>6. ASSUME ~away
      PROVE  /\ toRobot' \in Seq(Message)
             /\ TurnNotice(toRobot'[Len(toRobot')]) => next = Me
             /\ Trace(toRobot', a, w, lastTakeOut)
  <2>1. q \in Seq(Message)
    BY <1>4, ConcatProperties
  <2>2. end \in Seq(Message)
    <3>1. [type |-> "result"] \in [type : {"trust", "result"}]
      OBVIOUS
    <3>2. [type |-> "result"] \in Message
      BY <3>1 DEF Message
    <3>3. QED
      BY <3>2 DEF Result
  <2>3. Told(seat, next, cards) \in Message
    <3>1. cards \in SUBSET Cards
      BY <1>4
    <3>2. Told(seat, next, cards) \in [type : {"takeout"}, seat : Seats, next : Seats \cup {NoSeat}, cards : SUBSET Cards]
      BY <3>1 DEF Told
    <3>3. QED
      BY <3>2 DEF Message
  <2>4. toRobot' = q \o Notices(seat, next, cards)
    BY <1>1, <1>4, <1>6, <2>2, <2>3, PushedInOrder DEF Notices
  <2>5. Trace(q, a, v, lastTakeOut) /\ (q # <<>> => ~Closing(q[Len(q)]))
    BY <1>6
  <2> HIDE DEF q
  <2>6. ASSUME NEW p \in Seq(Message), NEW last, last = lastTakeOut, Trace(p, a, v, last),
               p # <<>> => ~Closing(p[Len(p)])
        PROVE  \A r : r = p \o Notices(seat, next, cards) =>
                 /\ r \in Seq(Message)
                 /\ TurnNotice(r[Len(r)]) => next = Me
                 /\ Trace(r, a, w, last)
    <3>1. seat = Me => v.out = IF last = Bag(cards) THEN last ELSE NoCards
      BY <2>6
    <3>2. cards \in SUBSET v.hand[seat]
      BY <1>5
    <3>3. next \in Seats \cup {NoSeat} /\ seat \in Seats /\ v.phase = "play" /\ p \in Seq(Message)
      OBVIOUS
    <3>4. Trace(p, a, v, last) /\ (p # <<>> => ~Closing(p[Len(p)]))
      BY <2>6
    <3> HIDE DEF w, phase
    <3>5. \A r : r = p \o Notices(seat, next, cards) =>
                 /\ r \in Seq(Message)
                 /\ TurnNotice(r[Len(r)]) => next = Me
                 /\ Trace(r, a, After(v, seat, cards, IF next = NoSeat THEN "idle" ELSE "play"), last)
      BY <3>1, <3>2, <3>3, <3>4, PlayTrace
    <3>6. QED
      BY <3>5 DEF w, phase
  <2>7. QED
    BY <2>1, <2>4, <2>5, <2>6
<1>7. away => toRobot = <<>> /\ toRobot' = <<>> /\ lastTakeOut = NoCards
  BY <1>1 DEF IInv, Turns, Push
<1>8. Typed'
  <2>1. RobotTyped'
    BY <1>2, <1>4 DEF RobotTyped
  <2>2. TableTyped'
    <3>1. hands' \in [Seats -> SUBSET Cards]
      BY <1>1, <1>4
    <3>2. {lord, turn, top}' \subseteq Seats \cup {NoSeat}
      BY <1>1, <1>4 DEF TableTyped
    <3>3. QED
      BY <1>2, <1>4, <3>1, <3>2 DEF TableTyped
  <2>3. toRobot' \in Seq(Message)
    BY <1>4, <1>6, <1>7
  <2>4. QED
    BY <2>1, <2>2, <2>3, TypePartsNext DEF Typed
<1>9. Turns'
  <2>1. toRobot' # <<>> /\ TurnNotice(toRobot'[Len(toRobot')]) => ~away /\ turn' = Me
    BY <1>1, <1>6, <1>7
  <2>2. excused' => lastTakeOut' = NoCards
    BY <1>1, <1>2, <1>7
  <2>3. away' => /\ toRobot' = <<>> /\ toServer' = <<>> /\ delayed' = {}
                 /\ lastTakeOut' = NoCards /\ refused' = NoRefusal
    BY <1>1, <1>2, <1>7
  <2>4. policy' \in Refusal
    BY <1>2 DEF IInv, Turns
  <2>5. ~away => ~excused'
    BY <1>1
  <2>6. QED
    BY <1>1, <2>1, <2>2, <2>3, <2>4, <2>5 DEF Turns
<1>10. Agreed'
  <2>1. IsTable(w)'
    <3>1. ~Pending'
      BY <1>1 DEF Pending
    <3>2. w.out = NoCards
      BY DEF After
    <3>3. w.hand = hands' /\ w.lord = lord' /\ w.phase = IF turn' = NoSeat THEN "idle" ELSE "play"
      BY <1>1 DEF After
    <3> HIDE DEF w
    <3>4. QED
      BY <3>1, <3>2, <3>3 DEF IsTable
  <2>2. CASE away
    <3>1. Trace(toRobot', w, w, lastTakeOut')
      BY <1>5, <1>7, <2>2, EmptyTrace
    <3>2. QED
      BY <1>2, <2>1, <2>2, <3>1 DEF Agreed
  <2>3. CASE ~away
    <3>1. Trace(toRobot', a, w, lastTakeOut')
      BY <1>2, <1>6, <2>3
    <3>2. Believes(a)'
      BY <1>2, <2>3 DEF Believes, Counted
    <3>3. QED
      BY <2>1, <3>1, <3>2 DEF Agreed
  <2>4. QED
    BY <2>2, <2>3
<1>11. QED
  BY <1>8, <1>9, <1>10 DEF IInv

(* Another player's cards keep the invariant.                              *)
LEMMA OtherKeeps ==
  ASSUME IInv, OtherTakesOut
  PROVE  IInv'
<1>1. PICK seat \in Others : seat = turn
  BY DEF OtherTakesOut
<1>2. /\ seat \in Seats /\ seat # Me /\ seat # NoSeat
  BY DEF Others, Seats, Me, NoSeat
<1>3. PICK cards \in SUBSET hands[seat] : Play(seat, cards, <<>>, <<>>)
  BY <1>1 DEF OtherTakesOut, Playable
<1>4. UNCHANGED <<robotVars, delayed, toServer, away, losses, policy>>
  BY DEF OtherTakesOut
<1>5. delayed = {} /\ toServer = <<>> /\ refused = NoRefusal
  BY <1>1, <1>2 DEF IInv, Turns, Answering
<1>6. PICK a, v : /\ Trace(toRobot, a, v, lastTakeOut) /\ IsTable(v)
                  /\ ~away => Believes(a)
  BY DEF IInv, Agreed
<1>7. toRobot \in Seq(Message) /\ <<>> \in Seq(Message)
  BY DEF IInv, Typed
<1>8. Sound(v)
  BY <1>6, <1>7, TraceEnds
<1>9. v.hand = hands /\ v.lord = lord /\ v.phase = "play" /\ v.out = NoCards
  BY <1>1, <1>2, <1>5, <1>6 DEF IsTable, Pending
<1>10. toRobot \o <<>> = toRobot
  BY <1>7, ConcatEmptySeq
<1>11. toRobot # <<>> => ~Closing(toRobot[Len(toRobot)])
  BY <1>1, <1>2, NotClosed
<1>12. ~away => /\ Believes(a) /\ Trace(toRobot \o <<>>, a, v, lastTakeOut)
                /\ LET q == toRobot \o <<>> IN q # <<>> => ~Closing(q[Len(q)])
  BY <1>6, <1>10, <1>11
<1>13. QED
  BY <1>1, <1>2, <1>3, <1>4, <1>5, <1>7, <1>8, <1>9, <1>12, PlayKeeps

(* A notice that makes the robot put its cards back leads to a view with   *)
(* none taken out.                                                         *)
Recovers(m) == m.type = "trust" \/ (m.type = "ack" /\ ~m.ok)
Recovered(r, a, v, w, last) ==
  /\ Sound(w) /\ Trace(r, a, w, last)
  /\ w.hand = v.hand /\ w.lord = v.lord /\ w.phase = "play" /\ w.out = NoCards

(* Such a notice may be sent after any message that closes nothing.        *)
LEMMA RecoverySent ==
  ASSUME NEW q \in Seq(Message), NEW a, NEW v, NEW last, Trace(q, a, v, last),
         q # <<>> => ~Closing(q[Len(q)]), v.phase = "play", v.out = last,
         NEW m \in Message, Recovers(m)
  PROVE  \E w : Recovered(Append(q, m), a, v, w, last)
<1> DEFINE w == [v EXCEPT !.out = NoCards]
<1>1. Sound(v) /\ v \in View
  BY TraceEnds DEF Sound
<1>2. /\ w \in View /\ w.hand = v.hand /\ w.lord = v.lord /\ w.phase = v.phase
      /\ w.base = v.base /\ w.out = NoCards
  BY <1>1, ConstantsTyped DEF View
<1>3. Link(m, v, w, last)
  BY DEF Link, RecoveryLink, Recovers
<1> HIDE DEF w
<1>4. Sound(w)
  <2>1. \A c \in Cards : w.out[c] <= Bag(w.hand[Me])[c]
    BY <1>2 DEF NoCards, Bag
  <2>2. QED
    BY <1>1, <1>2, <2>1 DEF Sound
<1>5. Trace(Append(q, m), a, w, last)
  BY <1>3, <1>4, SendTrace
<1>6. Recovered(Append(q, m), a, v, w, last)
  BY <1>2, <1>4, <1>5 DEF Recovered
<1>7. QED
  BY <1>6

(* The answers of the table are messages that close nothing.               *)
LEMMA AnswersTyped ==
  /\ [type |-> "ack", ok |-> TRUE] \in Message /\ [type |-> "ack", ok |-> FALSE] \in Message
  /\ [type |-> "trust"] \in Message
  /\ ~Closing([type |-> "ack", ok |-> TRUE]) /\ ~Closing([type |-> "ack", ok |-> FALSE])
  /\ ~Closing([type |-> "trust"])
<1>1. [type |-> "ack", ok |-> TRUE] \in Message /\ [type |-> "ack", ok |-> FALSE] \in Message
  <2>1. /\ [type |-> "ack", ok |-> TRUE] \in [type : {"ack"}, ok : BOOLEAN]
        /\ [type |-> "ack", ok |-> FALSE] \in [type : {"ack"}, ok : BOOLEAN]
    OBVIOUS
  <2>2. QED
    BY <2>1 DEF Message
<1>2. [type |-> "trust"] \in Message
  <2>1. [type |-> "trust"] \in [type : {"trust", "result"}]
    OBVIOUS
  <2>2. QED
    BY <2>1 DEF Message
<1>3. /\ ~Closing([type |-> "ack", ok |-> TRUE]) /\ ~Closing([type |-> "ack", ok |-> FALSE])
      /\ ~Closing([type |-> "trust"])
  BY DEF Closing, TurnNotice
<1>4. QED
  BY <1>1, <1>2, <1>3

(* The table takes the robot's cards: they are the ones it remembers.      *)
LEMMA AcceptKeeps ==
  ASSUME IInv, toServer # <<>>, turn = Me, toServer' = Tail(toServer),
         NEW cards \in SUBSET hands[Me], Head(toServer) = Bag(cards),
         Play(Me, cards, <<[type |-> "ack", ok |-> TRUE]>>, <<>>),
         UNCHANGED <<robotVars, delayed, away, losses, policy>>
  PROVE  IInv'
<1> DEFINE ack == [type |-> "ack", ok |-> TRUE]
<1>1. /\ delayed = {} /\ toServer = <<lastTakeOut>> /\ toRobot = <<>> /\ ~away
  BY DEF IInv, Turns, Answering
<1>2. toServer' = <<>> /\ delayed' = {} /\ lastTakeOut = Bag(cards)
  BY <1>1
<1>3. PICK a, v : Trace(toRobot, a, v, lastTakeOut) /\ IsTable(v) /\ Believes(a)
  BY <1>1 DEF IInv, Agreed
<1>4. toRobot \in Seq(Message) /\ ack \in Message /\ ~Closing(ack)
  BY AnswersTyped DEF IInv, Typed
<1>5. Sound(v)
  BY <1>3, <1>4, TraceEnds
<1>6. Pending /\ v.hand = hands /\ v.lord = lord /\ v.phase = "play" /\ v.out = lastTakeOut
  BY <1>3 DEF IsTable, Pending, Me, NoSeat
<1>7. Link(ack, v, v, lastTakeOut)
  BY <1>6 DEF Link
<1>8. toRobot \o <<ack>> = <<ack>> /\ Append(toRobot, ack) = <<ack>> /\ <<ack>> \in Seq(Message)
  <2>1. <<ack>> \in Seq(Message)
    BY <1>4
  <2>2. <<>> \o <<ack>> = <<ack>>
    BY <2>1, ConcatEmptySeq
  <2>3. Append(<<>>, ack) = <<ack>>
    OBVIOUS
  <2>4. QED
    BY <1>1, <2>1, <2>2, <2>3
<1>9. Trace(<<ack>>, a, v, lastTakeOut)
  <2> HIDE DEF ack
  <2>1. Trace(Append(toRobot, ack), a, v, lastTakeOut)
    BY <1>1, <1>3, <1>4, <1>5, <1>7, SendTrace
  <2>2. QED
    BY <1>8, <2>1
<1>10. /\ Trace(toRobot \o <<ack>>, a, v, lastTakeOut)
       /\ LET q == toRobot \o <<ack>> IN q # <<>> => ~Closing(q[Len(q)])
  <2>1. Len(<<ack>>) = 1 /\ <<ack>>[1] = ack
    OBVIOUS
  <2> HIDE DEF ack
  <2>2. ~Closing(<<ack>>[Len(<<ack>>)])
    BY <1>4, <2>1
  <2>3. QED
    BY <1>8, <1>9, <2>2
<1>11. Me \in Seats /\ UNCHANGED <<robotVars, away, losses, policy>>
  BY DEF Me, Seats
<1>12. QED
  BY <1>1, <1>2, <1>3, <1>5, <1>6, <1>8, <1>10, <1>11, PlayKeeps

(* A refusal keeps the invariant: the cards are pending until the table    *)
(* told the robot, by its answer or by a trust notice.                     *)
LEMMA RefusalKeeps ==
  ASSUME ToldOnce, IInv, toServer # <<>>, turn = Me, toServer' = Tail(toServer),
         refused' = Head(toServer), excused' = TRUE,
         Push(IF policy \in {"ack", "ack_and_trust"} THEN <<[type |-> "ack", ok |-> FALSE]>> ELSE <<>>),
         UNCHANGED <<hands, lord, turn, top>>,
         UNCHANGED <<robotVars, delayed, away, losses, policy>>
  PROVE  IInv'
<1> DEFINE ack == [type |-> "ack", ok |-> FALSE]
<1>1. /\ delayed = {} /\ toServer = <<lastTakeOut>> /\ toRobot = <<>> /\ ~away
  BY DEF IInv, Turns, Answering
<1>2. /\ toServer' = <<>> /\ refused' = lastTakeOut
      /\ hands' = hands /\ lord' = lord /\ turn' = turn /\ top' = top
      /\ aiCardsVec' = aiCardsVec /\ lastTakeOut' = lastTakeOut /\ points' = points
      /\ total' = total /\ otherPoints' = otherPoints /\ remainPoints' = remainPoints
      /\ curHandSeat' = curHandSeat /\ lordSeat' = lordSeat /\ rejoined' = rejoined
      /\ delayed' = {} /\ away' = away /\ losses' = losses /\ policy' = policy
  BY <1>1 DEF robotVars
<1>3. PICK a, v : Trace(toRobot, a, v, lastTakeOut) /\ IsTable(v) /\ Believes(a)
  BY <1>1 DEF IInv, Agreed
<1>4. toRobot \in Seq(Message) /\ ack \in Message /\ ~Closing(ack) /\ TableTyped /\ RobotTyped
  BY AnswersTyped, TypeParts DEF IInv, Typed
<1>5. Pending /\ v.hand = hands /\ v.lord = lord /\ v.phase = "play" /\ v.out = lastTakeOut
  BY <1>3 DEF IsTable, Pending, Me, NoSeat
<1>6. lastTakeOut # NoRefusal /\ policy \in {"ack", "trust"} /\ policy \in Refusal
  BY <1>4, NoRefusalIsNoHand DEF IInv, Turns, RobotTyped, ToldOnce
<1>7. Believes(a)'
  BY <1>2, <1>3 DEF Believes, Counted
<1>8. Typed' /\ Agreed' /\ ~(toRobot' # <<>> /\ TurnNotice(toRobot'[Len(toRobot')]))
  <2>1. RobotTyped' /\ TableTyped'
    <3>1. Cardinality(delayed') <= 1 /\ delayed' \subseteq [Cards -> 0..1]
      BY <1>1, <1>2, <1>4 DEF RobotTyped
    <3>2. RobotTyped'
      BY <1>2, <1>4, <3>1 DEF RobotTyped
    <3>3. TableTyped'
      BY <1>2, <1>4 DEF TableTyped
    <3>4. QED
      BY <3>2, <3>3
  <2>2. CASE policy = "ack"
    <3>1. toRobot' = <<ack>> /\ <<ack>> \in Seq(Message) /\ Append(toRobot, ack) = <<ack>>
      <4>1. <<ack>> \in Seq(Message)
        BY <1>4
      <4>2. <<>> \o <<ack>> = <<ack>>
        BY <4>1, ConcatEmptySeq
      <4>3. Append(<<>>, ack) = <<ack>>
        OBVIOUS
      <4>4. toRobot' = toRobot \o <<ack>>
        BY <1>1, <2>2 DEF Push
      <4>5. QED
        BY <1>1, <4>1, <4>2, <4>3, <4>4
    <3>2. Recovers(ack)
      BY DEF Recovers
    <3>3. Len(<<ack>>) = 1 /\ <<ack>>[1] = ack
      OBVIOUS
    <3> HIDE DEF ack
    <3>4. PICK w : /\ Sound(w) /\ Trace(Append(toRobot, ack), a, w, lastTakeOut)
                   /\ w.hand = v.hand /\ w.lord = v.lord /\ w.phase = "play" /\ w.out = NoCards
      <4>1. /\ toRobot \in Seq(Message) /\ ack \in Message
            /\ Trace(toRobot, a, v, lastTakeOut)
            /\ toRobot # <<>> => ~Closing(toRobot[Len(toRobot)])
            /\ v.phase = "play" /\ v.out = lastTakeOut
        BY <1>1, <1>3, <1>4, <1>5
      <4>2. \E w : Recovered(Append(toRobot, ack), a, v, w, lastTakeOut)
        BY <3>2, <4>1, RecoverySent, Zenon
      <4>3. QED
        BY <4>2 DEF Recovered
    <3>5. ~Pending'
      BY <1>2, <2>2 DEF Pending
    <3>6. IsTable(w)'
      BY <1>2, <1>5, <3>4, <3>5 DEF IsTable, Me, NoSeat
    <3>7. Trace(toRobot', a, w, lastTakeOut')
      BY <1>2, <3>1, <3>4
    <3>8. ~TurnNotice(toRobot'[Len(toRobot')])
      BY <1>4, <3>1, <3>3 DEF Closing
    <3>9. QED
      BY <1>7, <2>1, <3>1, <3>6, <3>7, <3>8, TypePartsNext DEF Typed, Agreed
  <2>3. CASE policy = "trust"
    <3>1. toRobot' = <<>>
      <4>1. toRobot' = toRobot \o <<>>
        BY <1>1, <2>3 DEF Push
      <4>2. QED
        BY <1>1, <1>4, <4>1, ConcatEmptySeq
    <3>2. Pending'
      BY <1>2, <1>6, <2>3 DEF Pending
    <3>3. IsTable(v)'
      BY <1>2, <1>3, <1>5, <3>2 DEF IsTable
    <3>4. Trace(toRobot', a, v, lastTakeOut') /\ toRobot' \in Seq(Message)
      BY <1>1, <1>2, <1>3, <1>4, <3>1
    <3>5. QED
      BY <1>7, <2>1, <3>1, <3>3, <3>4, TypePartsNext DEF Typed, Agreed
  <2>4. QED
    BY <1>6, <2>2, <2>3
<1>9. Turns'
  BY <1>1, <1>2, <1>6, <1>8 DEF Turns
<1>10. QED
  BY <1>8, <1>9 DEF IInv

(* The table serves the robot's cards.                                     *)
LEMMA ServeKeeps ==
  ASSUME ToldOnce, IInv, ServeTakeOut
  PROVE  IInv'
<1>1. /\ toServer # <<>> /\ turn = Me /\ toServer' = Tail(toServer)
      /\ UNCHANGED <<robotVars, delayed, away, losses, policy>>
  BY DEF ServeTakeOut
<1>2. CASE \E cards \in Playable(Me) :
             /\ Head(toServer) = Bag(cards)
             /\ Play(Me, cards, <<[type |-> "ack", ok |-> TRUE]>>, <<>>)
  <2>1. PICK cards \in Playable(Me) :
             /\ Head(toServer) = Bag(cards)
             /\ Play(Me, cards, <<[type |-> "ack", ok |-> TRUE]>>, <<>>)
    BY <1>2
  <2>2. cards \in SUBSET hands[Me]
    BY DEF Playable
  <2>3. QED
    BY <1>1, <2>1, <2>2, AcceptKeeps
<1>3. CASE /\ refused' = Head(toServer) /\ excused' = TRUE
           /\ Push(IF policy \in {"ack", "ack_and_trust"} THEN <<[type |-> "ack", ok |-> FALSE]>> ELSE <<>>)
           /\ UNCHANGED <<hands, lord, turn, top>>
  BY <1>1, <1>3, RefusalKeeps
<1>4. QED
  BY <1>2, <1>3 DEF ServeTakeOut

(* The system plays for the robot, after a trust notice where the table    *)
(* owes the robot one.                                                     *)
LEMMA SystemKeeps ==
  ASSUME ToldOnce, IInv, SystemTakesOut
  PROVE  IInv'
<1> DEFINE trust == [type |-> "trust"]
<1>1. /\ turn = Me /\ excused /\ delayed = {} /\ toServer = <<>>
      /\ UNCHANGED <<robotVars, delayed, toServer, away, losses, policy>>
      /\ delayed' = {} /\ toServer' = <<>>
  BY DEF SystemTakesOut
<1>2. policy \in {"ack", "trust"}
  BY DEF IInv, Turns, ToldOnce
<1>3. PICK cards \in SUBSET hands[Me] :
        /\ Bag(cards) # refused
        /\ policy = "ack" => Play(Me, cards, <<>>, <<>>)
        /\ policy = "trust" =>
             Play(Me, cards, IF refused # NoRefusal THEN <<trust>> ELSE <<>>, <<>>)
  <2>1. PICK cards \in Playable(Me) :
        /\ Bag(cards) # refused
        /\ policy = "ack" => Play(Me, cards, <<>>, <<>>)
        /\ policy = "trust" =>
             Play(Me, cards, IF refused # NoRefusal THEN <<trust>> ELSE <<>>, <<>>)
    BY <1>2 DEF SystemTakesOut
  <2>2. cards \in SUBSET hands[Me]
    BY DEF Playable
  <2>3. QED
    BY <2>1, <2>2
<1>4. PICK a, v : /\ Trace(toRobot, a, v, lastTakeOut) /\ IsTable(v)
                  /\ ~away => Believes(a)
  BY DEF IInv, Agreed
<1>5. toRobot \in Seq(Message) /\ trust \in Message /\ ~Closing(trust) /\ <<>> \in Seq(Message)
  BY AnswersTyped DEF IInv, Typed
<1>6. Sound(v) /\ v.hand = hands /\ v.lord = lord /\ v.phase = "play"
  BY <1>1, <1>4, <1>5, TraceEnds DEF IsTable, Me, NoSeat
<1>7. toRobot # <<>> => ~Closing(toRobot[Len(toRobot)])
  BY <1>1, NotClosed DEF Me, NoSeat
<1>8. Me \in Seats
  BY DEF Me, Seats
<1>9. lastTakeOut = Bag(cards) => lastTakeOut = NoCards
  BY <1>1, <1>3 DEF IInv, Turns
<1>10. CASE policy = "ack" \/ refused = NoRefusal
  <2>1. Play(Me, cards, <<>>, <<>>)
    BY <1>2, <1>3, <1>10
  <2>2. v.out = NoCards
    BY <1>1, <1>4, <1>10 DEF IsTable, Pending
  <2>3. v.out = IF lastTakeOut = Bag(cards) THEN lastTakeOut ELSE NoCards
    BY <1>9, <2>2
  <2>4. toRobot \o <<>> = toRobot
    BY <1>5, ConcatEmptySeq
  <2>5. ~away => /\ Believes(a) /\ Trace(toRobot \o <<>>, a, v, lastTakeOut)
                 /\ LET q == toRobot \o <<>> IN q # <<>> => ~Closing(q[Len(q)])
    BY <1>4, <1>7, <2>4
  <2>6. QED
    BY <1>1, <1>5, <1>6, <1>8, <2>1, <2>2, <2>3, <2>5, PlayKeeps
<1>11. CASE policy = "trust" /\ refused # NoRefusal
  <2>1. Play(Me, cards, <<trust>>, <<>>) /\ ~away
    BY <1>3, <1>11 DEF IInv, Turns
  <2>2. v.out = lastTakeOut
    BY <1>4, <1>11 DEF IsTable, Pending
  <2>3. Append(toRobot, trust) \in Seq(Message)
        /\ Append(toRobot, trust)[Len(Append(toRobot, trust))] = trust
        /\ toRobot \o <<trust>> = Append(toRobot, trust) /\ <<trust>> \in Seq(Message)
    <3> HIDE DEF trust
    <3>1. <<trust>> \in Seq(Message)
      BY <1>5
    <3>2. QED
      BY <1>5, <3>1, AppendProperties, AppendIsConcat
  <2>4. Recovers(trust)
    BY DEF Recovers
  <2> HIDE DEF trust
  <2>5. PICK w : /\ Sound(w) /\ Trace(Append(toRobot, trust), a, w, lastTakeOut)
                 /\ w.hand = v.hand /\ w.lord = v.lord /\ w.phase = "play" /\ w.out = NoCards
    <3>1. /\ toRobot \in Seq(Message) /\ trust \in Message
          /\ Trace(toRobot, a, v, lastTakeOut)
          /\ toRobot # <<>> => ~Closing(toRobot[Len(toRobot)])
          /\ v.phase = "play" /\ v.out = lastTakeOut
      BY <1>4, <1>5, <1>6, <1>7, <2>2
    <3>2. \E w : Recovered(Append(toRobot, trust), a, v, w, lastTakeOut)
      BY <2>4, <3>1, RecoverySent, Zenon
    <3>3. QED
      BY <3>2 DEF Recovered
  <2>6. w.out = IF lastTakeOut = Bag(cards) THEN lastTakeOut ELSE NoCards
    BY <1>9, <2>5
  <2>7. /\ Believes(a) /\ Trace(toRobot \o <<trust>>, a, w, lastTakeOut)
        /\ LET q == toRobot \o <<trust>> IN q # <<>> => ~Closing(q[Len(q)])
    BY <1>4, <1>5, <2>1, <2>3, <2>5
  <2>8. QED
    BY <1>1, <1>6, <1>8, <2>1, <2>3, <2>5, <2>6, <2>7, PlayKeeps
<1>12. QED
  BY <1>2, <1>10, <1>11

-----------------------------------------------------------------------------
(* A new game                                                              *)

(* A deal divides the deck.                                                *)
LEMMA DealtCards ==
  ASSUME NEW dealt \in Deals
  PROVE  /\ dealt \in [Seats \cup {NoSeat} -> SUBSET Cards]
         /\ \A s, t \in Seats \cup {NoSeat} : s # t => dealt[s] \cap dealt[t] = {}
         /\ UNION {dealt[s] : s \in Seats \cup {NoSeat}} = Cards
         /\ \A s \in Seats : Cardinality(dealt[s]) = HandSize
         /\ Cardinality(dealt[NoSeat]) = BaseSize
<1>1. PICK to \in [Cards -> Seats \cup {NoSeat}] :
        /\ \A s \in Seats : Cardinality({c \in Cards : to[c] = s}) = HandSize
        /\ dealt = [s \in Seats \cup {NoSeat} |-> {c \in Cards : to[c] = s}]
  BY DEF Deals
<1> DEFINE get(s) == {c \in Cards : to[c] = s}
<1>2. \A s \in Seats \cup {NoSeat} : dealt[s] = get(s) /\ get(s) \in SUBSET Cards
  BY <1>1
<1>3. \A s, t \in Seats \cup {NoSeat} : s # t => get(s) \cap get(t) = {}
  OBVIOUS
<1>4. \A c \in Cards : to[c] \in Seats \cup {NoSeat} /\ c \in get(to[c])
  BY <1>1
<1>5. \A s \in Seats : Cardinality(get(s)) = HandSize
  BY <1>1
<1>6. DOMAIN dealt = Seats \cup {NoSeat} /\ dealt = [s \in DOMAIN dealt |-> dealt[s]]
  BY <1>1
<1> HIDE DEF get
<1>7. UNION {dealt[s] : s \in Seats \cup {NoSeat}} = Cards
  BY <1>2, <1>4
<1>8. Cardinality(dealt[NoSeat]) = BaseSize
  <2>1. 0 \in Seats /\ 1 \in Seats /\ 2 \in Seats /\ NoSeat \notin Seats
    BY DEF Seats, NoSeat
  <2>2. Seats \cup {NoSeat} = {0, 1, 2, NoSeat}
    BY DEF Seats, NoSeat
  <2> DEFINE x == dealt[0]
             y == dealt[1]
             z == dealt[2]
             w == dealt[NoSeat]
  <2>3. /\ x \in SUBSET Cards /\ y \in SUBSET Cards /\ z \in SUBSET Cards /\ w \in SUBSET Cards
        /\ x \cap y = {} /\ (x \cup y) \cap z = {} /\ ((x \cup y) \cup z) \cap w = {}
    <3>1. NoSeat # 0 /\ NoSeat # 1 /\ NoSeat # 2
      BY DEF NoSeat
    <3>2. QED
      BY <1>2, <1>3, <2>1, <3>1
  <2>4. ((x \cup y) \cup z) \cup w = Cards
    BY <1>7, <2>2
  <2>5. Cardinality(x) = HandSize /\ Cardinality(y) = HandSize /\ Cardinality(z) = HandSize
    BY <1>2, <1>5, <2>1
  <2> HIDE DEF x, y, z, w
  <2>6. Cardinality(x \cup y) = HandSize + HandSize
    BY <2>3, <2>5, CardSets
  <2>7. Cardinality((x \cup y) \cup z) = (HandSize + HandSize) + HandSize
    BY <2>3, <2>5, <2>6, CardSets
  <2>8. Cardinality(((x \cup y) \cup z) \cup w) = ((HandSize + HandSize) + HandSize) + Cardinality(w)
    BY <2>3, <2>7, CardSets
  <2>9. NumCards = ((HandSize + HandSize) + HandSize) + Cardinality(w) /\ Cardinality(w) \in Nat
    BY <2>3, <2>4, <2>8, CardsFinite, CardSets
  <2>10. NumCards \in Nat /\ HandSize \in Nat
    BY TableAssumption
  <2>11. Cardinality(w) = NumCards - 3 * HandSize
    BY <2>9, <2>10
  <2>12. QED
    BY <2>11 DEF BaseSize, w
<1>9. QED
  BY <1>2, <1>3, <1>5, <1>6, <1>7, <1>8

(* The notices of a deal, and the views after them.                        *)
DealNotice(dealt)    == [type |-> "deal", cards |-> dealt[Me]]
BaseNotice(dealt, l) == [type |-> "base", lord |-> l, cards |-> dealt[NoSeat]]
DealtView(dealt) ==
  [hand |-> [s \in Seats |-> dealt[s]], out |-> NoCards, phase |-> "dealt",
   lord |-> NoSeat, base |-> dealt[NoSeat]]
BaseView(dealt, l) ==
  [hand |-> [s \in Seats |-> IF s = l THEN dealt[s] \cup dealt[NoSeat] ELSE dealt[s]],
   out |-> NoCards, phase |-> "play", lord |-> l, base |-> IF l = Me THEN dealt[NoSeat] ELSE {}]

(* The views of a deal are sound.                                          *)
LEMMA DealtSound ==
  ASSUME NEW dealt \in Deals, NEW l \in Seats
  PROVE  Sound(DealtView(dealt)) /\ Sound(BaseView(dealt, l))
<1> DEFINE d == DealtView(dealt)
           w == BaseView(dealt, l)
<1>1. /\ dealt \in [Seats \cup {NoSeat} -> SUBSET Cards]
      /\ \A s, t \in Seats \cup {NoSeat} : s # t => dealt[s] \cap dealt[t] = {}
  BY DealtCards
<1>2. \A s \in Seats : s # NoSeat
  BY DEF Seats, NoSeat
<1>3. /\ d.hand = [s \in Seats |-> dealt[s]] /\ d.out = NoCards /\ d.base = dealt[NoSeat]
      /\ w.hand = [s \in Seats |-> IF s = l THEN dealt[s] \cup dealt[NoSeat] ELSE dealt[s]]
      /\ w.out = NoCards /\ w.base = IF l = Me THEN dealt[NoSeat] ELSE {}
  BY DEF DealtView, BaseView
<1>4. d \in View
  <2>1. [s \in Seats |-> dealt[s]] \in [Seats -> SUBSET Cards]
    BY <1>1
  <2>2. QED
    BY <1>1, <2>1, ConstantsTyped DEF DealtView, View, Phases
<1>5. w \in View
  <2>1. [s \in Seats |-> IF s = l THEN dealt[s] \cup dealt[NoSeat] ELSE dealt[s]]
          \in [Seats -> SUBSET Cards]
    BY <1>1
  <2>2. (IF l = Me THEN dealt[NoSeat] ELSE {}) \in SUBSET Cards
    BY <1>1
  <2>3. QED
    BY <2>1, <2>2, ConstantsTyped DEF BaseView, View, Phases
<1> HIDE DEF d, w
<1>6. \A s \in Seats : d.hand[s] = dealt[s]
                       /\ w.hand[s] = IF s = l THEN dealt[s] \cup dealt[NoSeat] ELSE dealt[s]
  BY <1>3
<1>7. Sound(d)
  <2>1. \A s, t \in Seats : s # t => d.hand[s] \cap d.hand[t] = {}
    BY <1>1, <1>6
  <2>2. \A c \in Cards : d.out[c] <= Bag(d.hand[Me])[c]
    BY <1>3 DEF NoCards, Bag
  <2>3. d.base \cap OthersOf(d.hand) = {}
    BY <1>1, <1>2, <1>3, <1>6 DEF OthersOf, Others
  <2>4. QED
    BY <1>4, <2>1, <2>2, <2>3 DEF Sound
<1>8. Sound(w)
  <2>1. \A s, t \in Seats : s # t => w.hand[s] \cap w.hand[t] = {}
    BY <1>1, <1>2, <1>6
  <2>2. \A c \in Cards : w.out[c] <= Bag(w.hand[Me])[c]
    BY <1>3 DEF NoCards, Bag
  <2>3. w.base \cap OthersOf(w.hand) = {}
    <3>1. CASE l = Me
      <4>1. \A s \in Others : w.hand[s] = dealt[s]
        BY <1>6, <3>1 DEF Others
      <4>2. \A s \in Others : dealt[NoSeat] \cap dealt[s] = {}
        BY <1>1, <1>2 DEF Others
      <4>3. \A s \in Others : w.base \cap w.hand[s] = {}
        BY <1>3, <3>1, <4>1, <4>2
      <4>4. QED
        BY <4>3 DEF OthersOf
    <3>2. CASE l # Me
      BY <1>3, <3>2
    <3>3. QED
      BY <3>1, <3>2
  <2>4. QED
    BY <1>5, <2>1, <2>2, <2>3 DEF Sound
<1>9. QED
  BY <1>7, <1>8 DEF d, w

(* The two notices lead from any view to the new game.                     *)
LEMMA DealTrace ==
  ASSUME NEW dealt \in Deals, NEW l \in Seats, NEW a, Sound(a), NEW last
  PROVE  \A r : r = <<DealNotice(dealt), BaseNotice(dealt, l)>> =>
           /\ r \in Seq(Message) /\ r[Len(r)] = BaseNotice(dealt, l)
           /\ Trace(r, a, BaseView(dealt, l), last)
<1> DEFINE m == DealNotice(dealt)
           n == BaseNotice(dealt, l)
           d == DealtView(dealt)
           w == BaseView(dealt, l)
<1>1. /\ dealt \in [Seats \cup {NoSeat} -> SUBSET Cards]
      /\ \A s, t \in Seats \cup {NoSeat} : s # t => dealt[s] \cap dealt[t] = {}
      /\ UNION {dealt[s] : s \in Seats \cup {NoSeat}} = Cards
      /\ \A s \in Seats : Cardinality(dealt[s]) = HandSize
      /\ Cardinality(dealt[NoSeat]) = BaseSize
  BY DealtCards
<1>2. Me \in Seats /\ \A s \in Seats : s # NoSeat
  BY DEF Me, Seats, NoSeat
<1>3. m \in Message /\ n \in Message
  <2>1. /\ m \in [type : {"deal"}, cards : SUBSET Cards]
        /\ n \in [type : {"base"}, lord : Seats, cards : SUBSET Cards]
    BY <1>1, <1>2 DEF DealNotice, BaseNotice
  <2>2. QED
    BY <2>1 DEF Message
<1>4. /\ m.type = "deal" /\ m.cards = dealt[Me]
      /\ n.type = "base" /\ n.lord = l /\ n.cards = dealt[NoSeat]
  BY DEF DealNotice, BaseNotice
<1>5. /\ d.hand = [s \in Seats |-> dealt[s]] /\ d.out = NoCards /\ d.base = dealt[NoSeat]
      /\ d.phase = "dealt"
      /\ w.hand = [s \in Seats |-> IF s = l THEN dealt[s] \cup dealt[NoSeat] ELSE dealt[s]]
      /\ w.out = NoCards /\ w.base = (IF l = Me THEN dealt[NoSeat] ELSE {})
      /\ w.phase = "play" /\ w.lord = l
  BY DEF DealtView, BaseView
<1>6. Sound(d) /\ Sound(w)
  BY DealtSound
<1> HIDE DEF m, n, d, w
<1>7. \A s \in Seats : d.hand[s] = dealt[s]
  BY <1>5
<1>8. AllOf(d.hand) \cup d.base = Cards /\ d.base \cap AllOf(d.hand) = {}
  BY <1>1, <1>2, <1>5, <1>7 DEF AllOf
<1>9. Link(m, a, d, last)
  <2>1. DealLink(m, a, d)
    BY <1>1, <1>2, <1>4, <1>5, <1>7, <1>8 DEF DealLink
  <2>2. QED
    BY <1>4, <2>1 DEF Link
<1>10. Link(n, d, w, last)
  <2>1. w.hand = [d.hand EXCEPT ![n.lord] = @ \cup d.base]
    <3>1. PICK h : h = d.hand /\ h = [s \in Seats |-> dealt[s]]
      BY <1>5
    <3>2. [h EXCEPT ![l] = h[l] \cup dealt[NoSeat]]
            = [s \in Seats |-> IF s = l THEN dealt[s] \cup dealt[NoSeat] ELSE dealt[s]]
      BY <3>1
    <3>3. QED
      BY <1>4, <1>5, <3>1, <3>2
  <2>2. BaseLink(n, d, w)
    BY <1>1, <1>4, <1>5, <1>7, <1>8, <2>1 DEF BaseLink
  <2>3. QED
    BY <1>4, <2>2 DEF Link
<1>11. ~Closing(m)
  BY <1>4 DEF Closing, TurnNotice
<1>12. PICK e \in Seq(Message) : e = <<>>
  <2>1. <<>> \in Seq(Message)
    OBVIOUS
  <2>2. QED
    BY <2>1, Zenon
<1>13. Trace(e, a, a, last)
  BY <1>12, EmptyTrace
<1>14. Trace(Append(e, m), a, d, last)
  BY <1>3, <1>6, <1>9, <1>12, <1>13, SendTrace
<1>15. PICK f \in Seq(Message) : f = Append(e, m) /\ f[Len(f)] = m
  <2>1. Append(e, m) \in Seq(Message) /\ Append(e, m)[Len(Append(e, m))] = m
    BY <1>3, AppendProperties
  <2>2. QED
    BY <2>1, Zenon
<1>16. Trace(Append(f, n), a, w, last)
  BY <1>3, <1>6, <1>10, <1>11, <1>14, <1>15, SendTrace
<1>17. Append(f, n) = <<m, n>>
  <2>1. Append(<<>>, m) = <<m>>
    OBVIOUS
  <2>2. Append(<<m>>, n) = <<m, n>>
    <3> DEFINE s == Append(<<m>>, n)
               t == <<m, n>>
    <3>1. <<m>> \in Seq(Message) /\ Len(<<m>>) = 1 /\ <<m>>[1] = m
      BY <1>3
    <3>2. s \in Seq(Message) /\ Len(s) = 2 /\ s[1] = m /\ s[2] = n
      BY <1>3, <3>1, AppendProperties
    <3>3. t \in Seq(Message) /\ Len(t) = 2 /\ t[1] = m /\ t[2] = n
      BY <1>3
    <3> HIDE DEF s, t
    <3>4. Len(s) = Len(t) /\ \A i \in 1..Len(s) : s[i] = t[i]
      <4>1. \A i \in 1..2 : i = 1 \/ i = 2
        OBVIOUS
      <4>2. QED
        BY <3>2, <3>3, <4>1
    <3>5. s = t
      BY <3>2, <3>3, <3>4, SeqEqual
    <3>6. QED
      BY <3>5 DEF s, t
  <2>3. QED
    BY <1>12, <1>15, <2>1, <2>2
<1>18. <<m, n>> \in Seq(Message) /\ <<m, n>>[Len(<<m, n>>)] = n
  BY <1>3
<1>19. QED
  BY <1>16, <1>17, <1>18 DEF m, n, w

(* A deal keeps the invariant.                                             *)
LEMMA DealKeeps ==
  ASSUME IInv, Deal
  PROVE  IInv'
<1>1. PICK dealt \in Deals, l \in Seats :
        /\ hands' = [s \in Seats |-> IF s = l THEN dealt[s] \cup dealt[NoSeat] ELSE dealt[s]]
        /\ lord' = l /\ turn' = l /\ top' = l
        /\ Push(<<DealNotice(dealt), BaseNotice(dealt, l)>>)
  BY DEF Deal, DealNotice, BaseNotice
<1>2. /\ turn = NoSeat /\ toRobot = <<>> /\ refused' = NoRefusal /\ excused' = away
      /\ aiCardsVec' = aiCardsVec /\ lastTakeOut' = lastTakeOut /\ points' = points
      /\ total' = total /\ otherPoints' = otherPoints /\ remainPoints' = remainPoints
      /\ curHandSeat' = curHandSeat /\ lordSeat' = lordSeat /\ rejoined' = rejoined
      /\ delayed' = delayed /\ toServer' = toServer /\ away' = away
      /\ losses' = losses /\ policy' = policy
  BY DEF Deal, robotVars
<1>3. delayed = {} /\ toServer = <<>>
  BY <1>2 DEF IInv, Turns, Answering, Me, NoSeat
<1>4. PICK a, b : /\ Trace(toRobot, a, b, lastTakeOut) /\ IsTable(b)
                  /\ ~away => Believes(a)
  BY DEF IInv, Agreed
<1>5. a = b /\ Sound(a) /\ a.phase = "idle"
  BY <1>2, <1>4, EmptyTrace DEF IsTable
<1> DEFINE w == BaseView(dealt, l)
           n == BaseNotice(dealt, l)
<1>6. PICK r : r = <<DealNotice(dealt), BaseNotice(dealt, l)>>
  OBVIOUS
<1>7. r \in Seq(Message) /\ r[Len(r)] = n /\ Trace(r, a, w, lastTakeOut)
  BY <1>5, <1>6, DealTrace
<1>8. ~away => toRobot' = r
  <2>1. ~away => toRobot' = <<>> \o r
    BY <1>1, <1>2, <1>6 DEF Push
  <2>2. <<>> \o r = r
    BY <1>7, ConcatEmptySeq
  <2>3. QED
    BY <2>1, <2>2
<1>9. away => toRobot' = <<>>
  BY <1>1, <1>2 DEF Push
<1>10. Typed'
  <2>1. RobotTyped /\ TableTyped
    BY TypeParts DEF IInv, Typed
  <2>2. RobotTyped'
    BY <1>2, <2>1 DEF RobotTyped
  <2>3. hands' \in [Seats -> SUBSET Cards]
    <3>1. dealt \in [Seats \cup {NoSeat} -> SUBSET Cards]
      BY DealtCards
    <3>2. QED
      BY <1>1, <3>1
  <2>4. TableTyped'
    BY <1>1, <1>2, <2>1, <2>3 DEF TableTyped
  <2>5. toRobot' \in Seq(Message)
    <3>1. <<>> \in Seq(Message)
      OBVIOUS
    <3>2. QED
      BY <1>7, <1>8, <1>9, <3>1
  <2>6. QED
    BY <2>2, <2>4, <2>5, TypePartsNext DEF Typed
<1>11. Turns'
  <2>1. ASSUME toRobot' # <<>>, TurnNotice(toRobot'[Len(toRobot')])
        PROVE  l = Me /\ ~away
    <3>1. ~away /\ TurnNotice(n)
      BY <1>7, <1>8, <1>9, <2>1
    <3>2. QED
      BY <3>1 DEF BaseNotice, TurnNotice
  <2>2. policy \in Refusal /\ (away => lastTakeOut = NoCards)
    BY DEF IInv, Turns
  <2>3. QED
    BY <1>1, <1>2, <1>3, <1>9, <2>1, <2>2 DEF Turns
<1>12. Agreed'
  <2>1. Sound(w)
    BY DealtSound
  <2>2. /\ w.hand = hands' /\ w.lord = lord' /\ w.out = NoCards
        /\ w.phase = IF turn' = NoSeat THEN "idle" ELSE "play"
    BY <1>1 DEF BaseView, Seats, NoSeat
  <2>3. ~Pending'
    BY <1>2, <1>3 DEF Pending
  <2> HIDE DEF w
  <2>4. IsTable(w)'
    BY <2>2, <2>3 DEF IsTable
  <2>5. CASE away
    <3>1. Trace(toRobot', w, w, lastTakeOut')
      BY <1>9, <2>1, <2>5, EmptyTrace
    <3>2. QED
      BY <1>2, <2>4, <2>5, <3>1 DEF Agreed
  <2>6. CASE ~away
    <3>1. Trace(toRobot', a, w, lastTakeOut')
      BY <1>2, <1>7, <1>8, <2>6
    <3>2. Believes(a)'
      BY <1>5 DEF Believes
    <3>3. QED
      BY <2>4, <3>1, <3>2 DEF Agreed
  <2>7. QED
    BY <2>5, <2>6
<1>13. QED
  BY <1>10, <1>11, <1>12 DEF IInv

-----------------------------------------------------------------------------
(* The connection                                                          *)

(* A lost connection takes everything under way with it.                   *)
LEMMA LoseKeeps ==
  ASSUME IInv, Lose
  PROVE  IInv'
<1>1. /\ ~away /\ losses < MaxLosses /\ away' = TRUE /\ losses' = losses + 1
      /\ toRobot' = <<>> /\ toServer' = <<>> /\ delayed' = {}
      /\ excused' = (turn = Me) /\ refused' = NoRefusal
      /\ aiCardsVec' = NoCards /\ lastTakeOut' = NoCards /\ points' = Nothing
      /\ total' = [s \in Seats |-> 0] /\ remainPoints' = Deck
      /\ curHandSeat' = NoSeat /\ lordSeat' = NoSeat /\ otherPoints' = otherPoints
      /\ hands' = hands /\ lord' = lord /\ turn' = turn /\ top' = top /\ policy' = policy
  BY DEF Lose, RbtResetData
<1>2. PICK a, b : Trace(toRobot, a, b, lastTakeOut) /\ IsTable(b)
  BY DEF IInv, Agreed
<1>3. Sound(b) /\ RobotTyped /\ TableTyped
  BY <1>2, TraceEnds, TypeParts DEF IInv, Typed
<1>4. Typed'
  <2>1. RobotTyped'
    <3>1. Cardinality({}) = 0
      BY FS_EmptySet
    <3>2. Cardinality(delayed') <= 1 /\ delayed' \subseteq [Cards -> 0..1]
      BY <1>1, <3>1
    <3>3. total' \in [Seats -> Int]
      BY <1>1
    <3>4. QED
      BY <1>1, <1>3, <3>2, <3>3, ConstantsTyped DEF RobotTyped
  <2>2. losses' \in 0..MaxLosses
    BY <1>1, <1>3, TableAssumption DEF TableTyped
  <2>3. TableTyped'
    BY <1>1, <1>3, <2>2 DEF TableTyped
  <2>4. toRobot' \in Seq(Message)
    <3>1. <<>> \in Seq(Message)
      OBVIOUS
    <3>2. QED
      BY <1>1, <3>1
  <2>5. QED
    BY <2>1, <2>3, <2>4, TypePartsNext DEF Typed
<1>5. Turns'
  <2>1. policy \in Refusal
    BY DEF IInv, Turns
  <2>2. QED
    BY <1>1, <2>1 DEF Turns
<1>6. Agreed'
  <2> DEFINE w == [b EXCEPT !.out = NoCards]
  <2>1. b \in View
    BY <1>3 DEF Sound
  <2>2. /\ w \in View /\ w.hand = b.hand /\ w.lord = b.lord /\ w.phase = b.phase
        /\ w.base = b.base /\ w.out = NoCards
    BY <2>1, ConstantsTyped DEF View
  <2> HIDE DEF w
  <2>3. Sound(w)
    <3>1. \A c \in Cards : w.out[c] <= Bag(w.hand[Me])[c]
      BY <2>2 DEF NoCards, Bag
    <3>2. QED
      BY <1>3, <2>2, <3>1 DEF Sound
  <2>4. ~Pending'
    BY <1>1 DEF Pending
  <2>5. IsTable(w)'
    BY <1>1, <1>2, <2>2, <2>4 DEF IsTable
  <2>6. Trace(toRobot', w, w, lastTakeOut')
    BY <1>1, <2>3, EmptyTrace
  <2>7. QED
    BY <1>1, <2>5, <2>6 DEF Agreed
<1>7. QED
  BY <1>4, <1>5, <1>6 DEF IInv

(* A robot that comes back learns its cards from the answer to its         *)
(* request, if the game goes on.                                           *)
LEMMA RejoinKeeps ==
  ASSUME IInv, Rejoin
  PROVE  IInv'
<1>1. /\ away /\ away' = FALSE
      /\ aiCardsVec' = aiCardsVec /\ lastTakeOut' = lastTakeOut /\ points' = points
      /\ total' = total /\ otherPoints' = otherPoints /\ remainPoints' = remainPoints
      /\ curHandSeat' = curHandSeat /\ lordSeat' = lordSeat /\ rejoined' = rejoined
      /\ delayed' = delayed /\ toServer' = toServer /\ hands' = hands /\ lord' = lord
      /\ turn' = turn /\ top' = top /\ refused' = refused /\ excused' = excused
      /\ losses' = losses /\ policy' = policy
  BY DEF Rejoin, robotVars, tableVars
<1>2. /\ toRobot = <<>> /\ toServer = <<>> /\ delayed = {} /\ lastTakeOut = NoCards
      /\ refused = NoRefusal /\ policy \in Refusal
  BY <1>1 DEF IInv, Turns
<1>3. PICK a, b : Trace(toRobot, a, b, lastTakeOut) /\ IsTable(b)
  BY DEF IInv, Agreed
<1>4. a = b /\ Sound(b)
  BY <1>2, <1>3, EmptyTrace
<1>5. RobotTyped /\ TableTyped
  BY TypeParts DEF IInv, Typed
<1>6. RobotTyped'
  BY <1>1, <1>5 DEF RobotTyped
<1>7. TableTyped'
  BY <1>1, <1>5 DEF TableTyped
<1>8. IsTable(b)' /\ b.out = NoCards /\ b.hand = hands /\ b.lord = lord
  BY <1>1, <1>2, <1>3 DEF IsTable, Pending
<1>9. CASE turn = NoSeat
  <2>1. toRobot' = <<>> /\ <<>> \in Seq(Message)
    BY <1>9 DEF Rejoin
  <2>2. Typed'
    BY <1>6, <1>7, <2>1, TypePartsNext DEF Typed
  <2>3. Turns'
    BY <1>1, <1>2, <2>1 DEF IInv, Turns
  <2>4. Trace(toRobot', b, b, lastTakeOut')
    BY <1>4, <2>1, EmptyTrace
  <2>5. b.phase = "idle"
    BY <1>3, <1>9 DEF IsTable
  <2>6. Believes(b)'
    BY <2>5 DEF Believes
  <2>7. QED
    BY <1>8, <2>2, <2>3, <2>4, <2>6 DEF IInv, Agreed
<1>10. CASE turn # NoSeat
  <2>1. PICK cards, l : cards = hands[Me] /\ l = lord
    OBVIOUS
  <2> DEFINE keep == [type |-> "keep", cards |-> cards, lord |-> l]
             v == [b EXCEPT !.phase = "back"]
  <2>2. toRobot' = <<keep>>
    BY <1>10, <2>1 DEF Rejoin
  <2>3. keep \in Message
    <3>1. cards \in SUBSET Cards /\ l \in Seats \cup {NoSeat}
      BY <1>5, <2>1 DEF TableTyped, Me, Seats
    <3>2. keep \in [type : {"keep"}, cards : SUBSET Cards, lord : Seats \cup {NoSeat}]
      BY <3>1
    <3>3. QED
      BY <3>2 DEF Message
  <2>4. keep.type = "keep" /\ keep.cards = b.hand[Me]
    BY <1>8, <2>1
  <2> HIDE DEF keep
  <2>5. b \in View
    BY <1>4 DEF Sound
  <2>6. /\ v \in View /\ v.hand = b.hand /\ v.out = b.out /\ v.phase = "back" /\ v.base = b.base
    BY <2>5 DEF View, Phases
  <2> HIDE DEF v
  <2>7. Sound(v)
    BY <1>4, <2>6 DEF Sound
  <2>8. Link(keep, v, b, lastTakeOut)
    <3>1. b.phase = "play"
      BY <1>3, <1>10 DEF IsTable
    <3>2. QED
      BY <1>2, <1>8, <2>4, <3>1 DEF Link
  <2>9. ~TurnNotice(keep)
    BY <2>4 DEF TurnNotice
  <2>10. Append(<<>>, keep) = <<keep>> /\ Len(<<keep>>) = 1 /\ <<keep>>[1] = keep
    OBVIOUS
  <2>11. <<keep>> \in Seq(Message)
    BY <2>3
  <2>12. PICK e \in Seq(Message) : e = <<>>
    <3>1. <<>> \in Seq(Message)
      OBVIOUS
    <3>2. QED
      BY <3>1, Zenon
  <2>13. Trace(toRobot', v, b, lastTakeOut')
    <3>1. Trace(e, v, v, lastTakeOut)
      BY <2>7, <2>12, EmptyTrace
    <3>2. Trace(Append(e, keep), v, b, lastTakeOut)
      BY <1>4, <2>3, <2>8, <2>12, <3>1, SendTrace
    <3>3. QED
      BY <1>1, <2>2, <2>10, <2>12, <3>2
  <2>14. Typed'
    BY <1>6, <1>7, <2>2, <2>11, TypePartsNext DEF Typed
  <2>15. Turns'
    <3>1. ~TurnNotice(toRobot'[Len(toRobot')])
      BY <2>2, <2>9, <2>10
    <3>2. QED
      BY <1>1, <1>2, <3>1 DEF IInv, Turns
  <2>16. Believes(v)'
    BY <2>6 DEF Believes
  <2>17. QED
    BY <1>8, <2>13, <2>14, <2>15, <2>16 DEF IInv, Agreed
<1>11. QED
  BY <1>9, <1>10

-----------------------------------------------------------------------------
(* The theorems                                                            *)

(* Every step keeps the invariant.                                         *)
LEMMA NextInv ==
  ASSUME ToldOnce, IInv, [Next]_vars
  PROVE  IInv'
<1>1. CASE RecvInitHardCardNotify
  BY <1>1, DealRead
<1>2. CASE RecvGetBaseCardNotify
  BY <1>2, BaseRead
<1>3. CASE RecvGetTakeOutCardNotify
  BY <1>3, TakeOutRead
<1>4. CASE RecvTakeOutCardAck
  <2>1. /\ ~away /\ toRobot # <<>> /\ Msg.type = "ack" /\ Read
        /\ \/ ~Msg.ok /\ RecoveryHandCards
           \/ Msg.ok /\ UNCHANGED <<robotVars, delayed>>
    BY <1>4 DEF RecvTakeOutCardAck, Receives
  <2>2. QED
    BY <2>1, RecoveryRead, AcceptRead
<1>5. CASE RecvGetTrustNotify
  BY <1>5, RecoveryRead DEF RecvGetTrustNotify, Receives
<1>6. CASE RecvGetGameResultNotify
  BY <1>6, ResultRead
<1>7. CASE RecvKeepPlayAck
  BY <1>7, KeepRead
<1>8. CASE DelaySendMsgTimer
  BY <1>8, DelayedSent
<1>9. CASE Deal
  BY <1>9, DealKeeps
<1>10. CASE OtherTakesOut
  BY <1>10, OtherKeeps
<1>11. CASE ServeTakeOut
  BY <1>11, ServeKeeps
<1>12. CASE SystemTakesOut
  BY <1>12, SystemKeeps
<1>13. CASE Lose
  BY <1>13, LoseKeeps
<1>14. CASE Rejoin
  BY <1>14, RejoinKeeps
<1>15. CASE UNCHANGED vars
  <2>1. /\ aiCardsVec' = aiCardsVec /\ lastTakeOut' = lastTakeOut /\ points' = points
        /\ total' = total /\ otherPoints' = otherPoints /\ remainPoints' = remainPoints
        /\ curHandSeat' = curHandSeat /\ lordSeat' = lordSeat /\ rejoined' = rejoined
        /\ delayed' = delayed /\ toRobot' = toRobot /\ toServer' = toServer
        /\ hands' = hands /\ lord' = lord /\ turn' = turn /\ top' = top /\ away' = away
        /\ refused' = refused /\ excused' = excused /\ losses' = losses /\ policy' = policy
    BY <1>15 DEF vars
  <2>2. Typed'
    <3>1. RobotTyped /\ TableTyped /\ toRobot \in Seq(Message)
      BY TypeParts DEF IInv, Typed
    <3>2. RobotTyped'
      BY <2>1, <3>1 DEF RobotTyped
    <3>3. TableTyped'
      BY <2>1, <3>1 DEF TableTyped
    <3>4. QED
      BY <2>1, <3>1, <3>2, <3>3, TypePartsNext DEF Typed
  <2>3. Turns'
    BY <2>1 DEF IInv, Turns, Answering
  <2>4. Agreed'
    <3>1. PICK a, b : /\ Trace(toRobot, a, b, lastTakeOut) /\ IsTable(b)
                      /\ ~away => Believes(a)
      BY DEF IInv, Agreed
    <3>2. IsTable(b)'
      BY <2>1, <3>1 DEF IsTable, Pending
    <3>3. ~away => Believes(a)'
      BY <2>1, <3>1 DEF Believes, Counted
    <3>4. Trace(toRobot', a, b, lastTakeOut')
      BY <2>1, <3>1
    <3>5. QED
      BY <2>1, <3>2, <3>3, <3>4 DEF Agreed
  <2>5. QED
    BY <2>2, <2>3, <2>4 DEF IInv
<1>16. QED
  BY <1>1, <1>2, <1>3, <1>4, <1>5, <1>6, <1>7, <1>8, <1>9, <1>10, <1>11, <1>12, <1>13, <1>14, <1>15
     DEF Next

(* The views of the robot and of the table agree across the messages under *)
(* way, in every state of tables that tell of a refusal once.              *)
THEOREM Invariance ==
  ASSUME ToldOnce
  PROVE  Spec => []IInv
<1>1. Init => IInv
  BY InitInv
<1>2. IInv /\ [Next]_vars => IInv'
  BY NextInv
<1>3. QED
  BY <1>1, <1>2, PTL DEF Spec

(* The variables keep their types.                                         *)
THEOREM RobotTypes ==
  ASSUME ToldOnce
  PROVE  Spec => []TypeOK
<1>1. IInv => TypeOK
  BY DEF IInv, Typed
<1>2. QED
  BY <1>1, Invariance, PTL

(* With nothing under way the robot believes the table's view.             *)
LEMMA QuietView ==
  ASSUME ToldOnce, IInv, Quiet
  PROVE  \E v : /\ Sound(v) /\ Believes(v) /\ v.phase = "play" /\ v.out = NoCards
                /\ v.hand = hands /\ v.lord = lord
<1>1. PICK a, v : Trace(toRobot, a, v, lastTakeOut) /\ IsTable(v) /\ Believes(a)
  BY DEF IInv, Agreed, Quiet
<1>2. a = v /\ Sound(v)
  BY <1>1, EmptyTrace DEF Quiet
<1>3. ~Pending
  BY DEF Quiet, Pending
<1>4. QED
  BY <1>1, <1>2, <1>3 DEF IsTable, Quiet

(* Both of the robot's records of its own hand are exact whenever nothing  *)
(* is under way: after any refusals, cards of the system and rejoins.      *)
THEOREM OwnHandStaysExact ==
  ASSUME ToldOnce
  PROVE  Spec => []OwnHandIsExact
<1>1. ASSUME IInv, Quiet PROVE aiCardsVec = Bag(hands[Me]) /\ points = PointsOf(hands[Me])
  <2>1. PICK v : /\ Sound(v) /\ Believes(v) /\ v.phase = "play" /\ v.out = NoCards
                 /\ v.hand = hands /\ v.lord = lord
    BY <1>1, QuietView
  <2>2. aiCardsVec = Bag(hands[Me]) (-) NoCards /\ points = PointsOf(hands[Me])
    BY <2>1 DEF Believes
  <2>3. Bag(hands[Me]) (-) NoCards = Bag(hands[Me])
    BY DEF Bag, NoCards, (-)
  <2>4. QED
    BY <2>2, <2>3
<1>2. IInv => OwnHandIsExact
  BY <1>1 DEF OwnHandIsExact
<1>3. QED
  BY <1>2, Invariance, PTL

(* What the robot sends reaches the table in its turn and is in its hand.  *)
THEOREM OnlyHeldCardsAreSent ==
  ASSUME ToldOnce
  PROVE  Spec => []SentCardsAreHeld
<1>1. ASSUME IInv, toServer # <<>>
      PROVE  /\ turn = Me /\ ~excused
             /\ \A c \in Cards : Head(toServer)[c] <= Bag(hands[Me])[c]
  <2>1. turn = Me /\ ~excused /\ toServer = <<lastTakeOut>>
    BY <1>1 DEF IInv, Turns, Answering
  <2>2. Head(toServer) = lastTakeOut
    BY <2>1
  <2>3. PICK a, v : Trace(toRobot, a, v, lastTakeOut) /\ IsTable(v)
    BY <1>1 DEF IInv, Agreed
  <2>4. Sound(v)
    BY <1>1, <2>3, TraceEnds DEF IInv, Typed
  <2>5. v.out = lastTakeOut /\ v.hand = hands
    BY <1>1, <2>3 DEF IsTable, Pending
  <2>6. QED
    BY <2>1, <2>2, <2>4, <2>5 DEF Sound
<1>2. IInv => SentCardsAreHeld
  BY <1>1 DEF SentCardsAreHeld
<1>3. QED
  BY <1>2, Invariance, PTL

(* The counters of a robot that saw the whole game are exact, but for the  *)
(* base cards a lord counts as the others'.                                *)
THEOREM CountersStayExact ==
  ASSUME ToldOnce
  PROVE  Spec => []CountersAreExact
<1>1. ASSUME IInv, Quiet, ~rejoined
      PROVE  /\ remainPoints = PointsOf(hands[Me] \cup HandsOfOthers)
             /\ \A s \in Seats : total[s] = Cardinality(hands[s])
             /\ lord # Me => otherPoints = PointsOf(HandsOfOthers)
             /\ lord = Me =>
                  \E base \in SUBSET (Cards \ HandsOfOthers) :
                    Cardinality(base) = BaseSize /\ otherPoints = PointsOf(HandsOfOthers \cup base)
  <2>1. PICK v : /\ Sound(v) /\ Believes(v) /\ v.phase = "play" /\ v.out = NoCards
                 /\ v.hand = hands /\ v.lord = lord
    BY <1>1, QuietView
  <2>2. HandsOfOthers = OthersOf(v.hand)
    BY <2>1 DEF HandsOfOthers, OthersOf
  <2>3. Counted(v)
    BY <1>1, <2>1 DEF Believes
  <2>4. Unplayed(v) = hands[Me] \cup HandsOfOthers
    <3>1. AllOf(v.hand) = v.hand[Me] \cup OthersOf(v.hand)
      BY <2>1, SoundFacts
    <3>2. Unplayed(v) = AllOf(v.hand)
      BY <2>1 DEF Unplayed
    <3>3. QED
      BY <2>1, <2>2, <3>1, <3>2
  <2>5. /\ remainPoints = PointsOf(hands[Me] \cup HandsOfOthers)
        /\ \A s \in Seats : total[s] = Cardinality(hands[s])
        /\ otherPoints = PointsOf(HandsOfOthers \cup v.base)
        /\ lord = Me => Cardinality(v.base) = BaseSize
        /\ lord # Me => v.base = {}
    BY <2>1, <2>2, <2>3, <2>4 DEF Counted
  <2>6. v.base \in SUBSET (Cards \ HandsOfOthers)
    BY <2>1, <2>2, SoundFacts
  <2>7. lord # Me => otherPoints = PointsOf(HandsOfOthers)
    <3>1. HandsOfOthers \cup {} = HandsOfOthers
      OBVIOUS
    <3>2. QED
      BY <2>5, <3>1
  <2>8. QED
    BY <2>5, <2>6, <2>7
<1>2. IInv => CountersAreExact
  BY <1>1 DEF CountersAreExact
<1>3. QED
  BY <1>2, Invariance, PTL
=============================================================================
