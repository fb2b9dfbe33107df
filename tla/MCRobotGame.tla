---- MODULE MCRobotGame ----
(***************************************************************************)
(* Games with the whole deck: cards 0 to 53 are shuffled by a quadratic    *)
(* key, and dealt 17 to a seat and 3 to the base.                          *)
(***************************************************************************)
EXTENDS RobotGame, RobotLevels

MCChargeLen == <<7, 9, 11, 13, 15, 17, 18, 18>>
MCDeck == [p \in 0..14 |-> IF p \in 13..14 THEN 1 ELSE 4]

CONSTANT Shuffles

PointOf(card) == IF card < 52 THEN card \div 4 ELSE card - 39
Key(card, k)  == (7 * card * card + k * card) % 53
Seat(card, k) ==
  LET before == {c \in 0..53 : Key(c, k) < Key(card, k) \/ (Key(c, k) = Key(card, k) /\ c < card)}
  IN  Cardinality(before) \div 17
Dealt(k) == [s \in 0..3 |-> [p \in 0..14 |-> Cardinality({c \in 0..53 : PointOf(c) = p /\ Seat(c, k) = s})]]
MCDeals == {Dealt(k) : k \in Shuffles}

(* Robots of all levels, or two of level 1, or of level 2, with a player.  *)
WithPlayer(p, l) == [s \in 0..2 |-> IF s = p THEN -1 ELSE l]
MCTables == [0..2 -> 0..2] \cup {WithPlayer(p, 1) : p \in 0..2} \cup {WithPlayer(1, 2)}
MCShuffles == {5, 17}
====
