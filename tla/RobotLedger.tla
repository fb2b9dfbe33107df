----------------------------- MODULE RobotLedger -----------------------------
(***************************************************************************)
(* What the pool of task robots promises: a queue of waiting robots and a  *)
(* set of robots at work. A robot starts work from the front of the queue, *)
(* goes back to its end, or retires; nothing else happens to it.           *)
(***************************************************************************)
EXTENDS Naturals, Sequences

CONSTANT Robots
VARIABLES waiting, working

Init ==
  /\ waiting \in Seq(Robots)
  /\ \A i, j \in DOMAIN waiting : waiting[i] = waiting[j] => i = j
  /\ working = {}

StartWork ==
  /\ waiting # <<>>
  /\ working' = working \cup {Head(waiting)}
  /\ waiting' = Tail(waiting)

ComeBack(r) ==
  /\ r \in working
  /\ working' = working \ {r}
  /\ waiting' = Append(waiting, r)

Retire(r) ==
  /\ r \in working
  /\ working' = working \ {r}
  /\ UNCHANGED waiting

Next == StartWork \/ \E r \in working : ComeBack(r) \/ Retire(r)

Spec == Init /\ [][Next]_<<waiting, working>>
=============================================================================
