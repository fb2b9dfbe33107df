---------------------------- MODULE MCCardTable ----------------------------
(* Instances of CardTable for TLC. The counters of a robot that rejoined   *)
(* are wrong until the next deal sets them again, and nothing reads them:  *)
(* states that differ only in them are taken as one.                       *)
EXTENDS CardTable

View ==
  IF rejoined \/ away
  THEN <<aiCardsVec, lastTakeOut, points, curHandSeat, lordSeat, rejoined, delayed, toRobot,
         toServer, hands, lord, turn, top, away, refused, excused, losses, policy>>
  ELSE vars
=============================================================================
