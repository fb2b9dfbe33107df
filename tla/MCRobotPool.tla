---------------------------- MODULE MCRobotPool ----------------------------
(* Instances of RobotPool for TLC. Conn objects and descriptors are        *)
(* interchangeable, so safety runs take both as symmetric.                 *)
EXTENDS RobotPool, TLC

Symmetry == Permutations(Conns) \cup Permutations(Fds)
=============================================================================
