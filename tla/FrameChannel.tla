---------------------------- MODULE FrameChannel ----------------------------
(***************************************************************************)
(* What RobotSession and RobotPool take a connection for: messages come to *)
(* a robot in the order they were sent, whole, and each once, until the    *)
(* connection is lost.                                                     *)
(***************************************************************************)
EXTENDS Sequences

CONSTANT Message

VARIABLES
  queue,  \* sent and not yet handed to the robot
  msg     \* handed to the robot last

Init == queue = <<>> /\ msg \in Message

Send    == \E m \in Message : queue' = Append(queue, m) /\ UNCHANGED msg
Receive == queue # <<>> /\ msg' = Head(queue) /\ queue' = Tail(queue)
Lose    == queue' = <<>> /\ UNCHANGED msg

Next == Send \/ Receive \/ Lose

Spec == Init /\ [][Next]_<<queue, msg>>
=============================================================================
