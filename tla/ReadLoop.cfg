SPECIFICATION Spec
CONSTANTS
  RobotNum = 2
  Conns = {c1, c2, c3}
  Fds = {f1, f2, f3}
  None = None
  WheelSize = 3
  NodeTicks = 1
  MaxNeed = 2
SYMMETRY Symmetry
INVARIANT ReadLoopConnIsMapped
