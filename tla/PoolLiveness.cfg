SPECIFICATION FairSpec
CONSTANTS
  RobotNum = 1
  Conns = {c1, c2}
  Fds = {f1, f2}
  None = None
  WheelSize = 3
  NodeTicks = 1
  MaxNeed = 1
PROPERTIES
  SilentConnectionIsDropped
  HeaderReconnects
