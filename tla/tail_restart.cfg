\* The process is restarted once between two polls.
SPECIFICATION Spec
CONSTANTS
  None = None
  Script <- ThreeErrors
  FrameReach = 3
  RecentMax = 5
  EndsAt = {"idle"}
  RotatesAt = {"down", "idle"}
  MaxStarts = 2
  MaxRotations = 0
INVARIANTS
  NoGap
CHECK_DEADLOCK FALSE
