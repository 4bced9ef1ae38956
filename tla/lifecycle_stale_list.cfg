\* Two workers, neither of which dies or is slow.
SPECIFICATION FairSpec
CONSTANTS
  w1 = w1
  w2 = w2
  o1 = o1
  e1 = e1
  e2 = e2
  None = None
  Worker = {w1, w2}
  StaleAge = 1
  Crashable = {}
  Slow = {}
  Operator = {}
  Command = {}
  Engine = {}
  AutoMerge = FALSE
  MaxEvents = 1
PROPERTIES
  DecidedOnce
CHECK_DEADLOCK FALSE
