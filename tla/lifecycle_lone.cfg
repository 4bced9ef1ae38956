\* One worker that may die anywhere and be started again.
SPECIFICATION FairSpec
CONSTANTS
  w1 = w1
  w2 = w2
  o1 = o1
  e1 = e1
  e2 = e2
  None = None
  Worker = {w1}
  StaleAge = 1
  Crashable = {w1}
  Slow = {}
  Operator = {}
  Command = {}
  Engine = {}
  AutoMerge = TRUE
  MaxEvents = 1
PROPERTIES
  DecidedOnce
  PendingIsPickedUp
