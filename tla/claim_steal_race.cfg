\* One worker may die, so the other two may find its lock stale at once.
SPECIFICATION FairLockSpec
CONSTANTS
  w1 = w1
  w2 = w2
  w3 = w3
  None = None
  Worker <- MCWorker
  StaleAge = 2
  Crashable = {w1}
  Slow = {}
INVARIANTS
  AtMostOneWorker
