\* No worker crashes and none holds its claim for longer than the stale age.
SPECIFICATION FairLockSpec
CONSTANTS
  w1 = w1
  w2 = w2
  w3 = w3
  None = None
  Worker <- MCWorker
  StaleAge = 3
  Crashable = {}
  Slow = {}
INVARIANTS
  AtMostOneWorker
PROPERTIES
  ImplementsExclusiveClaim
