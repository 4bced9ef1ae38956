\* w1 and w2 may die at any point and be started again; w3 keeps polling.
SPECIFICATION FairLockSpec
CONSTANTS
  w1 = w1
  w2 = w2
  w3 = w3
  None = None
  Worker <- MCWorker
  StaleAge = 2
  Crashable = {w1, w2}
  Slow = {}
PROPERTIES
  AbandonedLockIsStolen
