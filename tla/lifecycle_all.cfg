\* A worker that may die, a person at the command line and an engine, with their records.
SPECIFICATION MemorySpec
CONSTANTS
  w1 = w1
  w2 = w2
  o1 = o1
  e1 = e1
  e2 = e2
  None = None
  Worker = {w1}
  StaleAge = 0
  Crashable = {w1}
  Slow = {}
  Operator = {o1}
  Command = {"open-mr", "analyze", "mark-rejected"}
  Engine = {e1}
  AutoMerge = TRUE
  MaxEvents = 2
INVARIANTS
  MemoryTypeOK
  MrStatusIsReal
  CountsOnlyRealEvents
  DecisionsAreOnRecord
