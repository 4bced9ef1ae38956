\* A webhook server that may be restarted and a wrapper, with a rule of each kind.
SPECIFICATION ServerSpec
CONSTANTS
  e1 = e1
  e2 = e2
  f = f
  g = g
  Engine = {e1, e2}
  Server = {e1}
  Fingerprint = {f, g}
  Noise = {g}
  Rule <- AllRules
  DedupeWindow = 1
  RateLimit = 1
  RateWindow = 2
  MinKeep = 1
  Request <- SomeRequests
  SecretSet = TRUE
  OtelEnabled = TRUE
  Seen <- SeenByWrapper
  Mortal = {e1}
  MaxTime = 3
  MaxArrivals = 3
INVARIANTS
  ServerTypeOK
  TriggersSeeWholeWindow
  RateIsKept
  DuplicatesBounded
PROPERTIES
  NoDuplicateOpen
  AnswerIsTrue
CHECK_DEADLOCK FALSE
