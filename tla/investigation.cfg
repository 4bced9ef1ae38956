\* One run over every project of a few files, with every setting.
SPECIFICATION Spec
CONSTANTS
  a = a
  b = b
  c = c
  d = d
  e = e
  t = t
  g = g
  u = u
  p = p
  r = r
  CodeFile = {a, b, d, e, t, g, u}
  OtherFile = {c}
  Test = {t, u}
  Python = {g, u}
  Package = {p}
  Route = {r}
  Projects <- AllProjects
  NeighborDepth = 2
  DependentDepth = 3
  Denied = {b}
  Gone = {d}
  Frame <- SomeFrames
  ResolveFile <- SomeFiles
  NoFile = NoFile
  FrameLists <- SomeTraces
  MaxContextFiles = 3
  MaxRetries = 2
  MaxFixAttempts = 2
INVARIANTS
  TypeOK
  WalkIsExact
  NearestFirst
  SentIsAllowed
  RequestsBounded
  UsedIsAudited
PROPERTIES
  FramesComeFirst
  InvestigationEnds
CHECK_DEADLOCK FALSE
