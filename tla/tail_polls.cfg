\* The log is rotated once, and the process is restarted once, at any file call of a poll;
\* or the pipes of a program are read.
SPECIFICATION ObserversSpec
CONSTANTS
  None = None
  Script <- ThreeErrors
  FrameReach = 3
  RecentMax = 5
  EndsAt = {"idle", "reading", "saving"}
  RotatesAt = {"down", "idle", "reading", "saving"}
  MaxStarts = 2
  MaxRotations = 1
  Written <- SecretAndError
  WrapperReach = 4
  RedactsUpTo <- HalfOrAll
  WrapperTime = 1
  UserPatterns <- OneOfOwnAndOneUnsafe
  MaxAge = 1
  MaxBytes = 8
  Overhead = 1
  BeforeError = 0
  AfterError = 0
  MaxChars = 4
INVARIANTS
  ObserversTypeOK
  NoLineTwice
  TopFrameIsOwn
  ReportedOnce
  LinesInOrder
  SecretsStayOut
  BufferIsBounded
PROPERTIES
  HeaderIsReported
  LogsShowError
  LineArrives
CHECK_DEADLOCK FALSE
