\* A second run finds the sandbox as the first one left it.
SPECIFICATION FairSpec
CONSTANTS
  free = free
  secret = secret
  auth = auth
  drop = drop
  r1 = r1
  File = {free, secret, auth, drop}
  NeverModify = {secret}
  NeedsApproval = {auth}
  HighRisk = {auth}
  Critical = {drop}
  Hidden = {}
  Written = {free}
  Patches <- AllPatches
  UserEdits = {}
  Runner = {r1}
  InPlace = {}
  SaveOnly = {}
  MaxFixAttempts = 2
  MaxRuns = 2
  OpenAt = 70
  ApproveBelow = 85
INVARIANTS
  TypeOK
  AppliedPushIsAllowed
  UntestedIsNotPushed
PROPERTIES
  RunEnds
CHECK_DEADLOCK FALSE
