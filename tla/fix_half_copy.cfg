\* A second run after the process died while copying the repository.
SPECIFICATION Spec
CONSTANTS
  free = free
  secret = secret
  auth = auth
  drop = drop
  r1 = r1
  File = {free, secret, auth, drop}
  NeverModify = {secret}
  NeedsApproval = {auth}
  HighRisk = {auth}
  Critical = {drop}
  Hidden = {}
  Written = {}
  Patches <- FewPatches
  UserEdits = {free}
  Runner = {r1}
  InPlace = {}
  SaveOnly = {}
  MaxFixAttempts = 2
  MaxRuns = 2
  OpenAt = 70
  ApproveBelow = 85
INVARIANTS
  UserTreeUntouched
CHECK_DEADLOCK FALSE
