\* Two requests, two logins of three tokens each, one crash.
SPECIFICATION Spec
CONSTANTS
  r1 = r1
  r2 = r2
  s1 = s1
  s2 = s2
  None = None
  Login = Login
  Request <- Requests2
  Session <- Sessions2
  Rotating <- Rotating1
  MaxIssues = 3
  MaxCrashes = 1
INVARIANTS AccountFollowsToken StoredTokenIsLive LoginStaysReadable
INVARIANTS LastWordStands
CHECK_DEADLOCK FALSE
