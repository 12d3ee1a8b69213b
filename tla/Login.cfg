\* A provider to sign in to and one with a key; two logins.
SPECIFICATION LoginSpec
CONSTANTS
  p1 = p1
  p2 = p2
  Nothing = Nothing
  Provider <- Providers2
  Oauth = p1
  MaxLogins = 2
INVARIANTS DialoguesAreTheUsers
PROPERTIES LaterLoginsStand PortIsFreed
CHECK_DEADLOCK FALSE
