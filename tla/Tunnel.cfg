\* Two requests, two ports, and three ssh processes one after the other.
SPECIFICATION TunnelSpec
CONSTANTS
  r1 = r1
  r2 = r2
  p1 = p1
  p2 = p2
  None = None
  Foreign = Foreign
  Request <- Requests2
  Port <- Ports2
  MaxStarts = 3
INVARIANTS NoSshLeftBehind
PROPERTIES ClientsLeadToTheirSsh LockIsReleased
