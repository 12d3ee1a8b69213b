\* Two requests at once, a user with two documents and two times to give them.
SPECIFICATION ConfigsSpec
CONSTANTS
  r1 = r1
  r2 = r2
  u1 = u1
  d1 = d1
  d2 = d2
  Nobody = Nobody
  Broken = Broken
  Absent = Absent
  None = None
  Request <- Requests2
  User <- Users1
  Document <- Documents2
  MaxTime = 2
  MaxReloads = 1
INVARIANTS ServedFromTheFile
