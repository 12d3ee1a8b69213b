\* Three conversations, two of them with one key, in a tracker with room for
\* one; two providers with different intervals.
SPECIFICATION Spec
CONSTANTS
  r1 = r1
  r2 = r2
  c1 = c1
  c2 = c2
  c3 = c3
  k1 = k1
  k2 = k2
  p1 = p1
  p2 = p2
  None = None
  Request <- Requests2
  Conversation <- Conversations3
  Key <- Keys2
  KeyOf <- KeyOf3
  Provider <- Providers2
  Interval <- Interval2
  MaxTracked = 1
  MaxTurn = 2
  MaxArmings = 2
INVARIANTS OverrideIsSpentOnce
PROPERTIES RemindersArePaced DueIsReminded
