SPECIFICATION MCSpec
CONSTANTS
  m1 = m1
  m2 = m2
  w1 = w1
  w2 = w2
  Networks = {1, 2}
  Msgs = {m1, m2}
  Encrypted = {m1}
  Waiters = {w1, w2}
  Accepts <- MCAccepts
  Subscriber = Subscriber
  s1 = s1
  s2 = s2
  Sends = {s1, s2}
CHECK_DEADLOCK FALSE
INVARIANT HeldOrClosed
PROPERTIES WaitersServed WaitersEnd
