SPECIFICATION Spec
CONSTANTS
  a = a
  b = b
  m1 = m1
  m2 = m2
  Users = {a, b}
  Founder = a
  Members = {a}
  Messages = {m1, m2}
  From <- FromBoth
  PageLimit = 1
  Running = {a}
  MaxMishaps = 1
INVARIANT FailedIsNotStored
