SPECIFICATION FairSpec
CONSTANTS
  a = a
  b = b
  m1 = m1
  m2 = m2
  Users = {a, b}
  Founder = a
  Members = {a}
  Messages = {m1, m2}
  From <- FromBoth
  PageLimit = 2
  Running = {a}
  MaxMishaps = 2
INVARIANT CursorSkipsNothing
INVARIANT ReadByTheRosterOfTheTime
INVARIANT StoredStatusIsTrue
PROPERTY DeliverySpec
PROPERTY StoredIsDelivered
PROPERTY OutboxDrains
