SPECIFICATION Spec
CONSTANTS
  me = me
  b1 = b1
  b2 = b2
  c1 = c1
  c2 = c2
  m = m
  NONE = NONE
  Users = {me, b1, b2}
  Self = me
  Founding = {me, b1}
  Agents <- Enrolled
  Name <- Names
  Texts <- AllTexts
  Labels = {c1, c2, m}
  Harness <- Harnesses
  Place <- Places
  Nicks <- Nicknames
  Slug <- Slugs
  Numbered <- Count
  Sorted <- Order
  Begins <- Owners
  Fingerprint <- Keys
INVARIANT NeverAnotherPerson
INVARIANT AddressKeepsItsSession
