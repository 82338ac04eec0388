CONSTANTS
  f = f
  a = a
  nf = nf
  n1 = n1
  n2 = n2
  NONE = NONE
  Users = {f, a}
  Names <- MCNames
  Founder = f
  FounderName = nf
  RequestTTL = 1
  MaxPending = 2
  MaxRevision = 5
  MaxInFlight = 2
SPECIFICATION FairSpec
INVARIANT AlwaysGoverned
INVARIANT CopiesArePrefixes
INVARIANT RosterFollowsHistory
INVARIANT SignedWithAuthority
INVARIANT OneDecisionPerRequest
PROPERTY ClosedIsFinal
PROPERTY CopiesConverge
PROPERTY ServesAsPromised
