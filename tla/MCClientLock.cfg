SPECIFICATION FairSpec
CONSTANTS
  h = h
  a = a
  t1 = t1
  t2 = t2
  NONE = NONE
  Daemons = {h, a}
  Teams = {t1, t2}
  Host <- Hosts
  Members <- Rosters
INVARIANT KnownCircles
PROPERTY SyncsGoOn
