SPECIFICATION Spec
CONSTANTS
  t = t
  u = u
  d = d
  e = e
  Teams = {t, u}
  MaxAgents = 2
  Dirs = {d, e}
  Origin <- MCOrigin
  PathBound = {u}
  NONE = NONE
INVARIANT OnlyInMyTeams
INVARIANT VisibleTakesPart
INVARIANT NobodyIsForgotten
PROPERTY NeverPublishesItself
PROPERTY SyncRespectsOwner
PROPERTY AdmissionIsLearned
PROPERTY OnlyStaleJoinsBlock
