\* A connection is chosen while a sync runs.
CONSTANTS
  s1 = s1
  s2 = s2
  u1 = u1
  u2 = u2
  k1 = k1
  k2 = k2
  NoSource = NoSource
  NoUid = NoUid
  NoId = NoId
  Source = {s1, s2}
  Cluster = {s2}
  Env = NoSource
  Uid = {u1, u2}
  Key = {k1, k2}
  LegacyKey = {}
  Worker = {w1}
  MaxId = 8
  MaxArgo = 0
  MaxChoices = 2
  MaxImports = 0
  MaxFailures = 0
SPECIFICATION Spec
INVARIANT SavedAsChosen
CHECK_DEADLOCK FALSE
