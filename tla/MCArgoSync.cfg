\* One job at a time, with everything that can go on around it.
CONSTANTS
  s1 = s1
  s2 = s2
  u1 = u1
  u2 = u2
  k1 = k1
  k2 = k2
  NoSource = NoSource
  NoUid = NoUid
  NoId = NoId
  Source = {s1, s2}
  Cluster = {s2}
  Env = s1
  Uid = {u1, u2}
  Key = {k1, k2}
  LegacyKey = {k2}
  Worker = {w1}
  MaxId = 8
  MaxArgo = 3
  MaxChoices = 1
  MaxImports = 1
  MaxFailures = 1
SPECIFICATION FairSpec
INVARIANTS TypeOK MirrorsArgo TokenAsChosen ConnectionAsChosen
PROPERTIES LegacyRowsStay EventuallyMirrors
CHECK_DEADLOCK FALSE
