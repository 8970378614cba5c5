\* Two syncs of one application overlap, or two jobs of one organization.
CONSTANTS
  r1 = r1
  r2 = r2
  s1 = s1
  s2 = s2
  u1 = u1
  u2 = u2
  k1 = k1
  k2 = k2
  NoRevision = NoRevision
  NoTime = NoTime
  NoRow = NoRow
  NoSource = NoSource
  NoUid = NoUid
  NoId = NoId
  Worker = {w1, w2}
  Revision <- MCRevision
  LegacyRows <- MCLegacyRows
  LiveHealth <- MCLiveHealth
  EditHealth = {"Degraded"}
  EditSync = {"OutOfSync"}
  EditResult = {"Failed"}
  EditFields = {}
  MatchWindow = 2
  MaxTime = 2
  MaxArgo = 3
  MaxEdits = 0
  Source = {s1, s2}
  Cluster = {s2}
  Env = s1
  Uid = {u1, u2}
  Key = {k1, k2}
  LegacyKey = {}
  MaxId = 4
  MaxListed = 2
  MaxChoices = 0
  MaxImports = 1
  MaxFailures = 0
SPECIFICATION SpecBoth
INVARIANTS SnapshotWasLive ResultWasObserved MirrorsArgo
SYMMETRY Symmetry
CHECK_DEADLOCK FALSE
