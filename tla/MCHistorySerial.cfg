\* One sync at a time.
CONSTANTS
  r1 = r1
  r2 = r2
  NoRevision = NoRevision
  NoTime = NoTime
  NoRow = NoRow
  Revision <- MCRevision
  LegacyRows <- MCLegacyRows
  LiveHealth <- MCLiveHealth
  EditHealth = {"Degraded"}
  EditSync = {"OutOfSync"}
  EditResult = {"Failed"}
  EditFields = {{"sync"}, {"status", "health"}}
  Worker = {sync1}
  MatchWindow = 2
  MaxTime = 2
  MaxArgo = 3
  MaxEdits = 1
SPECIFICATION FairSpec
INVARIANTS TypeOK OneRowPerDeployment OneStandInRow
PROPERTIES KeepsPromise EventuallyCaughtUp
CHECK_DEADLOCK FALSE
