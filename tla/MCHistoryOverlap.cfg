\* Two syncs of the application overlap.
CONSTANTS
  r1 = r1
  r2 = r2
  NoRevision = NoRevision
  NoTime = NoTime
  NoRow = NoRow
  Revision <- MCRevision
  LegacyRows <- MCLegacyRows
  LiveHealth <- MCLiveHealth
  EditHealth = {"Degraded"}
  EditSync = {"OutOfSync"}
  EditResult = {"Failed"}
  EditFields = {}
  Worker = {sync1, sync2}
  MatchWindow = 2
  MaxTime = 0
  MaxArgo = 3
  MaxEdits = 0
SPECIFICATION Spec
PROPERTY FrozenAfterTerminal
CHECK_DEADLOCK FALSE
