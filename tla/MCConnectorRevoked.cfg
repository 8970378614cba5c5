\* One connector on which two handlers overlap.
CONSTANTS
  c1 = c1
  c2 = c2
  h1 = h1
  h2 = h2
  NoId = NoId
  NoSecret = NoSecret
  NoTime = NoTime
  Id = {c1}
  Slot <- MCSlot
  MAX_CONNECTORS = 1
  ENROLLMENT_TTL = 1
  STALE_AFTER = 0
  MaxTime = 0
  MaxSecrets = 4
SPECIFICATION Spec
INVARIANT RevokedStaysRevoked
CHECK_DEADLOCK FALSE
