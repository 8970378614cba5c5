CONSTANTS
  c1 = c1
  c2 = c2
  h1 = h1
  h2 = h2
  NoId = NoId
  NoSecret = NoSecret
  NoTime = NoTime
  Id <- MCId
  Slot <- MCSlot
  MAX_CONNECTORS = 1
  ENROLLMENT_TTL = 1
  STALE_AFTER = 0
  MaxTime = 2
  MaxSecrets = 4
SPECIFICATION Spec
INVARIANTS
  TypeOK
  TokenIssuesOnce
  CredentialOwned
  ConnectorLimit
  RotationInvalidates
  OpenIsEnrollable
PROPERTIES
  NoWorkOnRevoked
  ServesAgents
SYMMETRY Symmetry
CHECK_DEADLOCK FALSE
