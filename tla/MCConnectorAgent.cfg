CONSTANTS
  p1 = p1
  p2 = p2
  t1 = t1
  t2 = t2
  q1 = q1
  q2 = q2
  None = None
  NoDeployment = NoDeployment
  Pod <- MCPod
  Name <- MCName
  MaxTroubles = 1
  Poll <- MCPoll
  MaxChanges = 4
SPECIFICATION Spec
INVARIANTS
  StoredForInstalled
  CredentialKept
PROPERTIES
  InstallEnrolls
  Reconnects
  CatchesUp
CHECK_DEADLOCK FALSE
