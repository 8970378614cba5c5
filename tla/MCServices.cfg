CONSTANTS
  u1 = u1
  u2 = u2
  p1 = p1
  p2 = p2
  e1 = e1
  r1 = r1
  r2 = r2
  a1 = a1
  a2 = a2
  NoUser = NoUser
  NoOrg = NoOrg
  NoExpiry = NoExpiry
  Absent = Absent
  NoApp = NoApp
  User <- MCUser
  Project <- MCProject
  Environment <- MCEnvironment
  Ensurer <- MCEnsurer
  MaxOrgs = 3
  Webhook <- MCWebhook
  MaxEvents = 3
  MaxDay = 1
  Issuer <- MCIssuer
  INTERVAL = 0
  TTL = 1
  MaxLinks = 3
  MaxClock = 2
  Row <- MCRow
  Reader <- MCReader
  Charted <- MCCharted
  Unobserved <- MCUnobserved
  Instant <- MCInstant
  Health = {"Healthy", "Degraded"}
  DAY = 2
  RANGE = 1
  WEEK = 2
  SPAN = 2
  NOW = 5
  MaxHistory = 3
  MaxRows = 3
  MaxPhrases = 2
  App <- MCApp
  MaxActs = 3
  MailEnvironment <- MCMailEnvironment
  Address <- MCAddress
  MaxRecords = 2
  MAX_APPLICATIONS = 1
  MAX_PROJECTS = 1
  MAX_CHARS = 1
  AGENT_APPLICATIONS = 1
  AGENT_PROJECTS = 1
  MAX_BODY_CHARS = 3
  LastInstant = 2
  Signal <- MCSignal
  Blank <- MCBlank
  MaxItems = 2
  MaxParts = 2
SPECIFICATION Spec
SYMMETRY Requests
INVARIANTS
  Isolation
  OneHome
  PlansAgree
  FollowsStripe
  OneLink
  LimitedHasMail
  NoticeCopies
  PanelsAgree
  TrendMatches
  PageFitsAnalysis
  AnswersForSelected
  ReachesChecked
  AgentAgrees
CHECK_DEADLOCK FALSE
