CONSTANTS
  Jobs = {"j"}
  OneTime = {}
  FireOnce = {"j"}
  Forbid = {"j"}
  Slots = {1, 2}
  Schedulers = {"s1"}
  Manuals = {"m"}
  MaxTime = 2
  Grace = 0
  Retry = 1
  Ttl = 1
  MaxEdits = 0
  MaxFaults = 1
  Faults = {"create", "record", "crash"}
  Agents = {"a1"}
  Default = "a1"
  Admins = {"p1", "p2"}
  Ops = {"ensureDefault", "createVersion", "setActive", "issue", "rotate"}
  Reviews = {FALSE}
  MaxVersionAttempts = 1
  MaxVersions = 3
  MaxCreds = 2
  Tools = {"bash"}
  Written = {0, 2, 3, 4}
  MaxPlatform = 1
  MaxVersion = 1
  Calls = {1}
  Kinds = {"effect", "read", "ensure", "review", "download"}
  TTL = 2
  Ahead = {0, 1}
  MaxTick = 2
SPECIFICATION PartsSpec
INVARIANTS
  PartsTypeOK
  ShownTruly
  RiskTightens
  CallsAnsweredTruly
PROPERTIES
  EventsDelivered
  SessionsKeepOrder
  JobsAccounted
  HumanDecisionsHold
  IdentityKept
  BrowserShowsItsLogin
  MigrationsSafe
  SkillsKept
  ChatIsTheRun
  WorkspacesKept
  ConnectionsKept
  CronAccounted
  CatalogHonoured
CHECK_DEADLOCK FALSE
