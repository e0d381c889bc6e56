SPECIFICATION Spec
CONSTANTS
  t1 = t1  t2 = t2  t3 = t3  k1 = k1  k2 = k2  u1 = u1
  NoClos = NoClos  NoId = NoId  NoUUID = NoUUID  NoRow = NoRow  NoPolicy = NoPolicy
  gold = gold  silver = silver  lost = lost
  PolicyName = {gold, silver, lost}  Policies <- MCPolicies
  Nova = nova  Validator = validator  Clients = {c1}
  Tasks = {t1, t2}  Cores = {k1}  Mortal = {t1, t2}  UUIDs = {}
  NumClos = 4
  NWays = 6  OSWays = 1  GuaranteeWays = 2  BesteffortWays = 2  SharedWays = 1  InfraWays = 1
  Sockets <- OneSocket  OSSockets <- OneSocket  InfraSockets <- OneSocket  Affinity <- OneSocketAffinity
  Shrink = FALSE  MbaMax = 2  ForceConfig = TRUE
  MaxId = 3  MaxSeq = 3  PostIds = {}
  Requests <- CrashRequests  Patches <- None  NovaRequests <- None
  OneAtATime = FALSE  MaxRequests = 3  MaxCrashes = 1  MaxResets = 1
INVARIANTS RowClosHeld WaysExclusive ModeConsistent
