SPECIFICATION Spec
CONSTANTS
  t1 = t1  t2 = t2  t3 = t3  k1 = k1  k2 = k2  u1 = u1
  NoClos = NoClos  NoId = NoId  NoUUID = NoUUID  NoRow = NoRow  NoPolicy = NoPolicy
  gold = gold  silver = silver  lost = lost
  PolicyName = {gold, silver, lost}  Policies <- MCPolicies
  Nova = nova  Validator = validator  Clients = {c1, c2}
  Tasks = {t1, t2}  Cores = {}  Mortal = {}  UUIDs = {}
  NumClos = 4
  NWays = 6  OSWays = 1  GuaranteeWays = 2  BesteffortWays = 2  SharedWays = 1  InfraWays = 1
  Sockets <- OneSocket  OSSockets <- OneSocket  InfraSockets <- OneSocket  Affinity <- OneSocketAffinity
  Shrink = FALSE  MbaMax = 2  ForceConfig = TRUE
  MaxId = 2  MaxSeq = 2  PostIds = {}
  Requests <- TwoLimits  Patches <- None  NovaRequests <- None
  OneAtATime = TRUE  MaxRequests = 2  MaxCrashes = 0  MaxResets = 0
INVARIANT MbaHonoured
