SPECIFICATION FairSpec
CONSTANTS
  t1 = t1  t2 = t2  t3 = t3  k1 = k1  k2 = k2  u1 = u1
  NoClos = NoClos  NoId = NoId  NoUUID = NoUUID  NoRow = NoRow  NoPolicy = NoPolicy
  gold = gold  silver = silver  lost = lost
  PolicyName = {gold, silver, lost}  Policies <- MCPolicies
  Nova = nova  Validator = validator  Clients = {c1}
  Tasks = {t1}  Cores = {}  Mortal = {t1}  UUIDs = {}
  NumClos = 3
  NWays = 3  OSWays = 1  GuaranteeWays = 2  BesteffortWays = 0  SharedWays = 0  InfraWays = 0
  Sockets <- OneSocket  OSSockets <- OneSocket  InfraSockets <- OneSocket  Affinity <- OneSocketAffinity
  Shrink = FALSE  MbaMax = 2  ForceConfig = TRUE
  MaxId = 3  MaxSeq = 3  PostIds = {}
  Requests <- LiveRequests  Patches <- LivePatches  NovaRequests <- None
  OneAtATime = FALSE  MaxRequests = 3  MaxCrashes = 1  MaxResets = 0
PROPERTIES EveryRequestAnswered DeadRowsRemoved ServesAgain
