SPECIFICATION Spec
CONSTANTS
  t1 = t1  t2 = t2  t3 = t3  k1 = k1  k2 = k2  u1 = u1
  NoClos = NoClos  NoId = NoId  NoUUID = NoUUID  NoRow = NoRow  NoPolicy = NoPolicy
  gold = gold  silver = silver  lost = lost
  PolicyName = {gold, silver, lost}  Policies <- MCPolicies
  Nova = nova  Validator = validator  Clients = {c1}
  Tasks = {t1, t2}  Cores = {k1, k2}  Mortal = {t1, t2}  UUIDs = {}
  NumClos = 4
  NWays = 8  OSWays = 1  GuaranteeWays = 3  BesteffortWays = 3  SharedWays = 1  InfraWays = 5
  Sockets <- TwoSockets  OSSockets <- TwoSockets  InfraSockets <- OneSocket  Affinity <- TwoSocketAffinity
  Shrink = FALSE  MbaMax = 2  ForceConfig = TRUE
  MaxId = 3  MaxSeq = 3  PostIds = {}
  Requests <- SpanningRequests  Patches <- None  NovaRequests <- None
  OneAtATime = TRUE  MaxRequests = 3  MaxCrashes = 0  MaxResets = 0
INVARIANTS GuaranteeHonoured BesteffortHonoured MbaHonoured ThrottleConfined CountTruthful
