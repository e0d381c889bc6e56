SPECIFICATION Spec
CONSTANTS
  t1 = t1  t2 = t2  t3 = t3  k1 = k1  k2 = k2  u1 = u1
  NoClos = NoClos  NoId = NoId  NoUUID = NoUUID  NoRow = NoRow  NoPolicy = NoPolicy
  gold = gold  silver = silver  lost = lost
  PolicyName = {gold, silver, lost}  Policies <- MCPolicies
  Nova = nova  Validator = validator  Clients = {c1, c2}
  Tasks = {t1, t2, t3}  Cores = {k1}  Mortal = {t1, t2, t3}  UUIDs = {u1}
  NumClos = 4
  NWays = 7  OSWays = 1  GuaranteeWays = 2  BesteffortWays = 3  SharedWays = 1  InfraWays = 1
  Sockets <- OneSocket  OSSockets <- OneSocket  InfraSockets <- OneSocket  Affinity <- OneSocketAffinity
  Shrink = FALSE  MbaMax = 2  ForceConfig = FALSE
  MaxId = 3  MaxSeq = 3  PostIds = {}
  Requests <- ConcurrentRequests  Patches <- None  NovaRequests <- ConcurrentNova
  OneAtATime = TRUE  MaxRequests = 3  MaxCrashes = 0  MaxResets = 0
SYMMETRY ClientSymmetry
INVARIANTS RowClosHeld GuaranteeHonoured MembersPlaced ExclusiveMembers SharedTogether
PROPERTIES ValidatorSparesLive
