SPECIFICATION FairSpec
CONSTANTS
  k1 = k1  k2 = k2  u1 = u1  u2 = u2  u3 = u3
  NoClos = NoClos  NoId = NoId  NoUUID = NoUUID  NoRow = NoRow  NoPolicy = NoPolicy
  PolicyName = {}  Policies <- NoPolicies
  Tasks = {}  Cores = {k1, k2}  UUIDs = {u1, u2, u3}
  NumClos = 3  MaxId = 3  MaxSeq = 3
  Pinning <- OneCoreEach  Foreign = {u3}  Plugged = {u2}
  MaxFaults = 1  MaxCrashes = 1
INVARIANTS NoGhosts CoresFollowRows
PROPERTIES QueueDrained PolicyApplied
CHECK_DEADLOCK FALSE
