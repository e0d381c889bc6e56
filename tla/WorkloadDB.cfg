CONSTANTS
  NumClos = 4
  NoClos = NoClos
  Tasks = {t1, t2}
  Cores = {c1}
  MaxId = 3
  MaxSeq = 2
  UUIDs = {u1, u2}
  NoId = NoId
  NoUUID = NoUUID
  NoRow = NoRow
  gold = gold
  PolicyName = {gold}
  Policies <- MCPolicies
  NoPolicy = NoPolicy
  PostIds = {2, 3}
  Requests <- MCRequests
  Patches <- MCPatches
SPECIFICATION DBSpec
INVARIANTS DBTypeOK 
PROPERTIES SharedOnlyByPatch CreateKeepsOthers
CHECK_DEADLOCK FALSE
