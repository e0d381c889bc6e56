SPECIFICATION FairSpec
CONSTANTS
  s1 = s1  s2 = s2  s3 = s3
  Slots = {s1, s2, s3}
  MaxFaults = 3
INVARIANT OneRoot
PROPERTIES OrphansEnd ServesAgain
CHECK_DEADLOCK FALSE
