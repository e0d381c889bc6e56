CONSTANTS
  NumClos = 5
  NoClos = NoClos
  MaxEntries = 4
SPECIFICATION PoolSpec
INVARIANTS PoolTypeOK PoolConserved SharedReserved
