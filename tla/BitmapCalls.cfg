SPECIFICATION Spec
CONSTANTS
  W = 3  D = 1
  Lens = {2, 3, 5, 6}
INVARIANTS ScansFindRuns ReadBack OverlapRefused
PROPERTIES IsBitSet
