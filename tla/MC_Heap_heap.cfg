SPECIFICATION MCSpec
CONSTANTS
  Regions <- BelowAndAboveHole
  MemSizes = {1, 2, 3, 4}
  StackSizes = {2, 4}
  VProc = {p1, p2}
  HSize = 3
  VSizes = {1, 2}
  StoredWords <- ReadsAs
INVARIANTS
  Coalesced
  NoOverlap
  NothingLost
  PrivateHeap
SYMMETRY VSymmetry
