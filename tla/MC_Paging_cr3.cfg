SPECIFICATION Spec
CONSTANTS
  NPROC = 3
  NBS = 2
  BSPAGES = 1
  FIRSTV = 20
  LimitIndex = {0}
  NFRAMES = 8
  PTSIZE = 20
  GLOBALS = 1
  VPages = {20, 21}
  Policy = "SC"
  StrayWords = {0}
  Calls <- RoomyCalls
  Maps <- RoomyMaps
  Sizes = {1}
  Values = {}
  MinFree = 2
INVARIANTS
  PrivateSpace
CHECK_DEADLOCK FALSE
