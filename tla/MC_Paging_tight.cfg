SPECIFICATION Spec
CONSTANTS
  NPROC = 3
  NBS = 2
  BSPAGES = 2
  FIRSTV = 40
  LimitIndex = {0, 1}
  NFRAMES = 8
  PTSIZE = 20
  GLOBALS = 2
  VPages = {40, 41}
  Policy = "SC"
  StrayWords = {0}
  Calls <- TightCalls
  Maps <- TightMaps
  Sizes = {1, 2}
  Values = {"a"}
  MinFree = 0
INVARIANTS
  TablesResident
PROPERTIES
  EvictedPageSaved
CHECK_DEADLOCK FALSE
