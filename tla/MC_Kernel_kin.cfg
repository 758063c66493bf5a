SPECIFICATION Spec
CONSTANTS
  NPROC = 4
  Prios = {1}
  QUANTUM = 1
  Calls <- KinCalls
  InitPrio = 1
  NSEM = 1
  Counts = {0}
  MaxCount = 1
  Delays = {}
  Msgs = {}
INVARIANTS
  ListsMatchStates
