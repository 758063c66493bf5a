SPECIFICATION Spec
CONSTANTS
  NPROC = 4
  Prios = {1, 2}
  QUANTUM = 1
  Calls <- SemCalls
  InitPrio = 1
  NSEM = 1
  Counts = {0, 1}
  MaxCount = 2
  Delays = {}
  Msgs = {}
INVARIANTS
  TypeOK
  HighestPriorityRuns
  SemCountMatchesQueue
PROPERTIES
  ImplementsSemaphores
