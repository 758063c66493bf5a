SPECIFICATION FairSpec
CONSTANTS
  NPROC = 3
  Prios = {1, 2}
  QUANTUM = 2
  Calls <- WakeCalls
  InitPrio = 1
  NSEM = 1
  Counts = {0}
  MaxCount = 1
  Delays = {1, 2}
  Msgs = {7}
PROPERTIES
  RoundRobin
  SleeperWakes
  TimedReceiveEnds
