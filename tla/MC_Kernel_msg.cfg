SPECIFICATION Spec
CONSTANTS
  NPROC = 4
  Prios = {1}
  QUANTUM = 1
  Calls <- MsgCalls
  InitPrio = 1
  NSEM = 1
  Counts = {0}
  MaxCount = 1
  Delays = {1, 2}
  Msgs = {7, 8}
INVARIANTS
  ReceiveFindsMessage
  ClockPointsAtFirst
PROPERTIES
  MessageKept
  ImplementsAlarm
