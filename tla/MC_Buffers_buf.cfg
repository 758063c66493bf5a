CONSTANTS
  s1 = s1
  s2 = s2
  r1 = r1
  Senders <- TwoSenders
  Receivers <- OneReceiver
  Proc <- ThreeProcs
  NBPOOLS = 1
  NumBufs = 2
  QMAX = 2
  QTypes = {"QF_WAIT", "QF_NOWAIT"}
  Keys = {1, 2}
SPECIFICATION FairSpec
INVARIANTS BuffersTypeOK BuffersConserved TakersFindBuffer
PROPERTIES ImplementsPriorityLines GetbufEnds
