SPECIFICATION FairSpec
CONSTANTS
  Host = {srv, h1}
  Server = srv
  MON_ARP_TSIZE = 1
  MaxWire = 2
  FileLen = 2
  Sessions = 2
  MON_MAX_TRY = 1
  RETX_MAX = 1
  NBPOOLS = 1
INVARIANTS ArpFunctional TimerRuns BlocksInStep
PROPERTIES PhaseForward ImplementsTransfer BootEnds
CHECK_DEADLOCK FALSE
