SPECIFICATION FairSpec
CONSTANTS
  NUM_PROCS = 3
  MaxPid = 3
  Xstates <- MCXstates
  FaultCauses <- MCFaultCauses
PROPERTIES
  WaitpidReturnsXstate
