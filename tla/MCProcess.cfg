SPECIFICATION FairSpec
CONSTANTS
  NUM_PROCS = 3
  MaxPid = 4
  Xstates <- MCXstates
  FaultCauses <- MCFaultCauses
INVARIANTS
  WaitedMeansParentBlocked
  BlockedOnLiveIsFlagged
  ProcessInv
PROPERTIES
  WokenByItsWaitee
  NoResurrection
  ImplementsLife
  ReadyRuns
