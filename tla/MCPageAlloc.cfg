SPECIFICATION Spec
CONSTANTS
  FAN = 2
  ekernel = 1
  max_pfn = 11
  DMA0 = 0
  K0 = 16
  MaxPages = 3
INVARIANTS FramesOwnedOnce DmaContiguous BlocksDisjoint NoPageLost PageAllocInv
