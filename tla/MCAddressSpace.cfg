SPECIFICATION SpaceSpec
CONSTANTS
  FAN = 64
  ekernel = 1
  max_pfn = 110
  DMA0 = 1
  K0 = 128
  MaxPages = 15
  Procs <- MCProcs
  Programs <- MCPrograms
  InitProgram = "init"
  UStack = 1
  UFAN = 2
  HEAP_TOP = 5
  KStack = 14
  StackUse = 1
  ArgCounts <- MCArgCounts
  StorePages <- MCStorePages
  MaxCalls = 4
INVARIANTS Isolated KnownLeaks LiveStackKept
PROPERTIES PrivateMemorySpec ExitLosesNothing
