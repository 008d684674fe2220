SPECIFICATION Spec
CONSTANTS
  NUM_DESC = 4
  IDX_MOD = 8
  MaxRequests = 9
  PAGESIZE = 4096
  Modes <- MCModes
  Shapes <- MCShapes
INVARIANTS
  NoEarlyReturn
CHECK_DEADLOCK FALSE
