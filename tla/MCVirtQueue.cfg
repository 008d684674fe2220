SPECIFICATION FairSpec
CONSTANTS
  NUM_DESC = 4
  IDX_MOD = 8
  MaxRequests = 8
  PAGESIZE = 4096
  Modes <- MCModes
  Shapes <- MCShapes
INVARIANTS
  DeviceServesCurrentRequest
  NoEarlyReturn
  DescriptorsConserved
PROPERTIES
  RequestCompletes
CHECK_DEADLOCK FALSE
