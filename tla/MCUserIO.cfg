SPECIFICATION Spec
CONSTANTS
  PAGESIZE = 8
  WORD = 2
  BYTE = 8
  ALIGN = 4
  Maps <- MCMaps
  Image <- MCImage
  StackTop = 48
  Descriptors <- MCDescriptors
  Contents <- MCContents
  DiskRoom = 8
  StaleBytes = {7}
  Keys = {6}
  FbSize = 3
  FailAt = {"RESOURCE_ATTACH_BACKING", "SET_SCANOUT", "TRANSFER_TO_HOST_2D"}
  Requests <- MCRequests
  Seeks <- MCSeeks
  Permissions <- MCPermissions
  ArgLists <- MCArgLists
  ArgPlaces <- MCArgPlaces
  MaxCalls = 2
INVARIANTS
  ArgsArrive
  CommandsInOrder
  DrawnIsTransferred
PROPERTIES
  ReadCopies
  WriteAllOrNothing
  ConsoleTakesAll
  LseekReports
