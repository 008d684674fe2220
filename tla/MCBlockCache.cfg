SPECIFICATION Spec
CONSTANTS
  PAGESIZE = 2
  NumBlocks = 3
  CACHE_BLOCKS = 3
  Values = {v0, v1}
  Zero = v0
  Junk = junk
  IoErrors = FALSE
  Requests <- PartialRequests
INVARIANTS
  Coherent
PROPERTIES
  ImplementsStore
