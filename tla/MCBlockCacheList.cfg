SPECIFICATION Spec
CONSTANTS
  PAGESIZE = 2
  NumBlocks = 4
  CACHE_BLOCKS = 3
  Values = {v0}
  Zero = v0
  Junk = junk
  IoErrors = TRUE
  Requests <- AllRequests
INVARIANTS
  ListIsPermutation
  NoBlockCachedTwice
