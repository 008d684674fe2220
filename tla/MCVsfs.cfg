SPECIFICATION FairSpec
CONSTANTS
  SIZE_BLOCKS = 16
  META = 6
  DIRECT_PTRS = 2
  PTRS = 2
  PAGE = 8
  ImageFiles <- MCImages
  Names = {a, b}
  Values = {x, y}
  Junk = {9}
  Writes <- MCWrites
  Unwritten = Unwritten
INVARIANTS
  BlocksOwnedOnce
  ReadsBackWrites
  DirectoryNamesInodes
PROPERTY
  CallReturns
