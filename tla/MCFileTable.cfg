SPECIFICATION Spec
CONSTANTS
  Procs = {p1, p2}
  FirstProc = p1
  NUM_FILES = 2
  StdFiles = {0}
  Pages = {c1, c2, c3}
  Opens <- AllOpens
CONSTRAINT NotSpoiled
SYMMETRY PagesAreAlike
INVARIANTS
  RefCountExact
  OccupiedIsOpen
  ObjectsAreFreed
  
