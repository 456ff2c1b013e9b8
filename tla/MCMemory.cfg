CONSTANTS
  Tasks = {t1, t2}
  NumEntries = 4
  NumLarge = 5
  Preallocated = 2
  UserSlots = {2, 3, 4}
  MemoryMap <- MCMap
  IndexWidth = 20
  Values = {0, 1}
  Programs <- MCPrograms
  Breaks = {12, 13}
  Addresses <- MCAddresses
  HeapBlock = 5
  Roomy = TRUE
  MaxBirths = 3
  MaxVidmaps = 2
SPECIFICATION MemorySpec
SYMMETRY Symmetry
CHECK_DEADLOCK FALSE
INVARIANTS
  MemoryTypeOK
  CountsExact
  FramesDisjoint
  NoBug
PROPERTIES
  ImplementsPrivateMemory
