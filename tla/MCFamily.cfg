CONSTANTS
  Tasks = {init, t1, t2, t3}
  InitTask = init
  Swapper = swapper
  NoTask = none
  CleanWaits = TRUE
SPECIFICATION FamilySpec
SYMMETRY Symmetry
INVARIANTS
  FamilyTypeOK
  ParentMourns
  WaitedChildStays
  ChildHeard
