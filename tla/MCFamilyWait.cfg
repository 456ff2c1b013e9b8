CONSTANTS
  Tasks = {init, t1, t2}
  InitTask = init
  Swapper = swapper
  NoTask = none
  CleanWaits = FALSE
SPECIFICATION FamilySpec
SYMMETRY Symmetry
INVARIANTS
  ChildHeard
CHECK_DEADLOCK FALSE
