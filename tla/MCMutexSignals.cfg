CONSTANTS
  Tasks = {t1, t2, t3}
  Swapper = swapper
  Interruptible = TRUE
  Processes = {2, 3}
  Used = {9, 11}
  Masks <- MCMasks
  MaxFrames = 2
  MaxCalls = 2
  IgnoresSegv = FALSE
SPECIFICATION MCSpec
CHECK_DEADLOCK FALSE
INVARIANTS
  SignalsTypeOK
  OwnerIsFront
  QueueIsInside
  MaskComesBack
PROPERTIES
  FatalKills
