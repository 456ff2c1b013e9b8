CONSTANTS
  Tasks = {t1, t2, t3}
  Swapper = swapper
  Interruptible = FALSE
  DiskSize = 2
  NoTask = none
  OpensBusy = FALSE
  Requests <- MCRequests
SPECIFICATION AtaFairSpec
INVARIANTS
  AtaTypeOK
  ServesOwner
  CacheTrue
  SleepIsAnswered
  FrontWillRun
PROPERTIES
  ReadReturns
  UsesMutex
