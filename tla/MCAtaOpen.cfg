CONSTANTS
  Tasks = {t1, t2}
  Swapper = swapper
  Interruptible = FALSE
  DiskSize = 2
  NoTask = none
  OpensBusy = TRUE
  Requests <- MCRequests
SPECIFICATION AtaSpec
INVARIANTS
  CommandIsMine
