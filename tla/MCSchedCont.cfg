SPECIFICATION Spec
CONSTANTS
  Tasks = {t1, t2}
  InitTask = t1
  Swapper = swapper
  MaxTick = 1
  StaleExits = {}
INVARIANT ContNeverDelivered
