SPECIFICATION FairSpec
CONSTANTS
  Tasks = {t1, t2, t3, t4}
  InitTask = t1
  Swapper = swapper
  MaxTick = 1
  StaleExits = {t4}
INVARIANTS
  TypeOK
  QueueExclusive
  NoneStranded
  SelfWakeTaken
  ExitedNeverRuns
PROPERTIES
  NoOvertaking
  ImplementsReadySet
  QueuedRuns
