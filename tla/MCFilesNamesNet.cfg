CONSTANTS
  NumTasks = 3
  NumTables = 2
  NumFiles = 5
  NumSessions = 2
  NumFds = 3
  MaxCalls = 2
  EceFds = 2
  MaxEce = 1
  Ttys = {"tty0", "tty1"}
  Console = "tty0"
  Ports = {7}
  Misuse = {}
  Dentries <- MCDentries
  Archive <- MCArchive
  Called <- MCCalled
  Pathnames <- MCPathnames
  Slots = {1}
  MaxLeaks = 2
  Amounts = {1, 2}
  Restart = FALSE
  RxSize = 40
  Lengths = {5, 12}
  MaxWrites = 2
  MaxAlien = 3
  Buffers = {b1, b2, b3}
  Races = {}
SPECIFICATION MCSpec
CHECK_DEADLOCK FALSE
INVARIANTS
  TypesOK
  CountsMatch
  NothingDangles
  MountHeld
  NamesRight
  

  
