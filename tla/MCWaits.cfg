CONSTANTS
  Tasks = {t1, t2}
  Swapper = swapper
  NoTask = notask
  Modes = {TRUE, FALSE}
  BufferSize = 2
  RtcDivisor = {1, 2}
  MaxNap = 1
  Together = {{"tty", "poll"}, {"udp", "poll"}, {"rtc", "nap"}}
  Packets <- MCPackets
  MaxData = 2
  SleepFirst = TRUE
  Races = {}
SPECIFICATION WaitsFairSpec
INVARIANTS
  WaitsTypeOK
  WaitersMatch
  StreamsExact
PROPERTIES
  NapReturns
