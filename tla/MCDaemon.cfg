SPECIFICATION DaemonSpec
CONSTANTS
  Message = {1, 2}
  Poison = {2}
  BatchSize = 2
  MaxRetries = 2
  Breaker = 2
  MaxWindows = 2
  MaxCrashes = 1
  Thread = {t1, t2, t3, t4}
  First = t1
  Halts = 1
  None = None
  User = {Author, Ann}
  ClueAuthor = Author
  Content <- Contents
  Enumeration <- Enumerations
  MaxMessages = 2
  ShortMessage = 2
CHECK_DEADLOCK FALSE
INVARIANTS
  AnsweredIsDone
  ListenerPerHalt
  EvidenceCounts
  NothingOverlooked
  ExactCapitalsAreSure
PROPERTIES
  OnlyOverlapsRepeat
  SettledForGood
  EveryTaskSettles
  Reconnects
  HaltReturns
