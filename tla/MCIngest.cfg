SPECIFICATION Spec
CONSTANTS
  User = {u1, u2}
  Unknown = Unknown
  Text <- Texts
  Messages = 2
  QuietMessages = 4
  MaxRedeliveries = 1
  MaxCrashes = 1
  MaxWebClues = 1
  MaxBackfills = 1
  MaxFaults = 2
SYMMETRY Symmetry
CHECK_DEADLOCK FALSE
INVARIANTS
  IngestedOnce
  WatermarkArchived
  FirstClueIsFirst
  WindowIsSpan
  PostedClueArchived
PROPERTIES
  WatermarkAdvances
  BackfillFills
