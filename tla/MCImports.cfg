SPECIFICATION Spec
CONSTANTS
  Batches <- TwoBatches
  Live = {3, 4, 5}
  Link <- Links
  None = 0
  MaxRows = 5
  MaxImports = 2
  MaxBackfills = 2
  MaxEdits = 2
CHECK_DEADLOCK FALSE
INVARIANTS
  MessageFollowsClue
PROPERTIES
  BackfillProtects
