SPECIFICATION Spec
CONSTANTS
  c1 = c1
  c2 = c2
  c3 = c3
  c4 = c4
  Editor = {e1, e2}
  Candidate = {c1, c2, c3, c4}
  Confidence <- ConfidenceOf
  Proposed = {c1, c3, c4}
  Manual = Manual
  None = None
CHECK_DEADLOCK FALSE
INVARIANTS
  WholeSolution
  ApprovalComplete
PROPERTIES
  ResolvedOnce
  PruneKeepsBest
  EveryRequestEnds
