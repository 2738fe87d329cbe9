SPECIFICATION Spec
CONSTANTS
  User = {owner, moderator}
  Moderator = {moderator}
  FirstEditor = owner
  Request = {r1, r2}
  None = None
  Clue = {c1, c2}
  Number = {1, 2}
  Manual <- ManualTheme
  Groups <- TwoGroups
  MaxEvents = 4
  MaxImports = 1
SYMMETRY Symmetry
CHECK_DEADLOCK FALSE
PROPERTIES
  EditsCompose
  ImportIsSpreadsheet
  RevocationStands
