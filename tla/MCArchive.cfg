SPECIFICATION Spec
CONSTANTS
  Clue = {c1, c2, c3}
  Author = {ann, bob}
  Solver = {ann}
  Position = {1, 2, 3, 4}
  None = None
  Unset = Unset
  MaxNumber = 4
SYMMETRY Symmetry
INVARIANTS
  TypeOK
  UniqueNumbers
PROPERTIES
  ImplementsChain
  ExactUnlessRewritten
  DriftHeals
