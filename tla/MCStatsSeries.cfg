SPECIFICATION StatsSpec
CONSTANTS
  AuthorSequence = {s1, s2, s3}
  MaxNumber = 4
  MaxChain = 8
  LastDay = 3
  Null = Null
SYMMETRY Symmetry
INVARIANT SeriesIsOverlap
