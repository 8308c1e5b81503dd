SPECIFICATION MCSpec
CONSTANTS
  g1 = g1
  g2 = g2
  g3 = g3
  Goroutines = {g1, g2, g3}
  CallsOf <- Mixed
  MaxIndex = 3
INVARIANTS MutualExclusion FlagFalls IndicesUnique SweepSparesIndices
PROPERTY IndexCallReturns
