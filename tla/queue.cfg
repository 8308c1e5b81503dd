SPECIFICATION MCSpec
CONSTANTS
  N = 5
  Preemptible = FALSE
  ParallelN = 2
INVARIANTS
  TypeOK
  NoPanic
  SingleHandler
  NothingStranded
PROPERTIES
  ImplementsOrderedWriter
  ParallelCallsReturn
