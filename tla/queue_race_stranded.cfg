SPECIFICATION MCSpec
CONSTANTS
  N = 2
  Preemptible = TRUE
INVARIANT NothingStranded
