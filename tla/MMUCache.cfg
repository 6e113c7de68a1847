SPECIFICATION Spec
CONSTANTS
  N = 2
  CacheSize = 2
  Pages <- MCPages
  VectorPage <- MCVectorPage
  Asids = {0, 1}
  Maps <- MCMaps
  Wireds = {0, 1}
  Statuses <- MCStatuses
  Disciplined = TRUE
INVARIANTS TypeOK CacheAgrees VectorReached
PROPERTIES RefillHits WiredKept
