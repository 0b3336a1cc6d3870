SPECIFICATION Spec
CONSTANTS
  Keys = {k1}
  NoKey = NoKey
  NoTime = NoTime
  NoCmd = NoCmd
  MaxId = 2
  MaxTime = 1
  MaxRetries = 2
  MaxEnqueued = 2
  Submitters = {s1}
  ConcurrentWrites = 1
  Threads = 2
  MaxCrashes = 0
  MaxReloads = 0
  MaxIOFailures = 1
  MaxLost = 0
  MaxMishaps = 1
  MayPause = FALSE
  AllowTies = TRUE
SYMMETRY Symmetry
INVARIANTS
  DroppedIsOverwritten
CHECK_DEADLOCK FALSE
