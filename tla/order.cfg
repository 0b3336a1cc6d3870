SPECIFICATION Spec
CONSTANTS
  Keys = {k1}
  NoKey = NoKey
  NoTime = NoTime
  NoCmd = NoCmd
  MaxId = 3
  MaxTime = 3
  MaxRetries = 1
  MaxEnqueued = 2
  Submitters = {s1}
  ConcurrentWrites = 1
  Threads = 1
  MaxCrashes = 0
  MaxReloads = 0
  MaxIOFailures = 0
  MaxLost = 0
  MaxMishaps = 0
  MayPause = FALSE
  AllowTies = FALSE
SYMMETRY Symmetry
INVARIANTS
  TypeOK
  IndexInQueue
  MarkedSuperseded
  NewestSurvives
PROPERTIES
  Delivers
CHECK_DEADLOCK FALSE
