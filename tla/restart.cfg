SPECIFICATION Spec
CONSTANTS
  Keys = {k1}
  NoKey = NoKey
  NoTime = NoTime
  NoCmd = NoCmd
  MaxId = 2
  MaxTime = 1
  MaxRetries = 1
  MaxEnqueued = 1
  Submitters = {s1,s2}
  ConcurrentWrites = 1
  Threads = 1
  MaxCrashes = 1
  MaxReloads = 1
  MaxIOFailures = 1
  MaxLost = 1
  MaxMishaps = 1
  MayPause = FALSE
  AllowTies = TRUE
SYMMETRY Symmetry
INVARIANTS
  SinglePlace
  NoneForgotten
  WithinLimits
  HeldOnDisk
  CountersTrack
  NothingLost
CHECK_DEADLOCK FALSE
