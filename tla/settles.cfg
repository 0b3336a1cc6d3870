SPECIFICATION FairSpec
CONSTANTS
  Keys = {k1}
  NoKey = NoKey
  NoTime = NoTime
  NoCmd = NoCmd
  MaxId = 2
  MaxTime = 1
  MaxRetries = 1
  MaxEnqueued = 1
  Submitters = {s1}
  ConcurrentWrites = 1
  Threads = 1
  MaxCrashes = 1
  MaxReloads = 0
  MaxIOFailures = 1
  MaxLost = 1
  MaxMishaps = 1
  MayPause = TRUE
  AllowTies = TRUE
INVARIANTS
  RunsOnce
PROPERTIES
  Settles
