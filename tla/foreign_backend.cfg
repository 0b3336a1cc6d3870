SPECIFICATION Spec
CHECK_DEADLOCK FALSE
CONSTANTS
  Queries = {q1,q2}
  Channels = {c1,c2}
  Pids = {p1}
  NoKey = NoKey
  NoPid = NoPid
  NoChannel = NoChannel
  MaxTime = 1
  LongestSleep = 2
  MaxTimeouts = 0
  MaxGone = 1
  MayFail = FALSE
  MayStop = FALSE
SYMMETRY Symmetry
INVARIANTS
  NoForeignBackend
