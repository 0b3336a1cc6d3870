SPECIFICATION FairSpec
CHECK_DEADLOCK FALSE
CONSTANTS
  Queries = {q1,q2}
  Channels = {c1}
  Pids = {p1}
  NoKey = NoKey
  NoPid = NoPid
  NoChannel = NoChannel
  MaxTime = 1
  LongestSleep = 2
  MaxTimeouts = 0
  MaxGone = 1
  MayFail = TRUE
  MayStop = TRUE
PROPERTIES
  NothingBlocks
  AbandonedAttempted
