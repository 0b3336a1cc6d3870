SPECIFICATION Spec
CHECK_DEADLOCK FALSE
CONSTANTS
  Queries = {q1,q2}
  Channels = {c1,c2}
  Pids = {p1,p2}
  NoKey = NoKey
  NoPid = NoPid
  NoChannel = NoChannel
  MaxTime = 1
  LongestSleep = 2
  MaxTimeouts = 1
  MaxGone = 2
  MayFail = FALSE
  MayStop = FALSE
SYMMETRY Symmetry
INVARIANTS
  TypeOK
  ExpiredHitsItsOwn
  ForgottenForGood
  NoOversleep
  ChannelIsFree
