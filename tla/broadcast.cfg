SPECIFICATION Spec
CHECK_DEADLOCK FALSE
CONSTANTS
  Keys = {k1}
  Dbs = {d1,d2}
  Workers = 2
  QuickRetries = 1
  MaxRetries = 1
  MaxTime = 2
  MaxSent = 2
  Blocking = {1}
  MaxTroubles = 1
  AllowTies = FALSE
SYMMETRY Symmetry
INVARIANTS
  TypeOK
  DoneIsStored
  EveryDbIsTried
  StragglersDoNotBash
  AnswerIsTrue
  SomeoneWillAnswer
PROPERTIES
  GivesUpLast
  KeepsPromise
