SPECIFICATION Spec
CHECK_DEADLOCK FALSE
CONSTANTS
  n1 = n1
  n2 = n2
  e1 = e1
  Nodes = {n1,n2}
  Envs = {e1}
  NoEnv = NoEnv
  Paths = {p1}
  Arriving <- ForTwoNodes
  Workers = {w1,w2}
  NodeTtl = 0
  PurgeTtl = 0
  ReportTtl = 0
  Requests <- Everything
  BatchLimits = {1}
  MaxTime = 2
  MaxBegun = 3
  MaxCleans = 1
SYMMETRY Symmetry
INVARIANTS
  TypeOK
  LatestIsNewest
  NoDataWithoutNode
  CleaningIsThorough
PROPERTIES
  NeverGoesBack
  RevivedByNewer
