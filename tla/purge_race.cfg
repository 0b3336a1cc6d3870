SPECIFICATION Spec
CHECK_DEADLOCK FALSE
CONSTANTS
  n1 = n1
  n2 = n2
  e1 = e1
  Nodes = {n1}
  Envs = {e1}
  NoEnv = NoEnv
  Paths = {p1}
  Arriving <- CatalogsAndDeactivations
  Workers = {w1,w2}
  NodeTtl = 0
  PurgeTtl = 0
  ReportTtl = 0
  Requests <- JustPurge
  BatchLimits = {1}
  MaxTime = 3
  MaxBegun = 4
  MaxCleans = 1
PROPERTIES
  PurgesOnlyInactive
