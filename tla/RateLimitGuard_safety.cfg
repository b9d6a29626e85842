\* Two addresses, three handlers on two paths, one fault.
SPECIFICATION Spec
CONSTANTS
  r1 = r1
  r2 = r2
  r3 = r3
  r4 = r4
  Requests = {r1, r2, r3, r4}
  Ips = {i1, i2}
  Handlers <- MCHandlers
  Paths <- MCPaths
  RoutePath <- MCRoutePath
  Limit <- MCLimit
  MaxFaults = 1
SYMMETRY RequestSymmetry
CHECK_DEADLOCK FALSE
INVARIANTS
  TypeOK
  QuotaPerWindow
  RefusedOnlyWhenSpent
  ExpireHitsItsOwnWindow
  CountersEnd
