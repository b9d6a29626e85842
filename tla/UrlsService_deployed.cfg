\* As deployed: creations and removals, attempts that fail halfway, one failure.
SPECIFICATION Spec
CONSTANTS
  r1 = r1
  r2 = r2
  g1 = g1
  g2 = g2
  c1 = c1
  c2 = c2
  Reqs = {r1, r2}
  Ops = {"create", "remove"}
  Generated = {g1, g2}
  Custom = {c1}
  Users = {u}
  NoUser = NoUser
  All = All
  Nothing = Nothing
  Never = Never
  Nobody = Nobody
  RetryAttempts = 2
  FreshCodes = TRUE
  FormatCheck = TRUE
  MaxNow = 0
  MaxFaults = 1
SYMMETRY Symmetry
INVARIANTS
  TypeOK
  StaleIsAccountedFor
  RemovedIsGone
  CreatedIsStored
