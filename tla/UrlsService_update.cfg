\* UrlsService.update, by a caller that does not check the format of the old code.
SPECIFICATION Spec
CONSTANTS
  r1 = r1
  r2 = r2
  g1 = g1
  g2 = g2
  c1 = c1
  c2 = c2
  Reqs = {r1, r2}
  Ops = {"create", "list", "update"}
  Generated = {g1}
  Custom = {c1}
  Users = {u}
  NoUser = NoUser
  All = All
  Nothing = Nothing
  Never = Never
  Nobody = Nobody
  RetryAttempts = 2
  FreshCodes = TRUE
  FormatCheck = FALSE
  MaxNow = 0
  MaxFaults = 0
SYMMETRY Symmetry
INVARIANTS
  StaleIsAccountedFor
