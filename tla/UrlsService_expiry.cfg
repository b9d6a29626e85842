\* As deployed: links that expire, lookups that remove them, lists, and what ends stale entries.
SPECIFICATION FairSpec
CONSTANTS
  r1 = r1
  r2 = r2
  g1 = g1
  g2 = g2
  c1 = c1
  c2 = c2
  Reqs = {r1, r2}
  Ops = {"create", "list", "remove"}
  Generated = {g1}
  Custom = {c1}
  Users = {u}
  NoUser = NoUser
  All = All
  Nothing = Nothing
  Never = Never
  Nobody = Nobody
  RetryAttempts = 2
  FreshCodes = TRUE
  FormatCheck = TRUE
  MaxNow = 1
  MaxFaults = 0
INVARIANTS
  StaleIsAccountedFor
PROPERTIES
  NoLiveLinkVanishes
  StaleIsDeleted
