\* As deployed: what becomes of a batch that cannot be saved.
SPECIFICATION Spec
CONSTANTS
  v1 = v1
  v2 = v2
  v3 = v3
  a1 = a1
  x = x
  y = y
  t = t
  Events = {v1, v2}
  KindOf <- MCKindOf
  Codes = {x, y}
  CodeOf <- MCCodeOf
  Stamps = {t}
  StampOf <- MCStampOf
  BatchSize = 2
  MaxRetries = 1
  DeadLetterThreshold = 2
  TimestampIsDate = FALSE
  ShutdownHooks = FALSE
  Calls = {c1}
  NoCall = NoCall
  MaxStops = 0
INVARIANTS
  FailedEventsAreKept
