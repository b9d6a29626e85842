\* Clicks, with the timestamps the interface declares: colliding keys, overlapping flushes.
SPECIFICATION Spec
CONSTANTS
  v1 = v1
  v2 = v2
  v3 = v3
  a1 = a1
  x = x
  y = y
  t = t
  Events = {v1, v2, v3}
  KindOf <- MCKindOf
  Codes = {x, y}
  CodeOf <- MCCodeOf
  Stamps = {t}
  StampOf <- MCStampOf
  BatchSize = 2
  MaxRetries = 1
  DeadLetterThreshold = 2
  TimestampIsDate = TRUE
  ShutdownHooks = TRUE
  Calls = {c1, c2}
  NoCall = NoCall
  MaxStops = 1
SYMMETRY CallSymmetry
INVARIANTS
  TypeOK
  HeldExactlyOnce
  CountedOncePerAttempt
  AttemptsBounded
PROPERTIES
  FateIsFinal
