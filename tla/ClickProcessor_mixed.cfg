\* A click and an analytics event: both buffers, both halves of the dead letter queue.
SPECIFICATION FairSpec
CONSTANTS
  v1 = v1
  v2 = v2
  v3 = v3
  a1 = a1
  x = x
  y = y
  t = t
  Events = {v1, a1}
  KindOf <- MCKindOf
  Codes = {x, y}
  CodeOf <- MCCodeOf
  Stamps = {t}
  StampOf <- MCStampOf
  BatchSize = 2
  MaxRetries = 1
  DeadLetterThreshold = 2
  TimestampIsDate = TRUE
  ShutdownHooks = FALSE
  Calls = {c1, c2}
  NoCall = NoCall
  MaxStops = 1
INVARIANTS
  HeldExactlyOnce
PROPERTIES
  PendingEnds
  ConsumerResumes
