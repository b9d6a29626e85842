\* Two clicks on a link, a topic that may get them twice, a restart.
SPECIFICATION FairPipeline
CONSTANTS
  x = x
  t = t
  Clicks = {k1, k2}
  Copies = 2
  Deliveries = 3
  ConnectTries = 2
  NoOffset = NoOffset
  MaxFaults = 1
  Events <- MCEvents
  KindOf <- MCKindOf
  Codes = {x}
  CodeOf <- MCCodeOf
  Stamps = {t}
  StampOf <- MCStampOf
  BatchSize = 2
  MaxRetries = 0
  DeadLetterThreshold = 1
  TimestampIsDate = FALSE
  ShutdownHooks = FALSE
  Calls = {c1}
  NoCall = NoCall
  MaxStops = 1
INVARIANTS
  PipelineTypeOK
  RecordedFirst
  UncountedIsExcused
PROPERTIES
  ImplementsLedger
  ClicksArrive
\* The system stops when every click is made, sent and saved.
CHECK_DEADLOCK FALSE
