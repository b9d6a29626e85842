\* Three requests and batches of two codes: more requests than a batch serves.
SPECIFICATION Spec
CONSTANTS
  a = a
  alphabet <- MCAlphabet
  mask = 1
  codeLength = 2
  BATCH_SIZE = 2
  RETRY_ATTEMPTS = 2
  Requests = {r1, r2, r3}
  Constructor = Constructor
  NoItem = NoItem
INVARIANTS
  RepeatsCrossBatches
  PopServes
SYMMETRY Symmetry
\* The system stops when every request is answered.
CHECK_DEADLOCK FALSE
