CONSTANTS
  Batches = {b1, b2, b3}
  None = none
  MAX_RESULTS = 2
  PER_MESSAGE = 1
  BATCH_MAX = 2
  PENDING_MAX = 1
  DISPATCH_MAX = 3
  GEN_MAX = 2
SPECIFICATION FairSpec
INVARIANTS TypeOK OneResultPerDispatch
PROPERTIES RingIsFeedbackQueue ResultsAreFlushed
