SPECIFICATION FairSpec

CONSTANTS
  Batches      = {b1}
  None         = none
  MAX_RESULTS  = 2
  PER_MESSAGE  = 2
  BATCH_MAX    = 1
  PENDING_MAX  = 1
  DISPATCH_MAX = 1
  GEN_MAX      = 1

PROPERTY EveryBatchAnswered

