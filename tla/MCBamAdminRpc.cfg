CONSTANTS
  PARTS = 3
  MAX_POLLS = 4
  REQ_MAX = 5
  None = none
SPECIFICATION FairSpec
INVARIANTS AnswersOwnRequest PendingIsOwed
PROPERTY CallEnds
CHECK_DEADLOCK FALSE
