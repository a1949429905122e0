SPECIFICATION FairSpec
CONSTANTS
  Keys = {k1, k2}
  None = none
  FirstKey = k1
  STREAM_MAX = 3
  LEADER_MAX = 1
  Rejected = {1}
  STAGE_MAX = 1
  REPLAY_MAX = 2
  RECHECK_DELTA = 1
  SLOTS_PER_EPOCH = 2
  FAULT_MAX = 2
INVARIANTS TypeOK WaitsForSomething ProofIsOurs HealthyIsCurrent LeaderStateTold
PROPERTY Recovers
