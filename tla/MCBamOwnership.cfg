CONSTANTS
  Batches = {b1, b2}
  GEN_MAX = 2
SPECIFICATION FairSpec
INVARIANTS FreshIsLetIn ClaimHeld StampTellsStale AckedMeansRetired
PROPERTIES ReleaseAfterRetirement RetirementAcked OwnershipReleased
