SPECIFICATION Spec
CONSTANTS
  PubkeyWords = {w1, w2}
  CommissionWord = wc
  Pubkeys = {k1, k2}
  Commissions = {5, 7}
  Zero = zero
  BadPubkey = bad
  VERSION_MAX = 3
  ATTEMPT_MAX = 2
INVARIANTS
  FreshWhenVersionMatches
  BuilderKnown
PROPERTIES
  AdoptsPublishedTuple
