CONSTANTS
  Names = {n1, n2, n3}
  b1 = b1
  b2 = b2
  b3 = b3
  t1 = t1
  t2 = t2
  Batches = {b1, b2, b3}
  Txns = {t1, t2}
  Members <- MCMembers
  Target <- MCTarget
  Hash <- MCHash
  None = none
  Other = other
  WORK_MAX = 2
  LIFETIME = 1
  RESOLV_LIFETIME = 1
  SLOT_MAX = 3
  GEN_MAX = 2
SPECIFICATION Spec
SYMMETRY NameSymmetry
INVARIANTS Accounted QueueBounded RecordsMatchPool OneRecordPerTransaction
PROPERTY NeverForClosedSlot
