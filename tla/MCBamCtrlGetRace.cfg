SPECIFICATION GetSpec
CONSTANTS
  Clis = {c1, c2}
  u1 = u1
  u2 = u2
  s1 = s1
  Urls <- MCUrls
  Snis <- MCSnis
  Requests <- MCRequests
  Blank = blank
  BadUrl = bad
  None = none
INVARIANTS
  ConsistentSnapshot
CHECK_DEADLOCK FALSE
