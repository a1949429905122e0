CONSTANTS
  Contacts = {c1, c2}
  Own = own
  Unset = unset
  None = none
  LINK_MAX = 3
SPECIFICATION FairSpec
INVARIANTS AppliedIsTrue DefaultIsOwn
PROPERTIES TakeoverIsAdvertised ReleaseIsRestored RestoredUnlessForgotten
