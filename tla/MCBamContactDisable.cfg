CONSTANTS
  Contacts = {c1}
  Own = own
  Unset = unset
  None = none
  LINK_MAX = 2
SPECIFICATION FairSpec
PROPERTY AdvertRestored
