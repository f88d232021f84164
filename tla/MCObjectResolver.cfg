SPECIFICATION FairSpec
CONSTANTS
  Callers = {c1, c2}
  OIDs = {1, 2}
  XIDs = {1, 2, 3}
  Images <- MCImages
INVARIANTS
  AddressesAreRecorded
  CacheTransparent
  NewestInLeaf
PROPERTIES
  CallsReturn
