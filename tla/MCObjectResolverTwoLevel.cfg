SPECIFICATION Spec
CONSTANTS
  Callers = {c1}
  OIDs = {1, 2}
  XIDs = {1, 2, 3}
  Images <- TwoLevelImages
INVARIANT
  NewestMappingFound
