SPECIFICATION HSpec
SYMMETRY NodeSymmetry
CONSTANTS
  OIDs = {o1, o2, o3, o4}
  Nodes = {n1, n2}
  BlockNums = {1, 2, 3}
  BlockLens = {0, 1, 3, 4}
  BlockIds = {1}
  Blocks <- MCBlocks
  maxNodes = 2
  maxBlockSize = 3
  Gone = Gone
INVARIANTS
  NodeLevelConsistent
  BlockLevelConsistent
  WorkingSetStays
