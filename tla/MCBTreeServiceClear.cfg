SPECIFICATION HSpec
CONSTANTS
  Callers = {c1}
  OIDs = {1, 2}
  XIDs = {1}
  BlockNums <- MCBlockNums
  Nodes <- MCNodes
  Blocks <- MCBlocks
  Place <- MCPlace
  OmapBlock = 1
  Unparsable = {}
  BlockLen = 1
  MaxVersion = 1
  maxNodes = 1
  maxBlockSize = 2
INVARIANT
  ClearedIsForgotten
