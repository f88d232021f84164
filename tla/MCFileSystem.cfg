SPECIFICATION MCSpec
CONSTANTS
  Volumes <- MCVolumes
  RootTree = 1
  DataLen = 300
  InodeLen = 92
  InodeRecordLen = 98
  BlockLen = 200
  Patterns <- MCPatterns
  MaxResults = {1, 4}
  Paths <- MCPaths
  Inodes = {1, 2, 3, 4, 5, 6}
  MaxBroken = 1
  Files <- AllFiles
  BlockSize = 4
  BufLens = {0, 1, 2, 3, 8}
  Seekable = TRUE
  SeekBy <- MCSeekBy
  MaxOffset = 11
  Ranges <- MCRanges
  Word64 = 16
INVARIANTS
  DescendsIntoEntries
  FindIsExact
  SearchesAgree
  StreamIsContent
  RangeIsContent
PROPERTIES
  WalkEnds
  ReadAllEndsWhenCovered
