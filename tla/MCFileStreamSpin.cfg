SPECIFICATION StreamSpec
CONSTANTS
  Files <- TwoExtents
  BlockSize = 4
  BufLens = {1, 2}
  Seekable = FALSE
  SeekBy = {}
  MaxOffset = 11
  Ranges = {}
  Word64 = 16
PROPERTY
  ReadAllEnds
