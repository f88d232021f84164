SPECIFICATION Spec
CONSTANTS
  Header = 56
  InfoSize = 40
  KVSize = 16
  BlockLen = 200
  Nodes <- Undamaged
  Junk <- NoJunk
INVARIANT
  DecodesStored
