SPECIFICATION MCSpec
CONSTANTS
  Header = 56
  InfoSize = 40
  KVSize = 16
  BlockLen = 200
  Nodes <- AllNodes
  Junk <- MCJunk
  Word32 = 1048576
  Counts <- MCCounts
  LengthsOf <- Edges
  SearchNodes <- MCSearchNodes
  Targets = {0, 2, 4}
  Lists <- MCLists
  AnyLengths = {0, 8, 65535}
  MaxKeyLen = 512
  WordBytes = 2
  ByteBits = 2
  MaxBytes = 5
  BitIndices = {0, 3, 7, 9, 10, 12}
  MaxWord = 4
  ChunkWords = 2
  Payloads <- MCPayloads
  VNodes <- MCVNodes
  NodeSize = 64
  ManyKeys = 8
  TooManyKeys = 12
  FullLeaf = 6
  MaxReported = 5
  Invalid = 255
  ListEnd = 240
  Word16 = 256
INVARIANTS
  SlicesInData
  
  FieldsMatchStruct
  
  DamageIsDetected
  ValidatorIsExact
PROPERTIES
  
  BitmapIsASet
