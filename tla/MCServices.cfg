SPECIFICATION MCSpec
CONSTANTS
  Disks <- MCDisks
  VolumeOIDs = {0, 3, 7, 8}
  ScanEnd = 4
  BlockSize = 4
  Word = 256
  Finders = {f1, f2}
  Objects = {0, 1, 3}
  Known <- MCKnown
  Words <- MCWords
  Mapped <- MCMapped
  OIDLimit = 100
  MaxState = 1
  DescBlocks = 5
  TypeNx = 1
  StoredTypes = {1, 129}
  TypeMap = 12
  Tears = {"old", "new", "lost"}
  Contiguous = {TRUE, FALSE}
  MaxXid = 6
  Callers = {c1, c2}
  Offsets = {0, 1, 2}
  Lengths = {1, 2, 4}
  ReadBlock = 2
  Images <- MCImages
  ScanLimit = 12
  CommonOffsets <- MCCommonOffsets
  EntriesStart = 2
  AutoDetect = TRUE
  DefaultOffset = 2
  MaxCacheSize = 4
  JumpDisks <- MCJumpDisks
  MaxCount = 4
  MapsInBlock = 2
  ScanBlocks = 5
  DefaultBlocks = 2
  DefaultBase = 1
  FlagBit = 8
  Partitions = {"disk", "apfs", "efi"}
  Jumpstarts <- MCJumpstarts
  DriverBlock = 2
  DeviceLen = 12
  Unreadable = {11}
  Wide = 128
INVARIANTS
  OpenVolumeIsSound
  RecoversLatest
  LiveScanKeepsUp
  NeverOlderThanBlockZero
  ReadsInPlace
  DetectionFindsContainer
  LocatedInOrder
  
PROPERTIES
  
  ServicesEnd
