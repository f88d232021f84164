SPECIFICATION FairSpec
CONSTANTS
  Readers = {r1, r2}
  BlockNumbers = {0, 3, 17}
  MaxCount = 2
  BlockSize = 4
  ContainerSize = 11
  MediumSize = 11
  MaxCacheSize = 10
  WordSize = 64
  OwnsFile = TRUE
  MaxVersion = 1
INVARIANTS
  TypeOK
  BlocksAreRight
  WithinMedium
  CacheBounded
  ClearCacheIsBarrier
PROPERTIES
  CallsReturn
  ImplementsBlockStore
