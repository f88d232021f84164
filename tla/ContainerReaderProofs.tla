------------------------ MODULE ContainerReaderProofs ------------------------
(***************************************************************************)
(* Proofs about ContainerReader for every number of goroutines, block      *)
(* size, container size, cache limit and word size.                        *)
(***************************************************************************)
EXTENDS ContainerReader, FiniteSetTheorems, TLAPS

USE SizesAssumption, CallersAssumption

\* A block's offset and a loop's block number are natural numbers, and the
\* product that computes an offset is taken as it is while it fits the word.
LEMMA OffsetFacts ==
  ASSUME NEW b \in Nat
  PROVE  /\ Offset(b) \in Nat
         /\ b * BlockSize < WordSize => Offset(b) = b * BlockSize
<1>1. b * BlockSize \in Nat
  OBVIOUS
<1>2. \A a \in Nat : a % WordSize \in Nat /\ (a < WordSize => a % WordSize = a)
  OBVIOUS
<1>. QED
  BY <1>1, <1>2 DEF Offset

LEMMA BlockNumIsNat ==
  ASSUME TypeOK, NEW r \in Readers
  PROVE  BlockNum(r) \in Nat
<1>1. req[r].start + Len(got[r]) \in Nat
  BY DEF TypeOK, Request
<1>. QED
  BY <1>1 DEF BlockNum

\* What cacheBlock makes of a well-formed cache.
LEMMA cacheBlockFacts ==
  ASSUME TypeOK, NEW b \in Nat, NEW d \in Data, cacheBlock(b, d)
  PROVE  /\ blockCache' \in [DOMAIN blockCache' -> Data]
         /\ DOMAIN blockCache' \subseteq Nat
         /\ IsFiniteSet(DOMAIN blockCache')
         /\ currentCacheSize' \in Nat
         /\ b \in DOMAIN blockCache'
         /\ \A x \in DOMAIN blockCache' :
              \/ x = b /\ blockCache'[x] = d
              \/ x \in DOMAIN blockCache /\ blockCache'[x] = blockCache[x]
<1> DEFINE full == currentCacheSize + BlockSize > MaxCacheSize
           kept == IF full THEN [x \in {} |-> NoData] ELSE blockCache
<1>1. kept \in [DOMAIN kept -> Data] /\ DOMAIN kept \subseteq Nat
  BY DEF TypeOK
<1>2. IsFiniteSet(DOMAIN kept)
  <2>1. CASE full
    BY <2>1, FS_EmptySet
  <2>2. CASE ~full
    BY <2>2 DEF TypeOK
  <2>. QED BY <2>1, <2>2
<1>3. blockCache' = [x \in DOMAIN kept \cup {b} |-> IF x = b THEN d ELSE kept[x]]
  BY DEF cacheBlock
<1>4. DOMAIN blockCache' = DOMAIN kept \cup {b}
  BY <1>3
<1>5. IsFiniteSet(DOMAIN blockCache')
  BY <1>2, <1>4, FS_AddElement
<1>6. blockCache' \in [DOMAIN blockCache' -> Data] /\ DOMAIN blockCache' \subseteq Nat
  BY <1>1, <1>3, <1>4
<1>7. currentCacheSize' \in Nat
  BY DEF cacheBlock, TypeOK
<1>8. \A x \in DOMAIN kept : x \in DOMAIN blockCache /\ kept[x] = blockCache[x]
  OBVIOUS
<1>9. \A x \in DOMAIN blockCache' :
        \/ x = b /\ blockCache'[x] = d
        \/ x \in DOMAIN blockCache /\ blockCache'[x] = blockCache[x]
  BY <1>3, <1>4, <1>8
<1>. QED
  BY <1>4, <1>5, <1>6, <1>7, <1>9

-----------------------------------------------------------------------------
\* The variables keep their types in every behaviour of the reader.
THEOREM TypeCorrect == Spec => []TypeOK
<1>1. Init => TypeOK
  <2> SUFFICES ASSUME Init PROVE TypeOK
    OBVIOUS
  <2>1. DOMAIN blockCache = {} /\ blockCache \in [DOMAIN blockCache -> Data]
    BY DEF Init
  <2>2. IsFiniteSet(DOMAIN blockCache)
    BY <2>1, FS_EmptySet
  <2>3. <<>> \in Seq(Data)
    OBVIOUS
  <2>4. NoData \in Data /\ [start |-> 0, count |-> 0] \in Request
    BY DEF Data, Request, NoData
  <2>5. /\ currentCacheSize \in Nat
        /\ closed \in BOOLEAN
        /\ version \in 0..MaxVersion
        /\ barrier \in 0..version
    <3>1. currentCacheSize = 0 /\ closed = FALSE /\ version = 0 /\ barrier = 0
      BY Zenon DEF Init
    <3>2. closed \in BOOLEAN
      BY <3>1, Zenon
    <3>3. currentCacheSize \in Nat /\ version \in 0..MaxVersion /\ barrier \in 0..version
      BY <3>1
    <3>. QED
      BY <3>2, <3>3
  <2>6. /\ pc \in [Readers -> {"idle", "loop", "fetch", "insert"}]
        /\ outcome \in [Readers -> {"none", "ok", "err"}]
    BY DEF Init
  <2>7. /\ req \in [Readers -> Request]
        /\ got \in [Readers -> Seq(Data)]
        /\ blockData \in [Readers -> Data]
    BY <2>3, <2>4 DEF Init
  <2>. QED
    BY <2>1, <2>2, <2>5, <2>6, <2>7 DEF TypeOK
<1>2. TypeOK /\ [Next]_vars => TypeOK'
  <2> SUFFICES ASSUME TypeOK, [Next]_vars
               PROVE  TypeOK'
    OBVIOUS
  <2>1. ASSUME NEW r \in Readers, NEW s \in BlockNumbers, NEW n \in 0..MaxCount,
               ReadBlocks(r, s, n)
        PROVE  TypeOK'
    <3>1. [start |-> s, count |-> n] \in Request
      BY DEF Request
    <3>2. <<>> \in Seq(Data)
      OBVIOUS
    <3>. QED
      BY <2>1, <3>1, <3>2 DEF ReadBlocks, TypeOK, cacheVars, mediumVars
  <2>2. ASSUME NEW r \in Readers, ReturnOk(r)
        PROVE  TypeOK'
    BY <2>2 DEF ReturnOk, TypeOK, cacheVars, mediumVars
  <2>3. ASSUME NEW r \in Readers, Hit(r)
        PROVE  TypeOK'
    <3>1. Append(got[r], blockCache[BlockNum(r)]) \in Seq(Data)
      BY <2>3 DEF Hit, TypeOK
    <3>. QED
      BY <2>3, <3>1 DEF Hit, TypeOK, cacheVars, mediumVars
  <2>4. ASSUME NEW r \in Readers, Miss(r)
        PROVE  TypeOK'
    BY <2>4 DEF Miss, TypeOK, cacheVars, mediumVars
  <2>5. ASSUME NEW r \in Readers, Fail(r)
        PROVE  TypeOK'
    BY <2>5 DEF Fail, TypeOK, cacheVars, mediumVars
  <2>6. ASSUME NEW r \in Readers, Fetch(r)
        PROVE  TypeOK'
    <3>1. Offset(BlockNum(r)) \in Nat
      BY BlockNumIsNat, OffsetFacts
    <3>2. [off |-> Offset(BlockNum(r)), ver |-> version] \in Data
      BY <3>1 DEF TypeOK, Data
    <3>. QED
      BY <2>6, <3>2 DEF Fetch, TypeOK, cacheVars, mediumVars
  <2>7. ASSUME NEW r \in Readers, Insert(r)
        PROVE  TypeOK'
    <3>1. blockData[r] \in Data /\ NoData \in Data
      BY DEF TypeOK, Data, NoData
    <3>2. cacheBlock(BlockNum(r), blockData[r])
      BY <2>7 DEF Insert
    <3>3. /\ blockCache' \in [DOMAIN blockCache' -> Data]
          /\ DOMAIN blockCache' \subseteq Nat
          /\ IsFiniteSet(DOMAIN blockCache')
          /\ currentCacheSize' \in Nat
      BY <3>1, <3>2, BlockNumIsNat, cacheBlockFacts
    <3>4. Append(got[r], blockData[r]) \in Seq(Data)
      BY <3>1 DEF TypeOK
    <3>5. /\ got' \in [Readers -> Seq(Data)]
          /\ blockData' \in [Readers -> Data]
          /\ pc' \in [Readers -> {"idle", "loop", "fetch", "insert"}]
          /\ UNCHANGED <<req, outcome, closed, version, barrier>>
      BY <2>7, <3>1, <3>4 DEF Insert, TypeOK, mediumVars
    <3>. QED
      BY <3>3, <3>5 DEF TypeOK
  <2>8. ASSUME ClearCache
        PROVE  TypeOK'
    <3>1. barrier' \in 0..version
      BY <2>8 DEF ClearCache, TypeOK
    <3>2. /\ blockCache' \in [DOMAIN blockCache' -> Data]
          /\ DOMAIN blockCache' \subseteq Nat
          /\ IsFiniteSet(DOMAIN blockCache')
      BY <2>8, FS_EmptySet DEF ClearCache
    <3>. QED
      BY <2>8, <3>1, <3>2 DEF ClearCache, TypeOK, callVars
  <2>9. ASSUME Close
        PROVE  TypeOK'
    BY <2>9 DEF Close, TypeOK, cacheVars, callVars
  <2>10. ASSUME MediumWrite
         PROVE  TypeOK'
    BY <2>10 DEF MediumWrite, TypeOK, cacheVars, callVars
  <2>11. ASSUME UNCHANGED vars
         PROVE  TypeOK'
    BY <2>11 DEF vars, TypeOK
  <2>. QED
    BY <2>1, <2>2, <2>3, <2>4, <2>5, <2>6, <2>7, <2>8, <2>9, <2>10, <2>11
    DEF Next, Step, Refuse, FetchFail
<1>. QED
  BY <1>1, <1>2, PTL DEF Spec

-----------------------------------------------------------------------------
\* The inductive invariant: the three promises about blocks need to know what
\* is in the buffer of a reader that holds no lock, which InFlight says.
BlockInv == BlocksAreRight /\ WithinMedium /\ ClearCacheIsBarrier /\ InFlight

Placed(r) == \A i \in 1..Len(got[r]) :
               RightPlace((req[r].start + (i - 1)) % WordSize, got[r][i])
Good(d) == d.off < ContainerSize /\ d.off + BlockSize <= MediumSize
Fresh(d) == d.ver \in barrier..version

\* BlockInv said block by block: the cache's part, and one reader's part.
CachePart == \A b \in DOMAIN blockCache :
               /\ RightPlace(b, blockCache[b])
               /\ Good(blockCache[b])
               /\ Fresh(blockCache[b])
ReaderPart(r) ==
  /\ Placed(r)
  /\ \A i \in 1..Len(got[r]) : Good(got[r][i])
  /\ pc[r] # "idle" => /\ \A i \in 1..Len(got[r]) : Fresh(got[r][i])
                       /\ Len(got[r]) <= req[r].count
                       /\ outcome[r] = "none"
  /\ pc[r] \in {"fetch", "insert"} => Len(got[r]) < req[r].count
  /\ pc[r] = "insert" => /\ blockData[r].off = Offset(BlockNum(r))
                         /\ Good(blockData[r])
                         /\ Fresh(blockData[r])

LEMMA BlockInvParts == BlockInv <=> CachePart /\ \A r \in Readers : ReaderPart(r)
BY DEF BlockInv, BlocksAreRight, WithinMedium, ClearCacheIsBarrier, InFlight,
       CachePart, ReaderPart, Placed, Good, Fresh

\* Appending the block the loop is at keeps a reader's part.
LEMMA AppendBlock ==
  ASSUME TypeOK, NEW r \in Readers, ReaderPart(r), NEW d \in Data,
         pc[r] # "idle", Len(got[r]) < req[r].count,
         RightPlace(BlockNum(r), d), Good(d), Fresh(d),
         got'[r] = Append(got[r], d), pc'[r] = "loop",
         UNCHANGED <<req, outcome, barrier, version>>
  PROVE  ReaderPart(r)'
<1>1. got[r] \in Seq(Data) /\ Len(got[r]) \in Nat /\ req[r].count \in Nat
  BY DEF TypeOK, Request
<1>2. /\ Len(got'[r]) = Len(got[r]) + 1
      /\ \A i \in 1..Len(got[r]) : got'[r][i] = got[r][i]
      /\ got'[r][Len(got[r]) + 1] = d
  BY <1>1
<1>3. \A i \in 1..Len(got'[r]) : i \in 1..Len(got[r]) \/ i = Len(got[r]) + 1
  BY <1>1, <1>2
<1>4. (req[r].start + ((Len(got[r]) + 1) - 1)) % WordSize = BlockNum(r)
  BY <1>1 DEF BlockNum, TypeOK, Request
<1>5. Placed(r)'
  BY <1>2, <1>3, <1>4 DEF ReaderPart, Placed, RightPlace
<1>6. \A i \in 1..Len(got'[r]) : Good(got'[r][i]) /\ Fresh(got'[r][i])
  BY <1>2, <1>3 DEF ReaderPart, Good, Fresh
<1>7. Len(got'[r]) <= req[r].count
  BY <1>1, <1>2
<1>. QED
  BY <1>5, <1>6, <1>7 DEF ReaderPart, Good, Fresh

\* A reader whose call state does not change keeps its part, whatever happens
\* to the cache, as long as no barrier overtakes it.
LEMMA OtherReader ==
  ASSUME TypeOK, NEW r \in Readers, ReaderPart(r),
         pc'[r] = pc[r], req'[r] = req[r], got'[r] = got[r],
         blockData'[r] = blockData[r], outcome'[r] = outcome[r],
         version' \in Nat, version <= version',
         barrier' = barrier \/ pc[r] = "idle"
  PROVE  ReaderPart(r)'
<1>1. \A d \in Data : Fresh(d) /\ barrier' = barrier => Fresh(d)'
  BY DEF Fresh, TypeOK, Data
<1>2. \A i \in 1..Len(got[r]) : got[r][i] \in Data
  BY DEF TypeOK
<1>3. blockData[r] \in Data
  BY DEF TypeOK
<1>4. BlockNum(r)' = BlockNum(r)
  BY DEF BlockNum
<1>5. Placed(r)' /\ \A i \in 1..Len(got'[r]) : Good(got'[r][i])
  BY DEF ReaderPart, Placed, RightPlace, Good
<1>. QED
  BY <1>1, <1>2, <1>3, <1>4, <1>5 DEF ReaderPart, Good, Offset

LEMMA BlockInvInit == Init => BlockInv
<1> SUFFICES ASSUME Init PROVE BlockInv
  OBVIOUS
<1>1. DOMAIN blockCache = {}
  BY DEF Init
<1>2. \A r \in Readers : pc[r] = "idle" /\ got[r] = <<>> /\ Len(got[r]) = 0
  BY DEF Init
<1>. QED
  BY <1>1, <1>2, BlockInvParts DEF CachePart, ReaderPart, Placed

\* The cache's part survives every step that leaves the cache alone.
LEMMA CacheUntouched ==
  ASSUME TypeOK, CachePart, UNCHANGED <<blockCache, barrier>>,
         version' \in Nat, version <= version'
  PROVE  CachePart'
<1>1. \A b \in DOMAIN blockCache : Fresh(blockCache[b])'
  BY DEF CachePart, Fresh, TypeOK, Data
<1>. QED
  BY <1>1 DEF CachePart, RightPlace, Good

LEMMA BlockInvStep ==
  ASSUME TypeOK, BlockInv, [Next]_vars
  PROVE  BlockInv'
<1>1. CachePart /\ \A r \in Readers : ReaderPart(r)
  BY BlockInvParts
<1>2. version \in Nat /\ barrier \in Nat /\ version <= version
  BY DEF TypeOK
<1> SUFFICES CachePart' /\ \A q \in Readers : ReaderPart(q)'
  BY DEF BlockInv, BlocksAreRight, WithinMedium, ClearCacheIsBarrier, InFlight,
         CachePart, ReaderPart, Placed, Good, Fresh
<1>3. ASSUME NEW r \in Readers, NEW s \in BlockNumbers, NEW n \in 0..MaxCount,
             ReadBlocks(r, s, n)
      PROVE  CachePart' /\ \A q \in Readers : ReaderPart(q)'
  <2>1. CachePart'
    BY <1>1, <1>2, <1>3, CacheUntouched DEF ReadBlocks, cacheVars, mediumVars
  <2>2. ReaderPart(r)'
    <3>1. got'[r] = <<>> /\ pc'[r] = "loop" /\ outcome'[r] = "none" /\ req'[r].count = n
      BY <1>3 DEF ReadBlocks, TypeOK
    <3>2. Len(got'[r]) = 0
      BY <3>1
    <3>. QED
      BY <3>1, <3>2 DEF ReaderPart, Placed
  <2>3. ASSUME NEW q \in Readers, q # r
        PROVE  ReaderPart(q)'
    BY <1>1, <1>2, <1>3, <2>3, OtherReader DEF ReadBlocks, TypeOK, mediumVars
  <2>. QED BY <2>1, <2>2, <2>3
<1>4. ASSUME NEW r \in Readers, ReturnOk(r) \/ Fail(r)
      PROVE  CachePart' /\ \A q \in Readers : ReaderPart(q)'
  <2>1. CachePart'
    BY <1>1, <1>2, <1>4, CacheUntouched DEF ReturnOk, Fail, cacheVars, mediumVars
  <2>2. ReaderPart(r)'
    <3>1. pc'[r] = "idle" /\ (got'[r] = got[r] \/ got'[r] = <<>>) /\ req' = req
      BY <1>4 DEF ReturnOk, Fail, TypeOK
    <3>2. CASE got'[r] = <<>>
      <4>1. Len(got'[r]) = 0
        BY <3>2
      <4>. QED
        BY <3>1, <4>1 DEF ReaderPart, Placed
    <3>3. CASE got'[r] = got[r]
      BY <1>1, <3>1, <3>3 DEF ReaderPart, Placed, RightPlace, Good
    <3>. QED BY <3>1, <3>2, <3>3
  <2>3. ASSUME NEW q \in Readers, q # r
        PROVE  ReaderPart(q)'
    BY <1>1, <1>2, <1>4, <2>3, OtherReader DEF ReturnOk, Fail, TypeOK, mediumVars
  <2>. QED BY <2>1, <2>2, <2>3
<1>5. ASSUME NEW r \in Readers, Hit(r)
      PROVE  CachePart' /\ \A q \in Readers : ReaderPart(q)'
  <2>1. CachePart'
    BY <1>1, <1>2, <1>5, CacheUntouched DEF Hit, cacheVars, mediumVars
  <2>2. ReaderPart(r)'
    <3> DEFINE d == blockCache[BlockNum(r)]
    <3>1. d \in Data /\ RightPlace(BlockNum(r), d) /\ Good(d) /\ Fresh(d)
      BY <1>1, <1>5 DEF Hit, CachePart, TypeOK
    <3>2. /\ pc[r] # "idle" /\ Len(got[r]) < req[r].count
          /\ got'[r] = Append(got[r], d) /\ pc'[r] = "loop"
          /\ UNCHANGED <<req, outcome, barrier, version>>
      BY <1>5 DEF Hit, TypeOK, mediumVars
    <3> HIDE DEF d
    <3>. QED
      BY <1>1, <3>1, <3>2, AppendBlock
  <2>3. ASSUME NEW q \in Readers, q # r
        PROVE  ReaderPart(q)'
    BY <1>1, <1>2, <1>5, <2>3, OtherReader DEF Hit, TypeOK, mediumVars
  <2>. QED BY <2>1, <2>2, <2>3
<1>6. ASSUME NEW r \in Readers, Miss(r)
      PROVE  CachePart' /\ \A q \in Readers : ReaderPart(q)'
  <2>1. CachePart'
    BY <1>1, <1>2, <1>6, CacheUntouched DEF Miss, cacheVars, mediumVars
  <2>2. ReaderPart(r)'
    BY <1>1, <1>6 DEF Miss, ReaderPart, Placed, RightPlace, Good, Fresh, TypeOK, mediumVars
  <2>3. ASSUME NEW q \in Readers, q # r
        PROVE  ReaderPart(q)'
    BY <1>1, <1>2, <1>6, <2>3, OtherReader DEF Miss, TypeOK, mediumVars
  <2>. QED BY <2>1, <2>2, <2>3
<1>7. ASSUME NEW r \in Readers, Fetch(r)
      PROVE  CachePart' /\ \A q \in Readers : ReaderPart(q)'
  <2>1. CachePart'
    BY <1>1, <1>2, <1>7, CacheUntouched DEF Fetch, cacheVars, mediumVars
  <2>2. ReaderPart(r)'
    <3>1. /\ blockData'[r] = [off |-> Offset(BlockNum(r)), ver |-> version]
          /\ pc[r] = "fetch" /\ pc'[r] = "insert"
          /\ UNCHANGED <<req, got, outcome, barrier, version>>
      BY <1>7 DEF Fetch, TypeOK, mediumVars
    <3>2. (Offset(BlockNum(r)))' = Offset(BlockNum(r))
      BY <3>1 DEF Offset, BlockNum
    <3>3. Good(blockData'[r]) /\ Fresh(blockData'[r])
      BY <1>7, <3>1 DEF Fetch, Good, Fresh, TypeOK
    <3>4. Fresh(blockData[r])'
      BY <3>1, <3>3 DEF Fresh
    <3>. QED
      BY <1>1, <3>1, <3>2, <3>3, <3>4 DEF ReaderPart, Placed, RightPlace, Good, Fresh
  <2>3. ASSUME NEW q \in Readers, q # r
        PROVE  ReaderPart(q)'
    BY <1>1, <1>2, <1>7, <2>3, OtherReader DEF Fetch, TypeOK, mediumVars
  <2>. QED BY <2>1, <2>2, <2>3
<1>8. ASSUME NEW r \in Readers, Insert(r)
      PROVE  CachePart' /\ \A q \in Readers : ReaderPart(q)'
  <2> DEFINE b == BlockNum(r)
             d == blockData[r]
  <2>1. b \in Nat /\ d \in Data
    BY BlockNumIsNat DEF TypeOK
  <2>2. RightPlace(b, d) /\ Good(d) /\ Fresh(d)
    BY <1>1, <1>8, <2>1, OffsetFacts DEF Insert, ReaderPart, RightPlace
  <2>3. cacheBlock(b, d) /\ UNCHANGED <<req, outcome, barrier, version>>
    BY <1>8 DEF Insert, mediumVars
  <2>4. /\ pc[r] # "idle" /\ Len(got[r]) < req[r].count
        /\ got'[r] = Append(got[r], d) /\ pc'[r] = "loop"
    BY <1>1, <1>8 DEF Insert, ReaderPart, TypeOK
  <2> HIDE DEF b, d
  <2>5. CachePart'
    <3>1. \A x \in DOMAIN blockCache' :
            \/ x = b /\ blockCache'[x] = d
            \/ x \in DOMAIN blockCache /\ blockCache'[x] = blockCache[x]
      BY <2>1, <2>3, cacheBlockFacts
    <3>2. \A x \in DOMAIN blockCache' :
            RightPlace(x, blockCache'[x]) /\ Good(blockCache'[x]) /\ Fresh(blockCache'[x])
      BY <1>1, <2>2, <3>1 DEF CachePart
    <3>. QED
      BY <2>3, <3>2 DEF CachePart, RightPlace, Good, Fresh
  <2>6. ReaderPart(r)'
    BY <1>1, <2>1, <2>2, <2>3, <2>4, AppendBlock DEF b
  <2>7. ASSUME NEW q \in Readers, q # r
        PROVE  ReaderPart(q)'
    BY <1>1, <1>2, <1>8, <2>7, OtherReader DEF Insert, TypeOK, mediumVars
  <2>. QED BY <2>5, <2>6, <2>7
<1>9. ASSUME ClearCache
      PROVE  CachePart' /\ \A q \in Readers : ReaderPart(q)'
  <2>1. CachePart'
    BY <1>9 DEF ClearCache, CachePart
  <2>2. ASSUME NEW q \in Readers
        PROVE  ReaderPart(q)'
    BY <1>1, <1>2, <1>9, OtherReader DEF ClearCache, Quiet, callVars
  <2>. QED BY <2>1, <2>2
<1>10. ASSUME Close \/ MediumWrite \/ UNCHANGED vars
       PROVE  CachePart' /\ \A q \in Readers : ReaderPart(q)'
  <2>1. /\ UNCHANGED <<blockCache, barrier, pc, req, got, blockData, outcome>>
        /\ version' \in Nat /\ version <= version'
    BY <1>2, <1>10 DEF Close, MediumWrite, vars, cacheVars, callVars
  <2>2. CachePart'
    BY <1>1, <2>1, CacheUntouched
  <2>3. ASSUME NEW q \in Readers
        PROVE  ReaderPart(q)'
    BY <1>1, <2>1, OtherReader
  <2>. QED BY <2>2, <2>3
<1>. QED
  BY <1>3, <1>4, <1>5, <1>6, <1>7, <1>8, <1>9, <1>10
  DEF Next, Step, Refuse, FetchFail

\* A block number whose offset fits the word is answered with its own block,
\* through the cache or not, for every interleaving of the readers.
THEOREM RightBlocks == Spec => []BlocksAreRight
<1>1. Init => BlockInv
  BY BlockInvInit
<1>2. TypeOK /\ BlockInv /\ [Next]_vars => BlockInv'
  BY BlockInvStep
<1>3. BlockInv => BlocksAreRight
  BY DEF BlockInv
<1>. QED
  BY <1>1, <1>2, <1>3, TypeCorrect, PTL DEF Spec

\* Whatever block number is asked for, wrapping ones included, only whole
\* blocks that start inside the container are cached or returned.
THEOREM InsideMedium == Spec => []WithinMedium
<1>1. Init => BlockInv
  BY BlockInvInit
<1>2. TypeOK /\ BlockInv /\ [Next]_vars => BlockInv'
  BY BlockInvStep
<1>3. BlockInv => WithinMedium
  BY DEF BlockInv
<1>. QED
  BY <1>1, <1>2, <1>3, TypeCorrect, PTL DEF Spec

\* A ClearCache that finds no read in flight is a barrier for staleness.
THEOREM BarrierHolds == Spec => []ClearCacheIsBarrier
<1>1. Init => BlockInv
  BY BlockInvInit
<1>2. TypeOK /\ BlockInv /\ [Next]_vars => BlockInv'
  BY BlockInvStep
<1>3. BlockInv => ClearCacheIsBarrier
  BY DEF BlockInv
<1>. QED
  BY <1>1, <1>2, <1>3, TypeCorrect, PTL DEF Spec

-----------------------------------------------------------------------------
LEMMA CacheBoundedStep ==
  ASSUME TypeOK, CacheBounded, [Next]_vars
  PROVE  CacheBounded'
<1>1. ASSUME UNCHANGED cacheVars
      PROVE  CacheBounded'
  BY <1>1 DEF CacheBounded, cacheVars
<1>2. ASSUME ClearCache
      PROVE  CacheBounded'
  <2>1. DOMAIN blockCache' = {} /\ currentCacheSize' = 0
    BY <1>2 DEF ClearCache
  <2>2. Cardinality(DOMAIN blockCache') = 0
    BY <2>1, FS_EmptySet
  <2>. QED
    BY <2>1, <2>2 DEF CacheBounded
<1>3. ASSUME NEW r \in Readers, Insert(r)
      PROVE  CacheBounded'
  <2> DEFINE b == BlockNum(r)
             full == currentCacheSize + BlockSize > MaxCacheSize
  <2>1. cacheBlock(b, blockData[r])
    BY <1>3 DEF Insert
  <2>2. currentCacheSize \in Nat /\ IsFiniteSet(DOMAIN blockCache)
    BY DEF TypeOK
  <2>3. CASE full
    <3>1. DOMAIN blockCache' = {b} /\ currentCacheSize' = BlockSize
      BY <2>1, <2>3 DEF cacheBlock
    <3>2. Cardinality(DOMAIN blockCache') = 1
      BY <3>1, FS_Singleton
    <3>. QED
      BY <3>1, <3>2 DEF CacheBounded
  <2>4. CASE ~full
    <3>1. DOMAIN blockCache' = DOMAIN blockCache \cup {b}
          /\ currentCacheSize' = currentCacheSize + BlockSize
      BY <2>1, <2>4 DEF cacheBlock
    <3> DEFINE n == Cardinality(DOMAIN blockCache)
               m == Cardinality(DOMAIN blockCache')
    <3>2. n \in Nat /\ (m = n \/ m = n + 1)
      BY <2>2, <3>1, FS_AddElement, FS_CardinalityType
    <3>3. BlockSize * n <= currentCacheSize
      BY DEF CacheBounded
    <3> HIDE DEF n, m
    <3>4. BlockSize * n \in Nat /\ BlockSize * (n + 1) = BlockSize * n + BlockSize
      BY <3>2
    <3>5. BlockSize * m <= currentCacheSize + BlockSize
      BY <2>2, <3>2, <3>3, <3>4
    <3>6. currentCacheSize' <= MaxCacheSize
      BY <2>2, <2>4, <3>1
    <3>. QED
      BY <3>1, <3>5, <3>6 DEF CacheBounded, m
  <2>. QED BY <2>3, <2>4
<1>. QED
  BY <1>1, <1>2, <1>3
  DEF Next, Step, ReadBlocks, ReturnOk, Fail, Hit, Miss, Refuse, Fetch, FetchFail,
      Close, MediumWrite, vars, cacheVars

\* currentCacheSize is never less than what the map holds, and exceeds
\* maxCacheSize only while the cache holds the one block that alone does.
THEOREM CacheStaysBounded == Spec => []CacheBounded
<1>1. Init => CacheBounded
  <2> SUFFICES ASSUME Init PROVE CacheBounded
    OBVIOUS
  <2>1. DOMAIN blockCache = {} /\ currentCacheSize = 0
    BY DEF Init
  <2>2. Cardinality(DOMAIN blockCache) = 0
    BY <2>1, FS_EmptySet
  <2>. QED
    BY <2>1, <2>2 DEF CacheBounded
<1>2. TypeOK /\ CacheBounded /\ [Next]_vars => CacheBounded'
  BY CacheBoundedStep
<1>. QED
  BY <1>1, <1>2, TypeCorrect, PTL DEF Spec

-----------------------------------------------------------------------------
\* What ReturnOk hands over is a proper answer.
LEMMA AnswerIsProper ==
  ASSUME TypeOK, BlockInv, NEW r \in Readers, ReturnOk(r)
  PROVE  Abstract!Proper(req[r], got[r])
<1>1. /\ got[r] \in Seq(Data)
      /\ Len(got[r]) = req[r].count
      /\ req[r].start \in Nat
  BY DEF ReturnOk, TypeOK, Request
<1>2. ASSUME NEW i \in 1..Len(got[r])
      PROVE  /\ (req[r].start + (i - 1)) * BlockSize < WordSize =>
                  got[r][i].off = (req[r].start + (i - 1)) * BlockSize
             /\ got[r][i].off < ContainerSize
             /\ barrier <= got[r][i].ver
             /\ got[r][i].ver <= version
  <2> DEFINE b == req[r].start + (i - 1)
  <2>1. b \in Nat
    BY <1>1
  <2>2. RightPlace(b % WordSize, got[r][i])
    BY DEF BlockInv, BlocksAreRight, b
  <2> HIDE DEF b
  <2>3. ASSUME b * BlockSize < WordSize
        PROVE  got[r][i].off = b * BlockSize
    <3>1. b <= b * BlockSize /\ b * BlockSize \in Nat
      BY <2>1
    <3>2. b < WordSize
      BY <2>1, <2>3, <3>1
    <3>3. b % WordSize = b
      BY <2>1, <3>2
    <3>. QED
      BY <2>2, <2>3, <3>3 DEF RightPlace
  <2>4. got[r][i].off < ContainerSize
    BY DEF BlockInv, WithinMedium
  <2>5. got[r][i].ver \in barrier..version
    BY DEF BlockInv, ClearCacheIsBarrier, ReturnOk
  <2>. QED
    BY <2>3, <2>4, <2>5 DEF b, TypeOK
<1>. QED
  BY <1>1, <1>2 DEF Abstract!Proper, Data

\* The reader with its cache, its unlocked window and its concurrent callers
\* implements the cache-free block store: right blocks or an error, never
\* stale past a barrier.
THEOREM Refinement == Spec => ImplementsBlockStore
<1>1. Init => Abstract!Init
  BY DEF Init, Abstract!Init, Abstract!NoAnswer
<1>2. TypeOK /\ BlockInv /\ [Next]_vars => [Abstract!Next]_(Abstract!vars)
  <2> SUFFICES ASSUME TypeOK, BlockInv, [Next]_vars
               PROVE  [Abstract!Next]_(Abstract!vars)
    OBVIOUS
  <2>1. ASSUME NEW r \in Readers, NEW s \in BlockNumbers, NEW n \in 0..MaxCount,
               ReadBlocks(r, s, n)
        PROVE  Abstract!Invoke(r, s, n)
    BY <2>1 DEF ReadBlocks, TypeOK, mediumVars, Abstract!Invoke, Abstract!NoAnswer
  <2>2. ASSUME NEW r \in Readers, ReturnOk(r)
        PROVE  Abstract!Respond(r)
    <3>1. Abstract!Proper(req[r], got[r])
      BY <2>2, AnswerIsProper
    <3>2. outcome[r] = "none"
      BY <2>2 DEF ReturnOk, BlockInv, InFlight
    <3> DEFINE Answer == [q \in Readers |->
                             [kind |-> outcome[q],
                              blocks |-> IF pc[q] = "idle" THEN got[q] ELSE <<>>]]
    <3>3. /\ pc[r] = "loop"
          /\ pc' = [pc EXCEPT ![r] = "idle"]
          /\ outcome' = [outcome EXCEPT ![r] = "ok"]
          /\ UNCHANGED <<req, got, version, barrier>>
      BY <2>2 DEF ReturnOk, mediumVars
    <3>4. Answer'[r] = [kind |-> "ok", blocks |-> got[r]]
      BY <3>3 DEF TypeOK
    <3>5. \A q \in Readers : q # r => Answer'[q] = Answer[q]
      BY <3>3 DEF TypeOK
    <3>6. Answer' = [Answer EXCEPT ![r] = [kind |-> "ok", blocks |-> Answer'[r].blocks]]
      BY <3>4, <3>5
    <3>7. Abstract!Proper(req[r], Answer'[r].blocks)
      BY <3>1, <3>4
    <3>. QED
      BY <3>3, <3>6, <3>7 DEF TypeOK, Abstract!Respond
  <2>3. ASSUME NEW r \in Readers, pc[r] # "idle", Fail(r)
        PROVE  Abstract!Respond(r)
    BY <2>3 DEF Fail, TypeOK, mediumVars, Abstract!Respond, Abstract!Error
  <2>4. ASSUME NEW r \in Readers, Hit(r) \/ Miss(r) \/ Fetch(r) \/ Insert(r)
        PROVE  UNCHANGED Abstract!vars
    BY <2>4 DEF Hit, Miss, Fetch, Insert, TypeOK, mediumVars, Abstract!vars
  <2>5. ASSUME ClearCache
        PROVE  [Abstract!Next]_(Abstract!vars)
    <3>1. CASE Quiet
      BY <2>5, <3>1 DEF ClearCache, Quiet, callVars, Abstract!Next, Abstract!Barrier
    <3>2. CASE ~Quiet
      BY <2>5, <3>2 DEF ClearCache, callVars, Abstract!vars
    <3>. QED BY <3>1, <3>2
  <2>6. ASSUME MediumWrite
        PROVE  Abstract!MediumWrite
    BY <2>6 DEF MediumWrite, callVars, Abstract!MediumWrite
  <2>7. ASSUME Close \/ UNCHANGED vars
        PROVE  UNCHANGED Abstract!vars
    BY <2>7 DEF Close, vars, callVars, Abstract!vars
  <2>. QED
    BY <2>1, <2>2, <2>3, <2>4, <2>5, <2>6, <2>7
    DEF Next, Step, Refuse, FetchFail, Abstract!Next
<1>3. Init => BlockInv
  BY BlockInvInit
<1>4. TypeOK /\ BlockInv /\ [Next]_vars => BlockInv'
  BY BlockInvStep
<1>. QED
  BY <1>1, <1>2, <1>3, <1>4, TypeCorrect, PTL DEF Spec, Abstract!Spec, ImplementsBlockStore

=============================================================================
