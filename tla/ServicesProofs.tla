---------------------------- MODULE ServicesProofs ----------------------------
(***************************************************************************)
(* Proofs about the parts that open and find things: DMGDevice,            *)
(* VolumeService, ObjectLocator, JumpstartLocator, EFIDriver and           *)
(* CheckpointDiscovery.                                                    *)
(***************************************************************************)
EXTENDS DMGDevice, VolumeService, ObjectLocator, JumpstartLocator, EFIDriver, CheckpointDiscovery,
        SequenceTheorems, NumberLemmas, TLAPS

-----------------------------------------------------------------------------
(* Folds over a sequence.  FoldLeft is a function on sets of indices that  *)
(* is defined by recursion; that there is such a function, and what it is  *)
(* on the indices up to i, follows by induction, which is stated by least  *)
(* elements of sets of numbers.                                            *)

LEMMA MaxIs ==
  ASSUME NEW m \in Nat, NEW s \in SUBSET (1..m), m \in s
  PROVE  Max(s) = m
<1>1. \A y \in s : m >= y
  OBVIOUS
<1>2. \A x \in s : (\A y \in s : x >= y) => x = m
  OBVIOUS
<1>. QED
  BY <1>1, <1>2 DEF Max

LEMMA MaxIn ==
  ASSUME NEW n \in Nat, NEW s \in SUBSET (1..n), s # {}
  PROVE  Max(s) \in s
<1> DEFINE Below == {n - x : x \in s}
<1>0. \A x \in s : n - x \in Nat
  OBVIOUS
<1>1. Below \subseteq Nat /\ Below # {}
  BY <1>0
<1>2. PICK m \in Below : \A x \in Below : m <= x
  <2> HIDE DEF Below
  <2>. QED
    BY <1>1, NatHasMin
<1>3. PICK x \in s : m = n - x
  BY <1>2
<1>4. \A y \in s : x >= y
  <2> SUFFICES ASSUME NEW y \in s PROVE x >= y
    OBVIOUS
  <2>1. n - y \in Below
    OBVIOUS
  <2>2. n - x <= n - y
    BY <1>2, <1>3, <2>1
  <2>. QED
    BY <2>2
<1>. QED
  BY <1>4 DEF Max

IsFold(g, m, V, base, combine) ==
  /\ g \in [SUBSET (1..m) -> V]
  /\ \A s \in SUBSET (1..m) : g[s] = IF s = {} THEN base ELSE combine[<<Max(s), g[s \ {Max(s)}]>>]

LEMMA FoldExtends ==
  ASSUME NEW m \in Nat, NEW V, NEW base \in V, NEW combine, NEW g, IsFold(g, m, V, base, combine),
         \A v \in V : combine[<<m + 1, v>>] \in V
  PROVE  \E h : IsFold(h, m + 1, V, base, combine)
<1> DEFINE k == m + 1
           h == [s \in SUBSET (1..k) |-> IF k \in s THEN combine[<<k, g[s \ {k}]>>] ELSE g[s]]
<1>1. \A s \in SUBSET (1..k) : /\ s \ {k} \in SUBSET (1..m)
                               /\ k \notin s => s \in SUBSET (1..m)
  <2> HIDE DEF h
  <2>1. \A x \in 1..k : x # k => x \in 1..m
    OBVIOUS
  <2> HIDE DEF k
  <2>. QED
    BY <2>1
<1>2. SUBSET (1..m) \subseteq SUBSET (1..k)
  <2> HIDE DEF h
  <2>1. 1..m \subseteq 1..k
    OBVIOUS
  <2>. QED
    BY <2>1, Zenon
<1>3. \A s \in SUBSET (1..m) : g[s] \in V
  BY DEF IsFold
<1>4. h \in [SUBSET (1..k) -> V]
  BY <1>1, <1>3
<1>5. \A s \in SUBSET (1..m) : k \notin s
  OBVIOUS
<1>6. \A s \in SUBSET (1..m) : h[s] = g[s]
  BY <1>2, <1>5
<1>7. ASSUME NEW s \in SUBSET (1..k)
      PROVE  h[s] = IF s = {} THEN base ELSE combine[<<Max(s), h[s \ {Max(s)}]>>]
  <2>1. CASE k \in s
    <3>1. k \in Nat /\ Max(s) = k
      BY <2>1, MaxIs
    <3>2. h[s \ {k}] = g[s \ {k}]
      BY <1>1, <1>6
    <3>. QED
      BY <2>1, <3>1, <3>2
  <2>2. CASE k \notin s
    <3>1. s \in SUBSET (1..m) /\ s \ {Max(s)} \in SUBSET (1..m)
      BY <1>1, <2>2
    <3>2. h[s] = g[s] /\ h[s \ {Max(s)}] = g[s \ {Max(s)}]
      BY <1>6, <3>1
    <3>. QED
      BY <3>1, <3>2 DEF IsFold
  <2>. QED
    BY <2>1, <2>2
<1>. QED
  BY <1>4, <1>7 DEF IsFold

LEMMA FoldExists ==
  ASSUME NEW n \in Nat, NEW V, NEW base \in V, NEW combine \in [(1..n) \X V -> V]
  PROVE  \E g : IsFold(g, n, V, base, combine)
<1> DEFINE Bad == {m \in 0..n : ~ \E g : IsFold(g, m, V, base, combine)}
<1> SUFFICES ASSUME Bad # {} PROVE FALSE
  OBVIOUS
<1>0. Bad \subseteq Nat
  OBVIOUS
<1>1. PICK m \in Bad : \A x \in Bad : m <= x
  <2> HIDE DEF Bad
  <2>. QED
    BY <1>0, NatHasMin
<1>2. m # 0
  <2> DEFINE h == [s \in SUBSET (1..0) |-> base]
  <2>1. \A s \in SUBSET (1..0) : s = {}
    OBVIOUS
  <2>2. IsFold(h, 0, V, base, combine)
    BY <2>1 DEF IsFold
  <2>. QED
    BY <2>2
<1>3. m - 1 \in 0..n /\ m - 1 \notin Bad /\ m - 1 \in Nat
  BY <1>1, <1>2
<1>4. PICK g : IsFold(g, m - 1, V, base, combine)
  BY <1>3
<1>5. \A v \in V : combine[<<(m - 1) + 1, v>>] \in V
  BY <1>3
<1>6. \E h : IsFold(h, (m - 1) + 1, V, base, combine)
  BY <1>3, <1>4, <1>5, FoldExtends
<1>7. (m - 1) + 1 = m
  BY <1>3
<1>. QED
  BY <1>6, <1>7

-----------------------------------------------------------------------------
(* DMGDevice.                                                              *)

DeviceSpan == [from : Int, len : Nat]

DMGTypeOK ==
  /\ image \in Images /\ aligned \in BOOLEAN /\ opened \in BOOLEAN /\ offset \in Int
  /\ pc \in [Callers -> {"idle", "lookup", "read", "insert"}]
  /\ req \in [Callers -> [off : Nat, len : Nat]]
  /\ p \in [Callers -> DeviceSpan]
  /\ outcome \in [Callers -> {"none", "ok", "err"}]
  /\ DOMAIN blockCache \subseteq Nat
  /\ \A b \in DOMAIN blockCache : blockCache[b] \in DeviceSpan

\* Bytes that begin in block b of the container, at its start if callers read
\* at block boundaries only.
InBlock(b, d) ==
  /\ (d.from - offset) \div ReadBlock = b
  /\ aligned => d.from = offset + b * ReadBlock

\* Nothing is read before the container is found, so the offset a block was
\* read at stays; and what is between the read of a block and its insertion is
\* that block.
DMGInv ==
  /\ DMGTypeOK
  /\ ~opened => /\ DOMAIN blockCache = {}
                /\ \A c \in Callers : pc[c] = "idle" /\ outcome[c] = "none"
  /\ \A b \in DOMAIN blockCache : InBlock(b, blockCache[b])
  /\ aligned => \A c \in Callers : req[c].off % ReadBlock = 0
  /\ \A c \in Callers : pc[c] = "insert" => p[c].from = offset + req[c].off /\ p[c].len = req[c].len
  /\ ReadsInPlace
  /\ DetectionFindsContainer

\* A range begins in the block of its number.
LEMMA RangeInBlock ==
  ASSUME DMGInv, NEW c \in Callers, NEW d \in DeviceSpan, d.from = offset + req[c].off
  PROVE  BlockNum(c) \in Nat /\ InBlock(BlockNum(c), d)
<1> DEFINE o == req[c].off
<1>1. o \in Nat /\ offset \in Int /\ ReadBlock \in Nat \ {0} /\ (aligned => o % ReadBlock = 0)
  BY DeviceAssumption DEF DMGInv, DMGTypeOK
<1>2. d.from - offset = o
  BY <1>1
<1>3. BlockNum(c) = o \div ReadBlock
  BY DEF BlockNum
<1> HIDE DEF o
<1>4. o \div ReadBlock \in Nat /\ o = (o \div ReadBlock) * ReadBlock + (o % ReadBlock)
  BY <1>1, Division
<1>5. aligned => o = (o \div ReadBlock) * ReadBlock
  <2> SUFFICES ASSUME aligned PROVE o = (o \div ReadBlock) * ReadBlock
    OBVIOUS
  <2>1. (o \div ReadBlock) * ReadBlock \in Int
    BY <1>1, <1>4
  <2>. QED
    BY <1>1, <1>4, <2>1
<1>. QED
  BY <1>2, <1>3, <1>4, <1>5 DEF InBlock, o

LEMMA DMGInvInit == DMGInit => DMGInv
<1> SUFFICES ASSUME DMGInit PROVE DMGInv
  OBVIOUS
<1>1. 0 % ReadBlock = 0
  BY DeviceAssumption
<1>2. Nothing \in DeviceSpan
  BY DEF Nothing, DeviceSpan
<1>3. opened = FALSE /\ opened \in BOOLEAN
  BY Zenon DEF DMGInit
<1>. QED
  BY <1>1, <1>2, <1>3 DEF DMGInit, DMGInv, DMGTypeOK, ReadsInPlace, DetectionFindsContainer

\* Detection gives addresses.
LEMMA DetectedType ==
  ASSUME NEW im \in Images
  PROVE  detectAPFSOffset(im) \subseteq Nat
<1>1. GPTOffset(im) \subseteq Nat
  BY DeviceAssumption DEF GPTOffset, APFSEntries, Least
<1>2. CommonOffset(im) \subseteq Nat
  BY DeviceAssumption DEF CommonOffset, Least
<1>3. FullScan(im) \subseteq Nat
  BY DeviceAssumption DEF FullScan, Least, Magic
<1>. QED
  BY <1>1, <1>2, <1>3 DEF detectAPFSOffset

\* The first member of a set of numbers.
LEMMA LeastIs ==
  ASSUME NEW T, T \subseteq Nat, NEW m \in T, \A x \in T : m <= x
  PROVE  Least(T) = {m}
<1>1. m \in Least(T)
  BY DEF Least
<1>2. ASSUME NEW x \in Least(T) PROVE x = m
  <2>1. x \in T /\ x <= m /\ m <= x
    BY <1>2 DEF Least
  <2>. QED
    BY <2>1
<1>. QED
  BY <1>1, <1>2

LEMMA LeastExists ==
  ASSUME NEW T, T \subseteq Nat, T # {}
  PROVE  \E m \in T : Least(T) = {m} /\ \A x \in T : m <= x
<1>1. PICK m \in T : \A x \in T : m <= x
  BY NatHasMin
<1>. QED
  BY <1>1, LeastIs

\* With APFS partitions in the table, none of them among the entries skipped,
\* detection takes the first.
LEMMA PartitionDetected ==
  ASSUME NEW im \in Images, ~Overlooked(im), APFSEntries(im) # {}
  PROVE  detectAPFSOffset(im) = {im.at}
<1>1. APFSEntries(im) \subseteq Nat
  BY DEF APFSEntries
<1>2. PICK i \in APFSEntries(im) : Least(APFSEntries(im)) = {i}
  BY <1>1, LeastExists
<1>3. {j \in APFSEntries(im) : j >= EntriesStart} = APFSEntries(im)
  BY <1>1, DeviceAssumption DEF Overlooked
<1>4. GPTOffset(im) = {im.entries[i].start}
  BY <1>2, <1>3 DEF GPTOffset
<1>5. im.at = im.entries[i].start
  BY <1>2, ImageAssumption
<1>. QED
  BY <1>4, <1>5 DEF detectAPFSOffset

\* Without one it takes the container's superblock, which is the first there is
\* at a block boundary: at a common offset, or else in the full scan.
LEMMA SuperblockDetected ==
  ASSUME NEW im \in Images, APFSEntries(im) = {}, ~Shadowed(im), ~Beyond(im)
  PROVE  detectAPFSOffset(im) = {im.at}
<1>1. /\ im.at \in Nat /\ im.at % ReadBlock = 0 /\ im.at \in Magic(im)
      /\ \A o \in Magic(im) : o % ReadBlock = 0 => im.at <= o
  BY DeviceAssumption, ImageAssumption DEF Beyond, Magic
<1>2. GPTOffset(im) = {}
  BY DEF GPTOffset, Least
<1> DEFINE J == {j \in 1..Len(CommonOffsets) : CommonOffsets[j] \in Magic(im)}
<1>3. CommonOffset(im) = {CommonOffsets[i] : i \in Least(J)}
  BY DEF CommonOffset
<1>4. J \subseteq Nat
  OBVIOUS
<1>5. CASE J = {}
  <2>1. CommonOffset(im) = {}
    BY <1>3, <1>5 DEF Least
  <2> DEFINE F == {o \in Magic(im) : o % ReadBlock = 0}
  <2>2. F \subseteq Nat
    BY DeviceAssumption DEF Magic
  <2>3. im.at \in F /\ \A o \in F : im.at <= o
    BY <1>1
  <2> HIDE DEF F
  <2>4. Least(F) = {im.at}
    BY <2>2, <2>3, LeastIs
  <2>. QED
    BY <1>2, <2>1, <2>4 DEF detectAPFSOffset, FullScan, F
<1>6. CASE J # {}
  <2>1. PICK m \in J : Least(J) = {m} /\ \A x \in J : m <= x
    BY <1>4, <1>6, LeastExists
  <2>2. CommonOffset(im) = {CommonOffsets[m]}
    BY <1>3, <2>1
  <2>3. PICK i \in 1..Len(CommonOffsets) : CommonOffsets[i] = im.at
    BY <2>2 DEF Shadowed
  <2>4. i \in J
    BY <1>1, <2>3
  <2>5. m \in 1..Len(CommonOffsets) /\ CommonOffsets[m] \in Magic(im) /\ m <= i
    BY <2>1, <2>4
  <2>6. im.at <= CommonOffsets[m] /\ CommonOffsets[m] \in Nat
    BY <1>1, <2>5, DeviceAssumption
  <2>7. m < i => CommonOffsets[m] < CommonOffsets[i]
    BY <2>5, DeviceAssumption
  <2>8. CommonOffsets[m] = im.at
    BY <1>1, <2>3, <2>5, <2>6, <2>7
  <2>. QED
    BY <1>2, <2>2, <2>8 DEF detectAPFSOffset
<1>. QED
  BY <1>5, <1>6

LEMMA DMGInvStep == DMGInv /\ [DMGNext]_dmgVars => DMGInv'
<1> SUFFICES ASSUME DMGInv, [DMGNext]_dmgVars PROVE DMGInv'
  OBVIOUS
<1> USE DeviceAssumption
<1>0. UNCHANGED <<image, opened, offset>> => DetectionFindsContainer'
  BY DEF DMGInv, DetectionFindsContainer
<1>1. CASE OpenDMG
  <2>1. /\ ~opened /\ opened' = TRUE
        /\ UNCHANGED <<image, aligned, blockCache, pc, req, p, outcome>>
    BY <1>1 DEF OpenDMG, cacheVars
  <2>2. offset' \in Nat
    BY <1>1, DetectedType DEF OpenDMG, DMGInv, DMGTypeOK
  <2>3. DOMAIN blockCache = {} /\ \A c \in Callers : pc[c] = "idle" /\ outcome[c] = "none"
    BY <2>1 DEF DMGInv
  <2>4. DetectionFindsContainer'
    <3> SUFFICES ASSUME AutoDetect, ~Overlooked(image), ~Shadowed(image), ~Beyond(image)
                 PROVE  offset' = image.at
      BY <2>1 DEF DetectionFindsContainer
    <3>1. image \in Images
      BY DEF DMGInv, DMGTypeOK
    <3>2. detectAPFSOffset(image) = {image.at}
      BY <3>1, PartitionDetected, SuperblockDetected
    <3>. QED
      BY <1>1, <3>2 DEF OpenDMG
  <2>. QED
    BY <2>1, <2>2, <2>3, <2>4 DEF DMGInv, DMGTypeOK, ReadsInPlace
<1>2. ASSUME NEW c \in Callers, NEW off \in Offsets, NEW len \in Lengths, ReadAt(c, off, len)
      PROVE  DMGInv'
  <2>1. /\ opened
        /\ aligned => off % ReadBlock = 0
        /\ UNCHANGED <<image, aligned, opened, offset, blockCache>>
        /\ off \in Nat /\ len \in Nat
    BY <1>2 DEF ReadAt, cacheVars
  <2> DEFINE r == [off |-> off, len |-> len]
  <2>2. r \in [off : Nat, len : Nat] /\ r.off = off /\ Nothing \in DeviceSpan
    BY <2>1 DEF Nothing, DeviceSpan
  <2>3. /\ pc' = [pc EXCEPT ![c] = "lookup"] /\ req' = [req EXCEPT ![c] = r]
        /\ p' = [p EXCEPT ![c] = Nothing] /\ outcome' = [outcome EXCEPT ![c] = "none"]
    BY <1>2 DEF ReadAt
  <2> HIDE DEF r
  <2>4. DMGTypeOK'
    BY <2>1, <2>2, <2>3 DEF DMGInv, DMGTypeOK
  <2>5. ReadsInPlace'
    BY <2>1, <2>3 DEF DMGInv, DMGTypeOK, ReadsInPlace, BlockNum
  <2>6. (\A b \in DOMAIN blockCache : InBlock(b, blockCache[b]))'
    BY <2>1 DEF DMGInv, InBlock
  <2>7. ASSUME NEW d \in Callers
        PROVE  /\ aligned => req'[d].off % ReadBlock = 0
               /\ pc'[d] = "insert" => p'[d].from = offset + req'[d].off /\ p'[d].len = req'[d].len
    <3>1. CASE d = c
      <4>1. pc'[c] = "lookup" /\ req'[c] = r
        BY <2>3 DEF DMGInv, DMGTypeOK
      <4>2. req'[d].off = off
        BY <2>2, <3>1, <4>1
      <4>. QED
        BY <2>1, <3>1, <4>1, <4>2
    <3>2. CASE d # c
      <4>1. pc'[d] = pc[d] /\ req'[d] = req[d] /\ p'[d] = p[d]
        BY <2>3, <3>2 DEF DMGInv, DMGTypeOK
      <4>2. aligned => req[d].off % ReadBlock = 0
        BY DEF DMGInv
      <4>3. pc[d] = "insert" => p[d].from = offset + req[d].off /\ p[d].len = req[d].len
        BY DEF DMGInv
      <4>. QED
        BY <4>1, <4>2, <4>3, Zenon
    <3>. QED
      BY <3>1, <3>2
  <2>. QED
    BY <1>0, <2>1, <2>4, <2>5, <2>6, <2>7 DEF DMGInv
<1>3. ASSUME NEW c \in Callers, CacheHit(c) PROVE DMGInv'
  <2> DEFINE d == blockCache[BlockNum(c)]
  <2>1. /\ BlockNum(c) \in DOMAIN blockCache /\ d.len = req[c].len /\ d \in DeviceSpan
        /\ p' = [p EXCEPT ![c] = d] /\ pc' = [pc EXCEPT ![c] = "idle"] /\ outcome' = [outcome EXCEPT ![c] = "ok"]
        /\ UNCHANGED <<image, aligned, opened, offset, blockCache, req>>
    BY <1>3 DEF CacheHit, Cached, cacheVars, DMGInv, DMGTypeOK
  <2>2. InBlock(BlockNum(c), d)
    BY <2>1 DEF DMGInv
  <2> DEFINE e == [from |-> offset + req[c].off, len |-> 0]
  <2>3. e \in DeviceSpan /\ e.from = offset + req[c].off
    BY DEF DMGInv, DMGTypeOK, DeviceSpan
  <2>4. InBlock(BlockNum(c), e)
    BY <2>3, RangeInBlock
  <2>5. aligned => d.from = offset + req[c].off
    BY <2>2, <2>3, <2>4 DEF InBlock
  <2> HIDE DEF d, e
  <2>6. ReadsInPlace'
    BY <2>1, <2>2, <2>5 DEF DMGInv, DMGTypeOK, ReadsInPlace, InBlock, BlockNum
  <2>7. opened
    BY <1>3 DEF CacheHit, DMGInv
  <2>. QED
    BY <1>0, <2>1, <2>6, <2>7 DEF DMGInv, DMGTypeOK, InBlock
<1>4. ASSUME NEW c \in Callers, CacheMiss(c) PROVE DMGInv'
  BY <1>0, <1>4 DEF CacheMiss, cacheVars, DMGInv, DMGTypeOK, ReadsInPlace, InBlock, BlockNum
<1>5. ASSUME NEW c \in Callers, ReadFile(c) PROVE DMGInv'
  <2>1. offset + req[c].off \in Int /\ req[c].len \in Nat
    BY DEF DMGInv, DMGTypeOK
  <2> DEFINE d == [from |-> offset + req[c].off, len |-> req[c].len]
  <2>2. d \in DeviceSpan /\ d.from = offset + req[c].off /\ d.len = req[c].len
    BY <2>1 DEF DeviceSpan
  <2>3. /\ pc[c] = "read" /\ p' = [p EXCEPT ![c] = d] /\ pc' = [pc EXCEPT ![c] = "insert"]
        /\ UNCHANGED <<image, aligned, opened, offset, blockCache, req, outcome>>
    BY <1>5 DEF ReadFile, cacheVars
  <2> HIDE DEF d
  <2>4. opened /\ InBlock(BlockNum(c), d)
    BY <2>2, <2>3, RangeInBlock DEF DMGInv
  <2>5. aligned => d.from = offset + req[c].off
    BY <2>2
  <2>6. ReadsInPlace'
    BY <2>2, <2>3, <2>4 DEF DMGInv, DMGTypeOK, ReadsInPlace, InBlock, BlockNum
  <2>. QED
    BY <1>0, <2>2, <2>3, <2>4, <2>6 DEF DMGInv, DMGTypeOK, InBlock
<1>6. ASSUME NEW c \in Callers, ReadFileFails(c) PROVE DMGInv'
  BY <1>0, <1>6 DEF ReadFileFails, cacheVars, DMGInv, DMGTypeOK, ReadsInPlace, InBlock, BlockNum
<1>7. ASSUME NEW c \in Callers, Insert(c) PROVE DMGInv'
  <2>1. /\ pc[c] = "insert" /\ pc' = [pc EXCEPT ![c] = "idle"] /\ outcome' = [outcome EXCEPT ![c] = "ok"]
        /\ UNCHANGED <<image, aligned, opened, offset, req, p>>
        /\ cacheInsert(BlockNum(c), p[c])
    BY <1>7 DEF Insert
  <2>2. BlockNum(c) \in Nat /\ InBlock(BlockNum(c), p[c]) /\ p[c] \in DeviceSpan
    BY <2>1, RangeInBlock DEF DMGInv, DMGTypeOK
  <2>3. /\ DOMAIN blockCache' \subseteq Nat
        /\ \A b \in DOMAIN blockCache' : blockCache'[b] \in DeviceSpan /\ InBlock(b, blockCache'[b])
    <3>1. CASE UNCHANGED cacheVars
      BY <2>1, <3>1 DEF cacheVars, DMGInv, DMGTypeOK, InBlock
    <3>2. CASE blockCache' = [x \in DOMAIN blockCache \cup {BlockNum(c)} |-> IF x = BlockNum(c) THEN p[c] ELSE blockCache[x]]
      <4>1. /\ DOMAIN blockCache' = DOMAIN blockCache \cup {BlockNum(c)}
            /\ \A b \in DOMAIN blockCache' : blockCache'[b] = IF b = BlockNum(c) THEN p[c] ELSE blockCache[b]
        BY <3>2
      <4>2. \A b \in DOMAIN blockCache' : blockCache'[b] \in DeviceSpan /\ InBlock(b, blockCache'[b])
        BY <2>2, <4>1 DEF DMGInv, DMGTypeOK
      <4>. QED
        BY <2>2, <4>1, <4>2 DEF DMGInv, DMGTypeOK
    <3>. QED
      BY <2>1, <3>1, <3>2 DEF cacheInsert
  <2>4. ReadsInPlace'
    BY <2>1, <2>2 DEF DMGInv, DMGTypeOK, ReadsInPlace, InBlock, BlockNum
  <2>. QED
    BY <1>0, <2>1, <2>3, <2>4 DEF DMGInv, DMGTypeOK, InBlock
<1>8. CASE ClearCache
  BY <1>0, <1>8 DEF ClearCache, DMGInv, DMGTypeOK, ReadsInPlace, InBlock, BlockNum
<1>9. CASE UNCHANGED dmgVars
  BY <1>0, <1>9 DEF dmgVars, cacheVars, DMGInv, DMGTypeOK, ReadsInPlace, InBlock, BlockNum
<1>. QED
  BY <1>1, <1>2, <1>3, <1>4, <1>5, <1>6, <1>7, <1>8, <1>9 DEF DMGNext

\* Whatever calls run beside each other and however the cache is cleared, a
\* read delivers bytes of the block asked for, as many as asked for, and those
\* at the offset itself when all read at block boundaries.
THEOREM DeviceReadsInPlace == DMGSpec => []ReadsInPlace
<1>1. DMGInv => ReadsInPlace
  BY DEF DMGInv
<1>. QED
  BY <1>1, DMGInvInit, DMGInvStep, PTL DEF DMGSpec

\* Detection ends at the container in every image and for every table of common
\* offsets: at the first partition of the table, or at the container's own
\* superblock, with the exceptions the property names.
THEOREM ContainerIsDetected == DMGSpec => []DetectionFindsContainer
<1>1. DMGInv => DetectionFindsContainer
  BY DEF DMGInv
<1>. QED
  BY <1>1, DMGInvInit, DMGInvStep, PTL DEF DMGSpec

-----------------------------------------------------------------------------
(* VolumeService.                                                          *)

\* The figures of a volume that fits into the address space.
LEMMA SpaceFigures ==
  ASSUME NEW q \in Nat, NEW a \in Nat, NEW B \in Nat \ {0}, NEW W \in Nat \ {0},
         q * B < W, a * B < W
  PROVE  /\ (q * B) % W = q * B /\ (a * B) % W = a * B
         /\ a <= q => (((q - a) % W) * B) % W = q * B - a * B
         /\ a > q => (((q - a) % W) * B) % W = W - a * B + q * B
<1>1. \A m \in Nat : m * B \in Nat /\ m <= m * B
  <2> SUFFICES ASSUME NEW m \in Nat PROVE m * B \in Nat /\ m <= m * B
    OBVIOUS
  <2>. QED
    OBVIOUS
<1>2. PICK Q \in Nat : Q = q * B
  BY <1>1
<1>3. PICK A \in Nat : A = a * B
  BY <1>1
<1>4. Q < W /\ A < W /\ q < W /\ a < W
  BY <1>1, <1>2, <1>3
<1>5. \A x \in Nat : x < W => x % W = x
  <2> SUFFICES ASSUME NEW x \in Nat, x < W PROVE x % W = x
    OBVIOUS
  <2>1. x = 0 * W + x
    OBVIOUS
  <2>. QED
    BY <2>1, RemainderIs
<1>6. Q % W = Q /\ A % W = A
  BY <1>4, <1>5
<1>7. ASSUME a <= q PROVE (((q - a) % W) * B) % W = Q - A
  <2>1. PICK d \in Nat : d = q - a
    BY <1>7
  <2>2. d % W = d
    BY <1>4, <1>5, <2>1
  <2>3. d * B = Q - A /\ d * B \in Nat
    BY <1>1, <1>2, <1>3, <2>1
  <2>4. Q - A \in Nat /\ Q - A < W
    BY <1>4, <2>3
  <2>. QED
    BY <1>5, <2>1, <2>2, <2>3, <2>4, Zenon
<1>8. ASSUME a > q PROVE (((q - a) % W) * B) % W = W - A + Q
  <2>1. PICK d \in Nat : d = a - q /\ d >= 1
    BY <1>8
  <2>2. d < W
    BY <1>4, <2>1
  <2>3. W - d \in Nat /\ W - d < W /\ q - a = (-1) * W + (W - d)
    BY <2>1, <2>2
  <2>4. (q - a) % W = W - d
    BY <2>3, RemainderIs
  <2>5. d * B = A - Q /\ d * B >= 1
    BY <1>1, <1>2, <1>3, <2>1
  <2>6. PICK D \in Nat : D = d * B /\ D >= 1 /\ D = A - Q /\ D < W
    BY <1>1, <1>4, <2>5
  <2>7. (W - d) * B = (B - 1) * W + (W - D)
    BY <2>6
  <2>8. W - D \in Nat /\ W - D < W /\ (W - d) * B \in Int /\ B - 1 \in Int
    BY <2>6
  <2>9. ((W - d) * B) % W = W - D
    BY <2>7, <2>8, RemainderIs
  <2>. QED
    BY <2>4, <2>6, <2>9
<1>. QED
  BY <1>2, <1>3, <1>6, <1>7, <1>8

\* The rate of utilization is not more than what is used.
LEMMA UtilizationBelow ==
  ASSUME NEW q \in Nat \ {0}, NEW a \in Nat, NEW B \in Nat \ {0}, NEW u \in Nat,
         u <= (a * 100) \div q
  PROVE  u * (q * B) <= 100 * (a * B)
<1>1. a * 100 \in Nat
  OBVIOUS
<1>2. PICK v \in Nat : v = (a * 100) \div q
  BY <1>1, Division
<1>3. v * q <= a * 100
  BY <1>1, <1>2, Division
<1>4. u * q <= v * q
  BY <1>2
<1>5. PICK x \in Nat : x = u * q
  OBVIOUS
<1>6. x <= a * 100
  BY <1>3, <1>4, <1>5
<1>7. x * B <= (a * 100) * B
  BY <1>1, <1>6
<1>8. u * (q * B) = x * B /\ (a * 100) * B = 100 * (a * B)
  BY <1>5
<1>. QED
  BY <1>7, <1>8

\* An open service holds what the block it was resolved to holds.
VolInv ==
  /\ disk \in Disks
  /\ step = "open" => /\ addr \in DOMAIN disk.blocks /\ volumeSB = disk.blocks[addr]
                      /\ volumeSB # NotVolume /\ ~volumeSB.short

\* The sizes of the volumes are those of devices that can be addressed.
Addressable ==
  \A d \in Disks : \A b \in DOMAIN d.blocks :
    d.blocks[b].quota * BlockSize < Word /\ d.blocks[b].alloc * BlockSize < Word

LEMMA VolInvStep == VolInv /\ [VolNext]_volVars => VolInv'
<1> SUFFICES ASSUME VolInv, [VolNext]_volVars PROVE VolInv'
  OBVIOUS
<1>1. CASE NewVolumeService \/ NewVolumeServiceFromPhysicalOID
  BY <1>1 DEF NewVolumeService, NewVolumeServiceFromPhysicalOID, VolInv
<1>2. CASE Resolved \/ NotResolved \/ DirectHit \/ DirectMiss
  BY <1>2 DEF Resolved, NotResolved, DirectHit, DirectMiss, VolInv
<1>3. CASE ScanHit \/ ScanMiss \/ ScanEnds
  BY <1>3 DEF ScanHit, ScanMiss, ScanEnds, VolInv
<1>4. CASE OpenVolume
  BY <1>4 DEF OpenVolume, isValidVolumeSuperblock, VolInv
<1>5. CASE OpenFails
  BY <1>5 DEF OpenFails, VolInv
<1>6. CASE UNCHANGED volVars
  BY <1>6 DEF volVars, VolInv
<1>. QED
  BY <1>1, <1>2, <1>3, <1>4, <1>5, <1>6 DEF VolNext, VolStep

LEMMA SpaceOfAny ==
  ASSUME NEW v, v.quota \in Nat, v.alloc \in Nat,
         v.quota * BlockSize < Word, v.alloc * BlockSize < Word
  PROVE  LET s == SpaceStats(v)
         IN  IF v.quota > 0 /\ Validate(v)
             THEN s.FreeSpace + s.UsedSpace = s.TotalCapacity
                    /\ SpaceUtilization(v) * s.TotalCapacity <= 100 * s.UsedSpace
             ELSE v.alloc > 0 => s.FreeSpace > s.TotalCapacity
<1> DEFINE q == v.quota
           a == v.alloc
           T == q * BlockSize
           U == a * BlockSize
           s == SpaceStats(v)
<1>1. q \in Nat /\ a \in Nat /\ BlockSize \in Nat \ {0} /\ Word \in Nat \ {0} /\ T < Word /\ U < Word
  BY VolumeAssumption
<1>2. /\ s.TotalCapacity = T /\ s.UsedSpace = U
      /\ a <= q => s.FreeSpace = T - U
      /\ a > q => s.FreeSpace = Word - U + T
  <2>1. /\ s.TotalCapacity = (q * BlockSize) % Word /\ s.UsedSpace = (a * BlockSize) % Word
        /\ s.FreeSpace = (((q - a) % Word) * BlockSize) % Word
    BY DEF SpaceStats, FreeBlocks
  <2> HIDE DEF q, a, s
  <2>2. /\ (q * BlockSize) % Word = q * BlockSize /\ (a * BlockSize) % Word = a * BlockSize
        /\ a <= q => (((q - a) % Word) * BlockSize) % Word = q * BlockSize - a * BlockSize
        /\ a > q => (((q - a) % Word) * BlockSize) % Word = Word - a * BlockSize + q * BlockSize
    BY <1>1, SpaceFigures
  <2>. QED
    BY <2>1, <2>2, Zenon
<1>3. T \in Nat /\ U \in Nat /\ (q > 0 => T > 0)
  BY <1>1
<1>4. CASE q > 0 /\ Validate(v)
  <2>1. a <= q
    BY <1>1, <1>4 DEF Validate
  <2>2. s.FreeSpace + s.UsedSpace = s.TotalCapacity
    BY <1>2, <1>3, <2>1
  <2>3. PICK w \in Nat : w = (a * 100) \div q
    BY <1>1, <1>4, Division
  <2>4. SpaceUtilization(v) \in Nat /\ SpaceUtilization(v) <= w
    BY <1>1, <1>4, <2>3 DEF SpaceUtilization
  <2>5. SpaceUtilization(v) * T <= 100 * U
    BY <1>1, <1>4, <2>3, <2>4, UtilizationBelow
  <2>. QED
    BY <1>2, <1>4, <2>2, <2>5
<1>5. CASE ~(q > 0 /\ Validate(v))
  <2> SUFFICES ASSUME a > 0 PROVE s.FreeSpace > s.TotalCapacity
    BY <1>5
  <2>1. a > q
    BY <1>1, <1>5 DEF Validate
  <2>. QED
    BY <1>1, <1>2, <1>3, <2>1
<1>. QED
  BY <1>4, <1>5

\* However a volume is found, an open service has a superblock that is on the
\* medium, its own where the object map names it, and free and used space add
\* up, as long as sizes in bytes fit into a uint64.
THEOREM OpenVolumesAreSound ==
  ASSUME Addressable
  PROVE  VolInit /\ [][VolNext]_volVars => []OpenVolumeIsSound
<1>1. VolInit => VolInv
  BY DEF VolInit, VolInv
<1>2. VolInv => OpenVolumeIsSound
  <2> SUFFICES ASSUME VolInv, step = "open" PROVE OpenHasSuperblock /\ SpaceAddsUp
    BY DEF OpenVolumeIsSound, OpenHasSuperblock, SpaceAddsUp
  <2>1. /\ disk \in Disks /\ addr \in DOMAIN disk.blocks /\ volumeSB = disk.blocks[addr]
        /\ volumeSB # NotVolume /\ ~volumeSB.short
    BY DEF VolInv
  <2>2. /\ volumeSB.quota \in Nat /\ volumeSB.alloc \in Nat
        /\ volumeSB.quota * BlockSize < Word /\ volumeSB.alloc * BlockSize < Word
    BY <2>1, VolumeAssumption DEF Addressable
  <2>3. SpaceAddsUp
    BY <2>2, SpaceOfAny DEF SpaceAddsUp
  <2>. QED
    BY <2>1, <2>3 DEF OpenHasSuperblock
<1>. QED
  BY <1>1, <1>2, VolInvStep, PTL

-----------------------------------------------------------------------------
(* ObjectLocator.                                                          *)

LocTypeOK ==
  /\ medium \in Nat
  /\ at \in [Finders -> {"idle", "find", "read", "store"}]
  /\ todo \in [Finders -> Seq(Nat)]
  /\ data \in [Finders -> [oid : Nat, ver : Nat]]
  /\ DOMAIN cache \subseteq Nat
  /\ \A o \in DOMAIN cache : cache[o] \in [oid : Nat, ver : Nat]

\* What a finder holds between reading and storing is the block of its object,
\* in a state the medium has had.
LocInv ==
  /\ LocTypeOK
  /\ \A f \in Finders : at[f] # "idle" => todo[f] # <<>>
  /\ CachedIsOwn
  /\ \A f \in Finders : at[f] = "store" =>
       /\ data[f].oid = Head(todo[f]) /\ data[f].ver <= medium
       /\ Mapped(Head(todo[f]), data[f].ver)

LEMMA LocInvInit == LocInit => LocInv
<1>1. NoData \in [oid : Nat, ver : Nat] /\ <<>> \in Seq(Nat)
  BY DEF NoData
<1>. QED
  BY <1>1 DEF LocInit, LocInv, LocTypeOK, CachedIsOwn

\* A lookup that is over leaves the rest of the list.
LEMMA Finished ==
  ASSUME LocInv, NEW f \in Finders, at[f] # "idle", Finish(f)
  PROVE  /\ at' \in [Finders -> {"idle", "find", "read", "store"}]
         /\ todo' \in [Finders -> Seq(Nat)]
         /\ data' \in [Finders -> [oid : Nat, ver : Nat]]
         /\ \A g \in Finders : g # f => at'[g] = at[g] /\ todo'[g] = todo[g] /\ data'[g] = data[g]
         /\ at'[f] \in {"idle", "find"}
         /\ at'[f] # "idle" => todo'[f] # <<>>
<1>1. /\ todo[f] \in Seq(Nat) /\ todo[f] # <<>>
      /\ at \in [Finders -> {"idle", "find", "read", "store"}]
      /\ todo \in [Finders -> Seq(Nat)]
      /\ data \in [Finders -> [oid : Nat, ver : Nat]]
  BY DEF LocInv, LocTypeOK
<1>2. Tail(todo[f]) \in Seq(Nat) /\ Len(Tail(todo[f])) = Len(todo[f]) - 1
  BY <1>1
<1>3. NoData \in [oid : Nat, ver : Nat]
  BY DEF NoData
<1>4. /\ todo' = [todo EXCEPT ![f] = Tail(todo[f])]
      /\ at' = [at EXCEPT ![f] = IF Len(todo[f]) > 1 THEN "find" ELSE "idle"]
      /\ data' = [data EXCEPT ![f] = NoData]
  BY DEF Finish
<1>5. Len(todo[f]) > 1 => Tail(todo[f]) # <<>>
  <2>1. Len(<<>>) = 0
    OBVIOUS
  <2>2. PICK n \in Nat : n = Len(todo[f])
    BY <1>1
  <2>3. n > 1 => n - 1 # 0
    OBVIOUS
  <2>4. Len(todo[f]) > 1 => Len(Tail(todo[f])) # 0
    BY <1>2, <2>2, <2>3, Zenon
  <2>. QED
    BY <2>1, <2>4, Zenon
<1>. QED
  BY <1>1, <1>2, <1>3, <1>4, <1>5

LEMMA LocInvStep == LocInv /\ [LocNext]_locVars => LocInv'
<1> SUFFICES ASSUME LocInv, [LocNext]_locVars PROVE LocInv'
  OBVIOUS
<1>1. ASSUME NEW f \in Finders, FindObjectByID(f) PROVE LocInv'
  <2>1. PICK o \in Objects : todo' = [todo EXCEPT ![f] = <<o>>]
    BY <1>1 DEF FindObjectByID
  <2>2. /\ at' = [at EXCEPT ![f] = "find"] /\ UNCHANGED <<cache, medium, data>>
        /\ <<o>> \in Seq(Nat) /\ <<o>> # <<>>
    BY <1>1, KnownAssumption DEF FindObjectByID
  <2>. QED
    BY <2>1, <2>2 DEF LocInv, LocTypeOK, CachedIsOwn
<1>2. ASSUME NEW f \in Finders, AnalyzeObjectReferences(f) PROVE LocInv'
  BY <1>2, KnownAssumption DEF AnalyzeObjectReferences, LocInv, LocTypeOK, CachedIsOwn
<1>3. ASSUME NEW f \in Finders, Hit(f) \/ FindFails(f) PROVE LocInv'
  <2>1. /\ Finish(f) /\ at[f] # "idle" /\ UNCHANGED <<cache, medium>>
    BY <1>3 DEF Hit, FindFails, Deliver
  <2>. QED
    BY <2>1, Finished DEF LocInv, LocTypeOK, CachedIsOwn
<1>4. ASSUME NEW f \in Finders, Miss(f) PROVE LocInv'
  BY <1>4 DEF Miss, LocInv, LocTypeOK, CachedIsOwn
<1>5. ASSUME NEW f \in Finders, ReadObject(f) PROVE LocInv'
  <2>1. PICK v \in 0..medium : /\ Mapped(Head(todo[f]), v)
                               /\ data' = [data EXCEPT ![f] = [oid |-> Head(todo[f]), ver |-> v]]
    BY <1>5 DEF ReadObject
  <2>2. /\ at' = [at EXCEPT ![f] = "store"] /\ at[f] = "read"
        /\ UNCHANGED <<cache, medium, todo>>
    BY <1>5 DEF ReadObject
  <2>3. Head(todo[f]) \in Nat /\ v \in Nat /\ v <= medium
    BY <2>2 DEF LocInv, LocTypeOK
  <2>. QED
    BY <2>1, <2>2, <2>3 DEF LocInv, LocTypeOK, CachedIsOwn
<1>6. ASSUME NEW f \in Finders, Store(f) PROVE LocInv'
  <2> DEFINE o == Head(todo[f])
  <2>1. /\ Finish(f) /\ at[f] = "store" /\ medium' = medium
        /\ cache' = [k \in DOMAIN cache \cup {o} |-> IF k = o THEN data[f] ELSE cache[k]]
    BY <1>6 DEF Store, Deliver
  <2>2. /\ o \in Nat /\ data[f] \in [oid : Nat, ver : Nat]
        /\ data[f].oid = o /\ data[f].ver <= medium /\ Mapped(o, data[f].ver)
    BY <2>1 DEF LocInv, LocTypeOK
  <2> HIDE DEF o
  <2>3. /\ DOMAIN cache' \subseteq Nat
        /\ \A k \in DOMAIN cache' : /\ cache'[k] \in [oid : Nat, ver : Nat]
                                    /\ cache'[k].oid = k /\ cache'[k].ver <= medium /\ Mapped(k, cache'[k].ver)
    BY <2>1, <2>2 DEF LocInv, LocTypeOK, CachedIsOwn
  <2>4. /\ at' \in [Finders -> {"idle", "find", "read", "store"}]
        /\ todo' \in [Finders -> Seq(Nat)]
        /\ data' \in [Finders -> [oid : Nat, ver : Nat]]
        /\ \A g \in Finders : g # f => at'[g] = at[g] /\ todo'[g] = todo[g] /\ data'[g] = data[g]
        /\ at'[f] \in {"idle", "find"}
        /\ at'[f] # "idle" => todo'[f] # <<>>
    BY <2>1, Finished
  <2>5. LocTypeOK'
    BY <2>1, <2>3, <2>4 DEF LocInv, LocTypeOK
  <2>6. CachedIsOwn'
    BY <2>1, <2>3 DEF CachedIsOwn
  <2>7. ASSUME NEW g \in Finders
        PROVE  /\ at'[g] # "idle" => todo'[g] # <<>>
               /\ at'[g] = "store" =>
                    /\ data'[g].oid = Head(todo'[g]) /\ data'[g].ver <= medium'
                    /\ Mapped(Head(todo'[g]), data'[g].ver)
    <3>1. CASE g = f
      BY <2>4, <3>1
    <3>2. CASE g # f
      BY <2>1, <2>4, <3>2 DEF LocInv
    <3>. QED
      BY <3>1, <3>2
  <2>. QED
    BY <2>5, <2>6, <2>7 DEF LocInv
<1>7. CASE MediumWritten
  <2>1. medium' = medium + 1 /\ medium \in Nat /\ UNCHANGED <<cache, at, todo, data>>
    BY <1>7 DEF MediumWritten, LocInv, LocTypeOK
  <2>2. \A v \in Nat : v <= medium => v <= medium'
    BY <2>1
  <2>. QED
    BY <2>1, <2>2 DEF LocInv, LocTypeOK, CachedIsOwn
<1>8. CASE UNCHANGED locVars
  BY <1>8 DEF locVars, LocInv, LocTypeOK, CachedIsOwn
<1>. QED
  BY <1>1, <1>2, <1>3, <1>4, <1>5, <1>6, <1>7, <1>8 DEF LocNext, LocStep

\* Once an object is cached and nobody is reading it, no step changes what is
\* cached of it.
LEMMA SettledStays ==
  ASSUME LocInv, LocNext, NEW o, NEW v, Settled(o, v)
  PROVE  Settled(o, v)'
<1>0. /\ o \in DOMAIN cache /\ cache[o].ver = v
      /\ \A f \in Finders : at[f] \in {"read", "store"} => Head(todo[f]) # o
  BY DEF Settled
<1>1. ASSUME NEW f \in Finders, FindObjectByID(f) \/ AnalyzeObjectReferences(f) PROVE Settled(o, v)'
  <2>1. /\ UNCHANGED cache /\ at' = [at EXCEPT ![f] = "find"]
        /\ \A g \in Finders : g # f => todo'[g] = todo[g]
    BY <1>1 DEF FindObjectByID, AnalyzeObjectReferences, LocInv, LocTypeOK
  <2>. QED
    BY <1>0, <2>1 DEF Settled, LocInv, LocTypeOK
<1>2. ASSUME NEW f \in Finders, Hit(f) \/ FindFails(f) PROVE Settled(o, v)'
  <2>1. Finish(f) /\ at[f] # "idle" /\ UNCHANGED cache
    BY <1>2 DEF Hit, FindFails, Deliver
  <2>. QED
    BY <1>0, <2>1, Finished DEF Settled
<1>3. ASSUME NEW f \in Finders, Miss(f) \/ ReadObject(f) PROVE Settled(o, v)'
  BY <1>0, <1>3 DEF Miss, ReadObject, Settled, LocInv, LocTypeOK
<1>4. ASSUME NEW f \in Finders, Store(f) PROVE Settled(o, v)'
  <2>1. /\ Finish(f) /\ at[f] = "store" /\ Head(todo[f]) # o
        /\ cache' = [k \in DOMAIN cache \cup {Head(todo[f])} |-> IF k = Head(todo[f]) THEN data[f] ELSE cache[k]]
    BY <1>0, <1>4 DEF Store, Deliver
  <2>. QED
    BY <1>0, <2>1, Finished DEF Settled
<1>5. CASE MediumWritten
  BY <1>0, <1>5 DEF MediumWritten, Settled
<1>. QED
  BY <1>1, <1>2, <1>3, <1>4, <1>5 DEF LocNext, LocStep

\* GetObjectDependencies: no word twice, and no other words than the block's.
DistinctWords(ws) ==
  {s \in Seq(Nat) : /\ \A i, j \in 1..Len(s) : s[i] = s[j] => i = j
                    /\ \A i \in 1..Len(s) : Contains(ws, s[i])}

LEMMA AddOnceKeeps ==
  ASSUME NEW ws, NEW deps \in DistinctWords(ws), NEW w \in Nat, Contains(ws, w)
  PROVE  AddOnce(deps, w) \in DistinctWords(ws)
<1>1. /\ deps \in Seq(Nat)
      /\ \A i, j \in 1..Len(deps) : deps[i] = deps[j] => i = j
      /\ \A i \in 1..Len(deps) : Contains(ws, deps[i])
  BY DEF DistinctWords
<1>2. CASE AddOnce(deps, w) = deps
  BY <1>2
<1>3. CASE ~Contains(deps, w) /\ AddOnce(deps, w) = Append(deps, w)
  <2> DEFINE s == Append(deps, w)
  <2>1. /\ s \in Seq(Nat) /\ Len(s) = Len(deps) + 1 /\ Len(deps) \in Nat
        /\ s[Len(deps) + 1] = w
        /\ \A i \in 1..Len(deps) : s[i] = deps[i]
    BY <1>1
  <2>2. \A i \in 1..Len(deps) : deps[i] # w
    BY <1>3 DEF Contains
  <2> HIDE DEF s
  <2>3. \A i \in 1..Len(s) : i \in 1..Len(deps) \/ i = Len(deps) + 1
    BY <2>1
  <2>4. \A i \in 1..Len(s) : Contains(ws, s[i])
    BY <1>1, <2>1, <2>3, Zenon
  <2>5. ASSUME NEW i \in 1..Len(s), NEW j \in 1..Len(s), s[i] = s[j] PROVE i = j
    <3>1. CASE i \in 1..Len(deps) /\ j \in 1..Len(deps)
      BY <1>1, <2>1, <2>5, <3>1, Zenon
    <3>2. CASE i \in 1..Len(deps) /\ j = Len(deps) + 1
      BY <2>1, <2>2, <2>5, <3>2, Zenon
    <3>3. CASE i = Len(deps) + 1 /\ j \in 1..Len(deps)
      BY <2>1, <2>2, <2>5, <3>3, Zenon
    <3>. QED
      BY <2>3, <3>1, <3>2, <3>3, Zenon
  <2>6. s \in DistinctWords(ws)
    BY <2>1, <2>4, <2>5, Zenon DEF DistinctWords
  <2>. QED
    BY <1>3, <2>6 DEF s
<1>. QED
  BY <1>2, <1>3 DEF AddOnce

LEMMA DependenciesAre ==
  ASSUME NEW d, Words(d.oid, d.ver) \in Seq(Nat) \ {<<>>}
  PROVE  Dependencies(d) \in DistinctWords(Words(d.oid, d.ver))
<1> DEFINE ws == Words(d.oid, d.ver)
           W == Front(ws)
           n == Len(W)
           V == DistinctWords(ws)
           combine == [x \in (1..n) \X V |-> AddOnce(x[2], W[x[1]])]
           Iter(g) == g = [s \in SUBSET (DOMAIN W) |->
                             IF s = {} THEN <<>> ELSE LET x == Max(s) IN AddOnce(g[s \ {x}], W[x])]
<1>0. ws \in Seq(Nat) /\ ws # <<>>
  OBVIOUS
<1> HIDE DEF ws
<1>1. /\ W \in Seq(Nat) /\ n \in Nat /\ DOMAIN W = 1..n
      /\ \A i \in 1..n : W[i] \in Nat /\ Contains(ws, W[i])
  <2>1. /\ Len(ws) \in Nat \ {0}
        /\ \A i \in 1..Len(ws) : ws[i] \in Nat
    BY <1>0
  <2>2. Front(ws) = SubSeq(ws, 1, Len(ws) - 1)
    BY DEF Front
  <2>3. /\ W \in Seq(Nat) /\ Len(W) = Len(ws) - 1
        /\ \A i \in 1..(Len(ws) - 1) : W[i] = ws[i] /\ i \in 1..Len(ws)
    <3>1. PICK k \in Nat : k = Len(ws) - 1
      BY <2>1
    <3>2. \A i \in 1..k : i \in 1..Len(ws) /\ 1 + i - 1 = i
      BY <2>1, <3>1
    <3>3. k - 1 + 1 = k /\ (IF 1 <= k THEN k - 1 + 1 ELSE 0) = k
      OBVIOUS
    <3>4. W = SubSeq(ws, 1, k)
      BY <2>2, <3>1, Zenon
    <3>5. \A i \in 1..k : ws[i] \in Nat
      BY <2>1, <3>2
    <3>6. /\ SubSeq(ws, 1, k) \in Seq(Nat) /\ Len(SubSeq(ws, 1, k)) = k
          /\ \A i \in 1..k : SubSeq(ws, 1, k)[i] = ws[i]
      BY <3>2, <3>3, <3>5, SubSeqProperties
    <3> HIDE DEF W
    <3>. QED
      BY <3>1, <3>2, <3>4, <3>6, Zenon
  <2> HIDE DEF W
  <2>. QED
    BY <2>1, <2>3 DEF Contains
<1>2. <<>> \in V
  <2>1. <<>> \in Seq(Nat) /\ Len(<<>>) = 0
    OBVIOUS
  <2>2. 1..0 = {}
    OBVIOUS
  <2>. QED
    BY <2>1, <2>2 DEF DistinctWords
<1> HIDE DEF W, V
<1>3. \A i \in 1..n, v \in V : AddOnce(v, W[i]) \in V
  BY <1>1, AddOnceKeeps DEF V
<1>4. combine \in [(1..n) \X V -> V]
  BY <1>3
<1>5. \A i \in 1..n, v \in V : combine[<<i, v>>] = AddOnce(v, W[i])
  OBVIOUS
<1> HIDE DEF n, combine
<1>6. PICK g : IsFold(g, n, V, <<>>, combine)
  BY <1>1, <1>2, <1>4, FoldExists
<1>7. Iter(g)
  <2>1. g \in [SUBSET (1..n) -> V]
    BY <1>6 DEF IsFold
  <2>2. ASSUME NEW s \in SUBSET (1..n), s # {}
        PROVE  g[s] = AddOnce(g[s \ {Max(s)}], W[Max(s)])
    <3>1. Max(s) \in 1..n
      BY <1>1, <2>2, MaxIn
    <3>2. g[s \ {Max(s)}] \in V
      BY <2>1
    <3>. QED
      BY <1>5, <1>6, <2>2, <3>1, <3>2 DEF IsFold
  <2>3. g[{}] = <<>>
    BY <1>6 DEF IsFold
  <2>. QED
    BY <1>1, <2>1, <2>2, <2>3
<1>8. PICK c : c = CHOOSE h : Iter(h)
  OBVIOUS
<1>9. Iter(c)
  BY <1>7, <1>8
<1>10. Dependencies(d) = c[DOMAIN W]
  <2>1. FoldLeft(AddOnce, <<>>, W) = c[DOMAIN W]
    BY <1>8 DEF FoldLeft, MapThenFoldSet
  <2>. QED
    BY <2>1 DEF Dependencies, W, ws
<1>11. c[1..0] \in V
  BY <1>2, <1>9
<1>12. ASSUME NEW i \in 1..n, c[1..(i - 1)] \in V PROVE c[1..i] \in V
  <2>1. /\ i \in Nat /\ 1..i \in SUBSET (1..n) /\ i \in 1..i /\ (1..i) \ {i} = 1..(i - 1)
    BY <1>1
  <2>2. Max(1..i) = i
    BY <2>1, MaxIs
  <2>3. c[1..i] = AddOnce(c[1..(i - 1)], W[i])
    BY <1>1, <1>9, <2>1, <2>2
  <2>. QED
    BY <1>3, <1>12, <2>3
<1>13. c[1..n] \in V
  <2> DEFINE Bad == {i \in 0..n : c[1..i] \notin V}
  <2> SUFFICES ASSUME Bad # {} PROVE FALSE
    BY <1>1
  <2>1. Bad \subseteq Nat
    OBVIOUS
  <2>2. PICK m \in Bad : \A x \in Bad : m <= x
    <3> HIDE DEF Bad
    <3>. QED
      BY <2>1, NatHasMin
  <2>3. m # 0
    BY <1>11, <2>2
  <2>4. m \in 1..n /\ m - 1 \in 0..n /\ ~ (m <= m - 1)
    BY <1>1, <2>2, <2>3
  <2>5. c[1..(m - 1)] \in V
    BY <2>2, <2>4
  <2>. QED
    BY <1>12, <2>2, <2>4, <2>5
<1>. QED
  BY <1>1, <1>10, <1>13 DEF V, ws

\* A graph to which the first k known objects have contributed, read in states of
\* the medium up to m.
GraphType == [objects : SUBSET Nat, refs : Seq(Nat \X Nat)]

GoodGraph(g, k, m) ==
  /\ \A i, j \in 1..Len(g.refs) : g.refs[i] = g.refs[j] /\ KnownOnce(g.refs[i][1]) => i = j
  /\ \A i \in 1..Len(g.refs) :
       /\ \E j \in 1..k : g.refs[i][1] = Known[j]
       /\ \E v \in 0..m : Contains(Words(g.refs[i][1], v), g.refs[i][2])
  /\ g.objects = Range(Known) \cup {r[2] : r \in Range(g.refs)}

LEMMA KnownNumbers ==
  /\ Len(Known) \in Nat \ {0} /\ DOMAIN Known = 1..Len(Known)
  /\ \A i \in 1..Len(Known) : Known[i] \in Nat /\ Known[i] \in Range(Known)
  /\ Range(Known) \subseteq Nat /\ Range(Known) # {}
<1>1. Known \in Seq(Nat) /\ Known # <<>>
  BY KnownAssumption
<1>2. /\ Len(Known) \in Nat \ {0} /\ DOMAIN Known = 1..Len(Known)
      /\ \A i \in 1..Len(Known) : Known[i] \in Nat
  BY <1>1
<1>3. 1 \in 1..Len(Known)
  BY <1>2
<1>. QED
  BY <1>2, <1>3 DEF Range

\* The next known object contributes the words of its block.
LEMMA GraphGrows ==
  ASSUME NEW g \in GraphType, NEW k \in Nat, k < Len(Known), NEW m \in 0..MaxState,
         GoodGraph(g, k, m), NEW d, d.oid = Known[k + 1], d.ver \in 0..m
  PROVE  LET h == [objects |-> g.objects \cup Range(Dependencies(d)),
                   refs |-> g.refs \o Refs(Known[k + 1], d)]
         IN  h \in GraphType /\ GoodGraph(h, k + 1, m)
<1> DEFINE o == Known[k + 1]
           D == Dependencies(d)
           R == Refs(o, d)
           refs == g.refs \o R
           n == Len(g.refs)
<1>1. k + 1 \in 1..Len(Known) /\ k + 1 \in 1..(k + 1) /\ o \in Nat
  BY KnownNumbers
<1>2. D \in DistinctWords(Words(o, d.ver))
  <2>1. MaxState \in Nat /\ d.ver \in 0..MaxState
    BY KnownAssumption
  <2>2. Words(d.oid, d.ver) \in Seq(Nat) \ {<<>>}
    BY <1>1, <2>1, KnownAssumption
  <2>. QED
    BY <2>2, DependenciesAre
<1>3. /\ D \in Seq(Nat) /\ Len(D) \in Nat
      /\ \A i \in 1..Len(D) : D[i] \in Nat /\ Contains(Words(o, d.ver), D[i])
      /\ \A i, j \in 1..Len(D) : D[i] = D[j] => i = j
      /\ DOMAIN D = 1..Len(D)
  BY <1>2 DEF DistinctWords
<1> HIDE DEF D
<1>4. /\ R \in Seq(Nat \X Nat) /\ Len(R) = Len(D)
      /\ \A i \in 1..Len(D) : R[i] = <<o, D[i]>>
  BY <1>1, <1>3 DEF Refs, D
<1>5. g.refs \in Seq(Nat \X Nat) /\ n \in Nat /\ g.objects \in SUBSET Nat
  BY DEF GraphType
<1> HIDE DEF R, o
<1>6. /\ refs \in Seq(Nat \X Nat) /\ Len(refs) = n + Len(D) /\ DOMAIN refs = 1..(n + Len(D))
      /\ \A i \in 1..n : i \in 1..Len(refs) /\ refs[i] = g.refs[i]
      /\ \A i \in 1..Len(D) : n + i \in 1..Len(refs) /\ refs[n + i] = <<o, D[i]>>
      /\ \A i \in 1..Len(refs) : i \in 1..n \/ \E j \in 1..Len(D) : i = n + j
  <2>1. /\ refs \in Seq(Nat \X Nat) /\ Len(refs) = n + Len(R)
        /\ \A i \in 1..(n + Len(R)) : refs[i] = IF i <= n THEN g.refs[i] ELSE R[i - n]
    <3> DEFINE Pairs == Nat \X Nat
    <3>1. g.refs \in Seq(Pairs) /\ R \in Seq(Pairs)
      BY <1>4, <1>5
    <3> HIDE DEF Pairs
    <3>2. /\ g.refs \o R \in Seq(Pairs) /\ Len(g.refs \o R) = Len(g.refs) + Len(R)
          /\ \A i \in 1..(Len(g.refs) + Len(R)) :
               (g.refs \o R)[i] = IF i <= Len(g.refs) THEN g.refs[i] ELSE R[i - Len(g.refs)]
      BY <3>1, ConcatProperties
    <3>. QED
      BY <3>2, Zenon DEF Pairs, n, refs
  <2>2. PICK l \in Nat : l = Len(D)
    BY <1>3
  <2>3. /\ Len(refs) = n + l /\ DOMAIN refs = 1..(n + l)
        /\ \A i \in 1..(n + l) : refs[i] = IF i <= n THEN g.refs[i] ELSE R[i - n]
    BY <1>4, <2>1, <2>2
  <2> HIDE DEF refs, n
  <2>4. \A i \in 1..n : i \in 1..(n + l) /\ i <= n
    BY <1>5
  <2>5. \A i \in 1..n : i \in 1..Len(refs) /\ refs[i] = g.refs[i]
    BY <2>3, <2>4
  <2>6. \A i \in 1..l : n + i \in 1..(n + l) /\ ~ (n + i <= n) /\ (n + i) - n = i
    BY <1>5
  <2>7. \A i \in 1..l : n + i \in 1..Len(refs) /\ refs[n + i] = R[i]
    BY <2>3, <2>6
  <2>8. ASSUME NEW i \in 1..(n + l), i \notin 1..n PROVE \E j \in 1..l : i = n + j
    <3>1. i - n \in 1..l /\ i = n + (i - n)
      BY <1>5, <2>8
    <3>. QED
      BY <3>1
  <2>9. \A i \in 1..Len(D) : n + i \in 1..Len(refs) /\ refs[n + i] = <<o, D[i]>>
    BY <1>4, <2>2, <2>7
  <2>. QED
    BY <2>1, <2>2, <2>3, <2>5, <2>8, <2>9
<1> HIDE DEF refs, n
<1>7. ASSUME NEW i \in 1..Len(refs)
      PROVE  /\ \E j \in 1..(k + 1) : refs[i][1] = Known[j]
             /\ \E v \in 0..m : Contains(Words(refs[i][1], v), refs[i][2])
  <2>1. CASE i \in 1..n
    <3>1. /\ \E j \in 1..k : g.refs[i][1] = Known[j]
          /\ \E v \in 0..m : Contains(Words(g.refs[i][1], v), g.refs[i][2])
      BY <2>1 DEF GoodGraph, n
    <3>2. \A j \in 1..k : j \in 1..(k + 1)
      OBVIOUS
    <3>3. refs[i] = g.refs[i]
      BY <1>6, <2>1
    <3>. QED
      BY <3>1, <3>2, <3>3, Zenon
  <2>2. CASE \E j \in 1..Len(D) : i = n + j
    <3>1. PICK j \in 1..Len(D) : i = n + j
      BY <2>2
    <3>2. refs[i][1] = o /\ refs[i][2] = D[j]
      BY <1>6, <3>1
    <3>3. o = Known[k + 1]
      BY DEF o
    <3>4. Contains(Words(refs[i][1], d.ver), refs[i][2])
      BY <1>3, <3>2
    <3>. QED
      BY <1>1, <3>2, <3>3, <3>4, Zenon
  <2>. QED
    BY <1>6, <2>1, <2>2
<1>8. ASSUME NEW i \in 1..Len(refs), NEW j \in 1..Len(refs),
             refs[i] = refs[j], KnownOnce(refs[i][1])
      PROVE  i = j
  <2>1. ASSUME NEW a \in 1..n, NEW b \in 1..Len(D), refs[a] = refs[n + b], KnownOnce(refs[a][1])
        PROVE  FALSE
    <3>1. PICK l \in 1..k : g.refs[a][1] = Known[l]
      BY DEF GoodGraph, n
    <3>2. refs[a][1] = Known[l] /\ refs[n + b][1] = Known[k + 1]
      <4>1. refs[n + b] = <<o, D[b]>> /\ refs[a] = g.refs[a]
        BY <1>6
      <4>2. refs[n + b][1] = o
        BY <4>1
      <4>. QED
        BY <3>1, <4>1, <4>2, Zenon DEF o
    <3>3. l \in 1..Len(Known) /\ k + 1 \in 1..Len(Known) /\ l # k + 1
      BY <1>1, KnownNumbers
    <3>. QED
      BY <2>1, <3>2, <3>3 DEF KnownOnce
  <2>2. CASE i \in 1..n /\ j \in 1..n
    <3>1. refs[i] = g.refs[i] /\ refs[j] = g.refs[j]
      BY <1>6, <2>2
    <3>. QED
      BY <1>8, <2>2, <3>1 DEF GoodGraph, n
  <2>3. CASE i \in 1..n /\ j \notin 1..n
    BY <1>6, <1>8, <2>1, <2>3
  <2>4. CASE i \notin 1..n /\ j \in 1..n
    BY <1>6, <1>8, <2>1, <2>4
  <2>5. CASE i \notin 1..n /\ j \notin 1..n
    <3>1. PICK a \in 1..Len(D), b \in 1..Len(D) : i = n + a /\ j = n + b
      BY <1>6, <2>5
    <3>2. refs[i] = <<o, D[a]>> /\ refs[j] = <<o, D[b]>>
      BY <1>6, <3>1
    <3>3. refs[i][2] = D[a] /\ refs[j][2] = D[b]
      BY <3>2
    <3>4. D[a] = D[b]
      BY <1>8, <3>3, Zenon
    <3>. QED
      BY <1>3, <3>1, <3>4
  <2>. QED
    BY <2>2, <2>3, <2>4, <2>5
<1>9. {r[2] : r \in Range(refs)} = {r[2] : r \in Range(g.refs)} \cup Range(D)
  <2>1. DOMAIN g.refs = 1..n
    BY <1>5 DEF n
  <2>2. DOMAIN refs = 1..Len(refs) /\ DOMAIN D = 1..Len(D)
    BY <1>3, <1>6
  <2>3. ASSUME NEW x, x \in {r[2] : r \in Range(refs)}
        PROVE  x \in {r[2] : r \in Range(g.refs)} \cup Range(D)
    <3>1. PICK i \in 1..Len(refs) : x = refs[i][2]
      BY <2>2, <2>3 DEF Range
    <3>2. CASE i \in 1..n
      BY <1>6, <2>1, <3>1, <3>2 DEF Range
    <3>3. CASE i \notin 1..n
      <4>1. PICK j \in 1..Len(D) : i = n + j
        BY <1>6, <3>3
      <4>2. x = D[j]
        BY <1>6, <3>1, <4>1
      <4>. QED
        BY <2>2, <4>2 DEF Range
    <3>. QED
      BY <3>2, <3>3
  <2>4. ASSUME NEW x, x \in {r[2] : r \in Range(g.refs)} PROVE x \in {r[2] : r \in Range(refs)}
    <3>1. PICK i \in 1..n : x = g.refs[i][2]
      BY <2>1, <2>4 DEF Range
    <3>2. x = refs[i][2] /\ i \in DOMAIN refs
      BY <1>6, <2>2, <3>1
    <3>. QED
      BY <3>2 DEF Range
  <2>5. ASSUME NEW x \in Range(D) PROVE x \in {r[2] : r \in Range(refs)}
    <3>1. PICK j \in 1..Len(D) : x = D[j]
      BY <2>2 DEF Range
    <3>2. x = refs[n + j][2] /\ n + j \in DOMAIN refs
      BY <1>6, <2>2, <3>1
    <3>. QED
      BY <3>2 DEF Range
  <2>. QED
    BY <2>3, <2>4, <2>5
<1>10. g.objects \cup Range(D) = Range(Known) \cup {r[2] : r \in Range(refs)}
  BY <1>9 DEF GoodGraph
<1>11. Range(D) \subseteq Nat
  BY <1>3 DEF Range
<1> DEFINE h == [objects |-> g.objects \cup Range(D), refs |-> refs]
<1>12. h \in GraphType /\ GoodGraph(h, k + 1, m)
  BY <1>5, <1>6, <1>7, <1>8, <1>10, <1>11 DEF GraphType, GoodGraph
<1>. QED
  BY <1>12 DEF D, R, o, refs

LEMMA GraphStaysGood ==
  ASSUME NEW g, NEW k \in Nat, NEW l \in Nat, k <= l, NEW m \in Nat, NEW w \in Nat, m <= w, GoodGraph(g, k, m)
  PROVE  GoodGraph(g, l, w)
<1>1. (1..k) \subseteq (1..l) /\ (0..m) \subseteq (0..w)
  OBVIOUS
<1>. QED
  BY <1>1, Zenon DEF GoodGraph

\* What an analysis has still to find are the last known objects, and those before
\* them have contributed.
Upcoming(ts) ==
  /\ Len(ts) <= Len(Known)
  /\ \A i \in 1..Len(ts) : ts[i] = Known[(Len(Known) - Len(ts)) + i]

GraphInv ==
  /\ medium <= MaxState
  /\ graph \in [Finders -> GraphType]
  /\ \A f \in Finders : Analyzing(f) =>
       Upcoming(todo[f]) /\ GoodGraph(graph[f], Len(Known) - Len(todo[f]), medium)

LEMMA GraphInvInit == LocInit => GraphInv
<1>1. NoGraph \in GraphType
  <2>1. <<>> \in Seq(Nat \X Nat)
    OBVIOUS
  <2>. QED
    BY <2>1 DEF NoGraph, GraphType
<1>. QED
  BY <1>1, KnownAssumption DEF LocInit, GraphInv, Analyzing

LEMMA UpcomingTail ==
  ASSUME NEW ts \in Seq(Nat), ts # <<>>, Upcoming(ts)
  PROVE  /\ Upcoming(Tail(ts)) /\ Len(Known) - Len(ts) \in Nat /\ Len(Known) - Len(ts) < Len(Known)
         /\ Len(Known) - Len(Tail(ts)) = (Len(Known) - Len(ts)) + 1
         /\ Head(ts) = Known[(Len(Known) - Len(ts)) + 1]
<1>1. Len(Known) \in Nat
  BY KnownNumbers
<1>2. /\ Len(ts) \in Nat \ {0} /\ Len(Tail(ts)) = Len(ts) - 1 /\ Head(ts) = ts[1]
      /\ \A i \in 1..(Len(ts) - 1) : Tail(ts)[i] = ts[i + 1]
  OBVIOUS
<1>3. Len(ts) <= Len(Known) /\ \A i \in 1..Len(ts) : ts[i] = Known[(Len(Known) - Len(ts)) + i]
  BY DEF Upcoming
<1>4. PICK n \in Nat, l \in Nat \ {0} : n = Len(Known) /\ l = Len(ts)
  BY <1>1, <1>2
<1>5. l <= n /\ n - l \in Nat /\ n - l < n /\ n - (l - 1) = (n - l) + 1 /\ l - 1 <= n /\ 1 \in 1..l
  BY <1>3, <1>4
<1>6. Len(Tail(ts)) = l - 1
  BY <1>2, <1>4
<1>7. ASSUME NEW i \in 1..Len(Tail(ts))
      PROVE  Tail(ts)[i] = Known[(Len(Known) - Len(Tail(ts))) + i]
  <2>1. i \in 1..(l - 1) /\ i + 1 \in 1..l /\ (n - l) + (i + 1) = (n - (l - 1)) + i
    BY <1>4, <1>6
  <2>2. Tail(ts)[i] = ts[i + 1] /\ ts[i + 1] = Known[(n - l) + (i + 1)]
    BY <1>2, <1>3, <1>4, <2>1
  <2>. QED
    BY <1>4, <1>6, <2>1, <2>2
<1>8. Head(ts) = Known[(n - l) + 1]
  BY <1>2, <1>3, <1>4, <1>5
<1>. QED
  BY <1>4, <1>5, <1>6, <1>7, <1>8 DEF Upcoming

LEMMA GraphInvNext ==
  ASSUME graph' \in [Finders -> GraphType], medium' <= MaxState,
         \A f \in Finders : graph'[f] # NoGraph =>
           Upcoming(todo'[f]) /\ GoodGraph(graph'[f], Len(Known) - Len(todo'[f]), medium')
  PROVE  GraphInv'
<1>1. \A f \in Finders : Analyzing(f)' =>
         Upcoming(todo[f])' /\ GoodGraph(graph'[f], Len(Known) - Len(todo'[f]), medium')
  BY DEF Analyzing, Upcoming
<1>. QED
  BY <1>1 DEF GraphInv, GoodGraph

\* The end of one lookup of an analysis, whether or not it contributes.
LEMMA Delivered ==
  ASSUME LocInv, GraphInv, NEW f \in Finders, at[f] # "idle", Finish(f), UNCHANGED medium,
         \/ UNCHANGED graph
         \/ \E d : /\ Deliver(f, d) /\ d.oid = Head(todo[f])
                   /\ d.ver \in Nat /\ d.ver <= medium
  PROVE  GraphInv'
<1>1. /\ todo[f] \in Seq(Nat) /\ todo[f] # <<>> /\ todo \in [Finders -> Seq(Nat)]
      /\ medium \in Nat /\ medium <= MaxState /\ MaxState \in Nat
  BY KnownAssumption DEF LocInv, LocTypeOK, GraphInv
<1>2. todo' = [todo EXCEPT ![f] = Tail(todo[f])]
  BY DEF Finish
<1>3. /\ todo'[f] = Tail(todo[f])
      /\ \A g \in Finders : g # f => todo'[g] = todo[g]
  BY <1>1, <1>2
<1> DEFINE k == Len(Known) - Len(todo[f])
           k1 == Len(Known) - Len(Tail(todo[f]))
<1>4. Analyzing(f) => /\ Upcoming(Tail(todo[f])) /\ k \in Nat /\ k < Len(Known) /\ k1 = k + 1
                      /\ Head(todo[f]) = Known[k + 1] /\ GoodGraph(graph[f], k, medium)
  BY <1>1, UpcomingTail DEF GraphInv
<1>5. graph \in [Finders -> GraphType]
  BY DEF GraphInv
<1>6. /\ graph' \in [Finders -> GraphType]
      /\ \A g \in Finders : g # f => graph'[g] = graph[g]
      /\ graph'[f] # NoGraph => Analyzing(f) /\ GoodGraph(graph'[f], k1, medium)
  <2>1. CASE UNCHANGED graph
    <3>1. Analyzing(f) => k1 \in Nat /\ k <= k1
      BY <1>4
    <3> HIDE DEF k, k1
    <3>2. Analyzing(f) => GoodGraph(graph[f], k1, medium)
      BY <1>1, <1>4, <3>1, GraphStaysGood
    <3>. QED
      BY <1>5, <2>1, <3>2 DEF Analyzing
  <2>2. ASSUME NEW d, Deliver(f, d), d.oid = Head(todo[f]), d.ver \in Nat, d.ver <= medium, ~ UNCHANGED graph
        PROVE  /\ graph' \in [Finders -> GraphType]
               /\ \A g \in Finders : g # f => graph'[g] = graph[g]
               /\ graph'[f] # NoGraph => Analyzing(f) /\ GoodGraph(graph'[f], k1, medium)
    <3>1. Analyzing(f)
      BY <2>2 DEF Deliver
    <3> DEFINE h == [objects |-> graph[f].objects \cup Range(Dependencies(d)),
                     refs |-> graph[f].refs \o Refs(Known[k + 1], d)]
    <3>2. graph' = [graph EXCEPT ![f] = h]
      BY <1>4, <2>2, <3>1 DEF Deliver
    <3>3. medium \in 0..MaxState /\ d.ver \in 0..medium /\ d.oid = Known[k + 1] /\ graph[f] \in GraphType
      BY <1>1, <1>4, <1>5, <2>2, <3>1
    <3>4. k \in Nat /\ k < Len(Known) /\ GoodGraph(graph[f], k, medium) /\ k1 = k + 1
      BY <1>4, <3>1
    <3> HIDE DEF k, k1
    <3>5. h \in GraphType /\ GoodGraph(h, k + 1, medium)
      BY <3>3, <3>4, GraphGrows
    <3> HIDE DEF h
    <3>. QED
      BY <1>5, <3>1, <3>2, <3>4, <3>5
  <2>. QED
    BY <2>1, <2>2
<1>7. ASSUME NEW g \in Finders, graph'[g] # NoGraph
      PROVE  Upcoming(todo'[g]) /\ GoodGraph(graph'[g], Len(Known) - Len(todo'[g]), medium)
  <2>1. CASE g = f
    BY <1>3, <1>4, <1>6, <1>7, <2>1
  <2>2. CASE g # f
    <3>1. graph'[g] = graph[g] /\ todo'[g] = todo[g]
      BY <1>3, <1>6, <2>2
    <3>2. Analyzing(g)
      BY <1>7, <3>1 DEF Analyzing
    <3>. QED
      BY <3>1, <3>2 DEF GraphInv
  <2>. QED
    BY <2>1, <2>2
<1>. QED
  BY <1>1, <1>6, <1>7, GraphInvNext

LEMMA GraphInvStep == LocInv /\ GraphInv /\ [LocNext]_locVars => GraphInv'
<1> SUFFICES ASSUME LocInv, GraphInv, [LocNext]_locVars PROVE GraphInv'
  OBVIOUS
<1>0. /\ graph \in [Finders -> GraphType] /\ todo \in [Finders -> Seq(Nat)]
      /\ medium \in Nat /\ medium <= MaxState /\ MaxState \in Nat
  BY KnownAssumption DEF GraphInv, LocInv, LocTypeOK
<1>1. ASSUME NEW f \in Finders, FindObjectByID(f) PROVE GraphInv'
  <2>1. /\ graph' = [graph EXCEPT ![f] = NoGraph] /\ UNCHANGED medium
        /\ \A g \in Finders : g # f => todo'[g] = todo[g]
    BY <1>0, <1>1 DEF FindObjectByID
  <2>2. NoGraph \in GraphType
    <3>1. <<>> \in Seq(Nat \X Nat)
      OBVIOUS
    <3>. QED
      BY <3>1 DEF NoGraph, GraphType
  <2>3. /\ graph' \in [Finders -> GraphType] /\ graph'[f] = NoGraph
        /\ \A g \in Finders : g # f => graph'[g] = graph[g]
    BY <1>0, <2>1, <2>2
  <2>. QED
    <3>1. \A g \in Finders : g # f /\ graph'[g] # NoGraph =>
            /\ Upcoming(todo'[g])
            /\ GoodGraph(graph'[g], Len(Known) - Len(todo'[g]), medium')
      BY <2>1, <2>3 DEF GraphInv, Analyzing
    <3>. QED
      BY <1>0, <2>1, <2>3, <3>1, GraphInvNext
<1>2. ASSUME NEW f \in Finders, AnalyzeObjectReferences(f) PROVE GraphInv'
  <2> DEFINE h == [objects |-> Range(Known), refs |-> <<>>]
  <2>1. /\ graph' = [graph EXCEPT ![f] = h] /\ UNCHANGED medium
        /\ todo' = [todo EXCEPT ![f] = Known]
    BY <1>2 DEF AnalyzeObjectReferences
  <2>2. h \in GraphType /\ GoodGraph(h, 0, medium)
    <3>1. <<>> \in Seq(Nat \X Nat) /\ Len(<<>>) = 0 /\ 1..0 = {} /\ h.refs = <<>> /\ h.objects = Range(Known)
      OBVIOUS
    <3>2. Range(h.refs) = {}
      BY <3>1 DEF Range
    <3>. QED
      BY <3>1, <3>2, KnownNumbers DEF GraphType, GoodGraph
  <2> HIDE DEF h
  <2>3. Len(Known) - Len(Known) = 0 /\ Upcoming(Known)
    BY KnownNumbers DEF Upcoming
  <2>4. /\ graph' \in [Finders -> GraphType] /\ graph'[f] = h /\ todo'[f] = Known
        /\ \A g \in Finders : g # f => graph'[g] = graph[g] /\ todo'[g] = todo[g]
    BY <1>0, <2>1, <2>2
  <2>5. ASSUME NEW g \in Finders, graph'[g] # NoGraph
        PROVE  Upcoming(todo'[g]) /\ GoodGraph(graph'[g], Len(Known) - Len(todo'[g]), medium)
    <3>1. CASE g = f
      BY <2>2, <2>3, <2>4, <3>1
    <3>2. CASE g # f
      BY <2>4, <2>5, <3>2 DEF GraphInv, Analyzing
    <3>. QED
      BY <3>1, <3>2
  <2>. QED
    BY <1>0, <2>1, <2>4, <2>5, GraphInvNext
<1>3. ASSUME NEW f \in Finders, FindFails(f) PROVE GraphInv'
  <2>1. Finish(f) /\ at[f] # "idle" /\ UNCHANGED <<medium, graph>>
    BY <1>3 DEF FindFails
  <2>. QED
    BY <2>1, Delivered
<1>4. ASSUME NEW f \in Finders, Hit(f) PROVE GraphInv'
  <2> DEFINE d == cache[Head(todo[f])]
  <2>1. Finish(f) /\ at[f] # "idle" /\ UNCHANGED medium /\ Deliver(f, d)
    BY <1>4 DEF Hit, Deliver
  <2>2. d.oid = Head(todo[f]) /\ d.ver \in Nat /\ d.ver <= medium
    BY <1>4 DEF Hit, LocInv, LocTypeOK, CachedIsOwn
  <2>. QED
    BY <2>1, <2>2, Delivered
<1>5. ASSUME NEW f \in Finders, Store(f) PROVE GraphInv'
  <2>1. Finish(f) /\ at[f] = "store" /\ UNCHANGED medium /\ Deliver(f, data[f])
    BY <1>5 DEF Store, Deliver
  <2>2. data[f].oid = Head(todo[f]) /\ data[f].ver \in Nat /\ data[f].ver <= medium
    BY <2>1 DEF LocInv, LocTypeOK
  <2>. QED
    BY <2>1, <2>2, Delivered
<1>6. ASSUME NEW f \in Finders, Miss(f) \/ ReadObject(f) PROVE GraphInv'
  <2>1. UNCHANGED <<medium, todo, graph>>
    BY <1>6 DEF Miss, ReadObject
  <2>2. \A g \in Finders : graph'[g] # NoGraph =>
          Upcoming(todo'[g]) /\ GoodGraph(graph'[g], Len(Known) - Len(todo'[g]), medium')
    BY <2>1 DEF GraphInv, Analyzing
  <2>. QED
    BY <1>0, <2>1, <2>2, GraphInvNext
<1>7. CASE MediumWritten
  <2>1. medium' = medium + 1 /\ medium < MaxState /\ UNCHANGED <<todo, graph>>
    BY <1>7 DEF MediumWritten
  <2>2. medium' \in Nat /\ medium <= medium' /\ medium' <= MaxState
    BY <1>0, <2>1
  <2>3. ASSUME NEW g \in Finders, Analyzing(g)
        PROVE  Upcoming(todo[g]) /\ GoodGraph(graph[g], Len(Known) - Len(todo[g]), medium')
    <3>1. Upcoming(todo[g]) /\ GoodGraph(graph[g], Len(Known) - Len(todo[g]), medium)
      BY <2>3 DEF GraphInv
    <3>2. Len(todo[g]) \in Nat /\ Len(Known) \in Nat /\ Len(todo[g]) <= Len(Known)
      BY <1>0, <3>1, KnownNumbers DEF Upcoming
    <3>3. ASSUME NEW a \in Nat, NEW b \in Nat, a <= b PROVE b - a \in Nat /\ b - a <= b - a
      BY <3>3
    <3>4. PICK k \in Nat : k = Len(Known) - Len(todo[g]) /\ k <= k
      BY <3>2, <3>3, Zenon
    <3>. QED
      BY <1>0, <2>2, <3>1, <3>4, GraphStaysGood
  <2>. QED
    <3>1. \A g \in Finders : graph'[g] # NoGraph =>
            Upcoming(todo'[g]) /\ GoodGraph(graph'[g], Len(Known) - Len(todo'[g]), medium')
      BY <2>1, <2>3 DEF Analyzing
    <3>. QED
      BY <1>0, <2>1, <2>2, <3>1, GraphInvNext
<1>8. CASE UNCHANGED locVars
  <2>1. UNCHANGED <<medium, todo, graph>>
    BY <1>8 DEF locVars
  <2>2. \A g \in Finders : graph'[g] # NoGraph =>
          Upcoming(todo'[g]) /\ GoodGraph(graph'[g], Len(Known) - Len(todo'[g]), medium')
    BY <2>1 DEF GraphInv, Analyzing
  <2>. QED
    BY <1>0, <2>1, <2>2, GraphInvNext
<1>. QED
  BY <1>1, <1>2, <1>3, <1>4, <1>5, <1>6, <1>7, <1>8 DEF LocNext, LocStep

LEMMA GoodGraphsAreSound == GraphInv => GraphIsSound
<1> SUFFICES ASSUME GraphInv, NEW f \in Finders, Analyzing(f)
             PROVE  /\ \A i, j \in 1..Len(graph[f].refs) :
                         graph[f].refs[i] = graph[f].refs[j] /\ KnownOnce(graph[f].refs[i][1]) => i = j
                    /\ \A r \in Range(graph[f].refs) :
                         /\ Contains(Known, r[1])
                         /\ \E v \in 0..medium : Contains(Words(r[1], v), r[2])
                    /\ graph[f].objects = Range(Known) \cup {r[2] : r \in Range(graph[f].refs)}
                    /\ Orphans(graph[f]) = {}
  BY DEF GraphIsSound
<1> DEFINE k == Len(Known) - Len(todo[f])
<1>1. /\ GoodGraph(graph[f], k, medium) /\ graph[f] \in GraphType
      /\ Upcoming(todo[f])
  BY DEF GraphInv
<1>2. DOMAIN graph[f].refs = 1..Len(graph[f].refs)
  BY <1>1 DEF GraphType
<1>3. \A j \in 1..k : j \in 1..Len(Known)
  <2>1. Len(Known) \in Nat
    BY KnownNumbers
  <2>. QED
    BY <2>1 DEF Upcoming
<1> HIDE DEF k
<1>4. \A i \in 1..Len(graph[f].refs) :
        /\ Contains(Known, graph[f].refs[i][1])
        /\ \E v \in 0..medium : Contains(Words(graph[f].refs[i][1], v), graph[f].refs[i][2])
  <2> SUFFICES ASSUME NEW i \in 1..Len(graph[f].refs)
               PROVE  /\ Contains(Known, graph[f].refs[i][1])
                      /\ \E v \in 0..medium : Contains(Words(graph[f].refs[i][1], v), graph[f].refs[i][2])
    OBVIOUS
  <2>1. PICK j \in 1..k : graph[f].refs[i][1] = Known[j]
    BY <1>1 DEF GoodGraph
  <2>2. Contains(Known, graph[f].refs[i][1])
    BY <1>3, <2>1 DEF Contains
  <2>. QED
    BY <1>1, <2>2 DEF GoodGraph
<1>5. \A r \in Range(graph[f].refs) : \E i \in 1..Len(graph[f].refs) : r = graph[f].refs[i]
  BY <1>2 DEF Range
<1>6. graph[f].objects = Range(Known) \cup {r[2] : r \in Range(graph[f].refs)}
  BY <1>1 DEF GoodGraph
<1>7. Orphans(graph[f]) = {}
  BY <1>6 DEF Orphans
<1>. QED
  BY <1>1, <1>4, <1>5, <1>6, <1>7, Zenon DEF GoodGraph

\* Whatever number of goroutines share the locator's cache while the medium is
\* written: an object is cached under its own OID, stays what it was once nobody
\* reads it any more, and a reference graph names known objects, words of their
\* blocks and nothing else.
THEOREM LocatorHandsOutItsOwn == LocInit /\ [][LocNext]_locVars => LocatorIsSound
<1> DEFINE Settles == \A o \in Objects \cup Range(Known), v \in 0..MaxState : Settled(o, v) => Settled(o, v)'
<1>1. LocInit => LocInv /\ GraphInv
  BY LocInvInit, GraphInvInit
<1>2. LocInv /\ GraphInv /\ [LocNext]_locVars => (LocInv /\ GraphInv)'
  BY LocInvStep, GraphInvStep
<1>3. LocInv /\ GraphInv => CachedIsOwn /\ GraphIsSound
  BY GoodGraphsAreSound DEF LocInv
<1>4. LocInv /\ [LocNext]_locVars => [Settles]_locVars
  BY SettledStays
<1>. QED
  BY <1>1, <1>2, <1>3, <1>4, PTL DEF LocatorIsSound, LocatedObjectsSettle

-----------------------------------------------------------------------------
(* JumpstartLocator.                                                       *)

LEMMA JumpNumbers ==
  ASSUME jdisk \in JumpDisks
  PROVE  /\ sb.index \in Nat /\ sb.next \in Nat /\ descBase \in Nat /\ areaBlocks \in Nat
         /\ \A a : At(a).count \in Nat /\ Len(At(a).maps) \in Nat
<1>1. /\ sb.index \in Nat /\ sb.next \in Nat /\ sb.base \in Nat /\ sb.blocks \in Nat
      /\ \A a \in DOMAIN jdisk.at : jdisk.at[a].count \in Nat /\ Len(jdisk.at[a].maps) \in Nat
      /\ DefaultBase \in Nat /\ DefaultBlocks \in Nat /\ FlagBit \in Nat \ {0}
  BY LocatorAssumption DEF sb
<1>2. sb.blocks % FlagBit \in Nat
  BY <1>1, Division
<1>3. NoBlock.count = 0 /\ NoBlock.maps = <<>> /\ Len(<<>>) = 0
  BY DEF NoBlock
<1>. QED
  BY <1>1, <1>2, <1>3 DEF descBase, areaBlocks, At

\* The first mapping of a type is one that is stored.
LEMMA FirstIsStored ==
  ASSUME NEW b, b.count \in Nat, NEW type, type # "other", Named(b, type) # {}
  PROVE  \E i \in 1..Len(b.maps) : First(b, type) = b.maps[i].paddr
<1> DEFINE N == Named(b, type)
           f == CHOOSE k \in N : \A j \in N : k <= j
<1>1. N \subseteq 1..b.count /\ N \subseteq Nat /\ \A k \in N : CpmMap(b)[k].type = type
  BY DEF Named
<1>2. \E k \in N : \A j \in N : k <= j
  <2> HIDE DEF N
  <2>. QED
    BY <1>1, NatHasMin DEF N
<1>3. f \in N
  <2> HIDE DEF N
  <2>. QED
    BY <1>2
<1>4. First(b, type) = CpmMap(b)[f].paddr
  BY DEF First
<1> HIDE DEF N, f
<1>5. f \in 1..b.count /\ CpmMap(b)[f].type = type /\ CpmMap(b)[f] = Mapping(b, f)
  BY <1>1, <1>3 DEF CpmMap
<1> DEFINE q == (f - 1) * MappingStride
           i == (q \div MappingSize) + 1
<1>6. Mapping(b, f) = IF q % MappingSize = 0 /\ i <= Len(b.maps) THEN b.maps[i] ELSE [type |-> "other", paddr |-> 0]
  BY DEF Mapping
<1>7. i \in Nat /\ i >= 1
  BY <1>5 DEF MappingStride, MappingSize
<1> HIDE DEF q, i
<1>8. i <= Len(b.maps) /\ Mapping(b, f) = b.maps[i]
  BY <1>5, <1>6
<1>. QED
  BY <1>4, <1>5, <1>7, <1>8

LEMMA FollowersAreAddresses ==
  ASSUME jdisk \in JumpDisks, NEW a
  PROVE  \A x : Succ(x) \subseteq Addresses(a)
<1> SUFFICES ASSUME NEW x, Succ(x) # {} PROVE Succ(x) \subseteq Addresses(a)
  OBVIOUS
<1>1. /\ Named(At(x), "map") # {} /\ ~At(x).last /\ Succ(x) = {First(At(x), "map")}
  BY DEF Succ
<1>2. x \in Where
  BY <1>1 DEF At, NoBlock, Where
<1>3. PICK i \in 1..Len(At(x).maps) : First(At(x), "map") = At(x).maps[i].paddr
  BY <1>1, JumpNumbers, FirstIsStored
<1>. QED
  BY <1>1, <1>2, <1>3 DEF Addresses

\* A chain is closed, and the least set that is.
LEMMA ChainIsClosed ==
  ASSUME jdisk \in JumpDisks, NEW a
  PROVE  /\ a \in ChainFrom(a)
         /\ \A x \in ChainFrom(a) : Succ(x) \subseteq ChainFrom(a)
<1>1. ASSUME NEW x \in ChainFrom(a), NEW y \in Succ(x) PROVE y \in ChainFrom(a)
  <2>1. y \in Addresses(a)
    BY FollowersAreAddresses
  <2>2. ASSUME NEW S \in SUBSET Addresses(a), a \in S, \A z \in S : Succ(z) \subseteq S
        PROVE  y \in S
    <3>1. x \in S
      BY <2>2 DEF ChainFrom
    <3>. QED
      BY <2>2, <3>1
  <2>. QED
    BY <2>1, <2>2 DEF ChainFrom
<1>. QED
  BY <1>1 DEF ChainFrom, Addresses

LEMMA ChainIsLeast ==
  ASSUME NEW a, NEW S, S \subseteq Addresses(a), a \in S, \A x \in S : Succ(x) \subseteq S
  PROVE  ChainFrom(a) \subseteq S
BY DEF ChainFrom

\* A chain has one end at most: only there can a jumpstart be named.
LEMMA OneEnd ==
  ASSUME jdisk \in JumpDisks, NEW a, NEW e \in ChainFrom(a), NEW f \in ChainFrom(a),
         Succ(e) = {}, Succ(f) = {}
  PROVE  e = f
<1> DEFINE S == {x \in Addresses(a) : e \in ChainFrom(x)} \cup {e}
<1>1. e \in Addresses(a) /\ a \in Addresses(a) /\ f \in Addresses(a)
  BY DEF ChainFrom, Addresses
<1>2. ASSUME NEW x \in S, NEW y \in Succ(x) PROVE y \in S
  <2>1. x # e /\ e \in ChainFrom(x)
    BY <1>2
  <2>2. y \in Addresses(a)
    BY FollowersAreAddresses
  <2> DEFINE T == {z \in Addresses(x) : z = x \/ z \in ChainFrom(y)}
  <2>3. T \subseteq Addresses(x) /\ x \in T
    BY DEF Addresses
  <2>4. Succ(x) = {y}
    BY <1>2 DEF Succ
  <2>5. ASSUME NEW z \in T PROVE Succ(z) \subseteq T
    <3>1. Succ(z) \subseteq Addresses(x)
      BY FollowersAreAddresses
    <3>2. Succ(z) \subseteq ChainFrom(y)
      BY <2>4, <2>5, ChainIsClosed
    <3>. QED
      BY <3>1, <3>2
  <2>6. ChainFrom(x) \subseteq T
    <3> HIDE DEF T
    <3>. QED
      BY <2>3, <2>5, ChainIsLeast
  <2>7. e \in ChainFrom(y)
    BY <2>1, <2>6
  <2>. QED
    BY <2>2, <2>7
<1>3. ChainFrom(a) \subseteq S
  <2>1. S \subseteq Addresses(a) /\ a \in S
    BY <1>1
  <2> HIDE DEF S
  <2>. QED
    BY <1>2, <2>1, ChainIsLeast
<1>4. ChainFrom(f) \subseteq {f}
  <2> DEFINE T == {f}
  <2>1. T \subseteq Addresses(f) /\ f \in T /\ \A x \in T : Succ(x) \subseteq T
    BY DEF Addresses
  <2>2. ChainFrom(f) \subseteq T
    <3> HIDE DEF T
    <3>. QED
      BY <2>1, ChainIsLeast
  <2>. QED
    BY <2>2
<1>. QED
  BY <1>3, <1>4

LatestSeen == descBase + latestIndex
Indexed == descBase + sb.index
Signature(a) == At(a).readable /\ At(a).signature
NoneNamed == \A a \in ChainFrom(Start) : Named(At(a), "jumpstart") # {} => First(At(a), "jumpstart") = 0

\* What the locator knows at stage s, looking at block b.
StageOK(s, b) ==
  /\ s \in {"start", "latest", "indexed", "maps", "chain", "scan"}
  /\ s # "start" => /\ sb.jumpstart = 0
                    /\ latestIndex \in 0..(areaBlocks - 1) /\ sb.index \in 0..(areaBlocks - 1)
  /\ s = "latest" => b = LatestSeen
  /\ s = "indexed" => b = Indexed
  /\ s \in {"indexed", "maps"} => MapRead(LatestSeen) /\ ~Usable(LatestSeen)
  /\ s = "maps" => /\ MapRead(Indexed) /\ ~Usable(Indexed)
                   /\ b \in 0..areaBlocks /\ \A i \in 0..(b - 1) : ~Usable(descBase + i)
  /\ s = "chain" => b \in ChainFrom(Start)
  /\ s \in {"chain", "scan"} => MapRead(LatestSeen) /\ (~Usable(LatestSeen) => MapRead(Indexed))
  /\ s = "scan" => /\ Start # 0 => NoneNamed
                   /\ b \in 0..ScanBlocks /\ \A a \in 0..(b - 1) : ~Signature(a)

\* And what an end of the search says.
EndOK(l, q) ==
  /\ l = "found" =>
       /\ stage \in {"start", "chain", "scan"}
       /\ stage = "chain" => Named(At(block), "jumpstart") # {} /\ q = First(At(block), "jumpstart")
       /\ stage = "scan" => q = block
  /\ l = "absent" /\ ~At(0).signature => \A a \in 1..(ScanBlocks - 1) : ~Signature(a)

JumpInv ==
  /\ jdisk \in JumpDisks /\ uuid \in Partitions
  /\ StageOK(stage, block) /\ EndOK(located, paddr)

LEMMA SameDisk ==
  ASSUME jdisk' = jdisk
  PROVE  /\ \A a : At(a)' = At(a) /\ Signature(a)' = Signature(a)
         /\ \A s, b : StageOK(s, b)' = StageOK(s, b)
<1>1. \A a : At(a)' = At(a)
  BY DEF At
<1>2. sb' = sb /\ descBase' = descBase /\ areaBlocks' = areaBlocks /\ latestIndex' = latestIndex
      /\ LatestSeen' = LatestSeen /\ Indexed' = Indexed /\ Area' = Area
  BY DEF sb, descBase, areaBlocks, latestIndex, LatestSeen, Indexed, Area
<1>3. \A a : MapRead(a)' = MapRead(a) /\ Usable(a)' = Usable(a)
  BY <1>1 DEF MapRead, Usable
<1>4. Start' = Start
  <2>1. {u \in Area : Usable(u)}' = {u \in Area : Usable(u)}
    BY <1>2, <1>3
  <2> DEFINE U == {u \in Area : Usable(u)}
  <2>2. Start = IF Usable(LatestSeen) THEN LatestSeen ELSE IF Usable(Indexed) THEN Indexed
                ELSE IF U = {} THEN 0 ELSE CHOOSE u \in U : \A v \in U : u <= v
    BY DEF Start, LatestSeen, Indexed
  <2>3. Start' = IF Usable(LatestSeen)' THEN LatestSeen' ELSE IF Usable(Indexed)' THEN Indexed'
                 ELSE IF U' = {} THEN 0 ELSE CHOOSE u \in U' : \A v \in U' : u <= v
    BY DEF Start, LatestSeen, Indexed
  <2>4. U' = U
    BY <2>1
  <2> HIDE DEF U
  <2>. QED
    BY <1>2, <1>3, <2>2, <2>3, <2>4
<1>5. \A a : Succ(a)' = Succ(a)
  BY <1>1 DEF Succ
<1>6. \A a : Addresses(a)' = Addresses(a)
  BY <1>1 DEF Addresses, Where
<1>7. \A a : ChainFrom(a)' = ChainFrom(a)
  BY <1>5, <1>6 DEF ChainFrom
<1>8. NoneNamed' = NoneNamed
  BY <1>1, <1>4, <1>7 DEF NoneNamed
<1>9. \A a : Signature(a)' = Signature(a)
  BY <1>1 DEF Signature
<1>. QED
  BY <1>1, <1>2, <1>3, <1>4, <1>7, <1>8, <1>9 DEF StageOK

LEMMA GoesOn ==
  ASSUME JumpInv, located = "searching", NEW s, NEW b, Go(s, b), StageOK(s, b)
  PROVE  JumpInv'
<1>1. /\ UNCHANGED <<jdisk, uuid>> /\ stage' = s /\ block' = b /\ located' = "searching"
  BY DEF Go
<1>2. StageOK(stage, block)'
  BY <1>1, SameDisk
<1>. QED
  BY <1>1, <1>2 DEF JumpInv, EndOK

LEMMA Ends ==
  ASSUME JumpInv, NEW l, NEW q, End(l, q), EndOK(l, q)
  PROVE  JumpInv'
<1>1. UNCHANGED <<jdisk, uuid, stage, block>> /\ located' = l /\ paddr' = q
  BY DEF End
<1>2. StageOK(stage, block)'
  BY <1>1, SameDisk DEF JumpInv
<1>3. EndOK(located, paddr)'
  BY <1>1, SameDisk DEF EndOK
<1>. QED
  BY <1>1, <1>2, <1>3 DEF JumpInv

LEMMA StartIs ==
  ASSUME jdisk \in JumpDisks
  PROVE  /\ Usable(LatestSeen) => Start = LatestSeen
         /\ ~Usable(LatestSeen) /\ Usable(Indexed) => Start = Indexed
         /\ ~Usable(LatestSeen) /\ ~Usable(Indexed) =>
              /\ \A i \in 0..(areaBlocks - 1) :
                   Usable(descBase + i) /\ (\A j \in 0..(i - 1) : ~Usable(descBase + j)) => Start = descBase + i
              /\ (\A i \in 0..(areaBlocks - 1) : ~Usable(descBase + i)) => Start = 0
<1>1. descBase \in Nat /\ areaBlocks \in Nat
  BY JumpNumbers
<1>2. /\ Usable(LatestSeen) => Start = LatestSeen
      /\ ~Usable(LatestSeen) /\ Usable(Indexed) => Start = Indexed
      /\ ~Usable(LatestSeen) /\ ~Usable(Indexed) =>
           Start = IF {u \in Area : Usable(u)} = {} THEN 0
                   ELSE CHOOSE u \in {w \in Area : Usable(w)} : \A v \in {w \in Area : Usable(w)} : u <= v
  BY DEF Start, LatestSeen, Indexed
<1>3. ASSUME NEW i \in 0..(areaBlocks - 1), Usable(descBase + i),
             \A j \in 0..(i - 1) : ~Usable(descBase + j)
      PROVE  /\ {u \in Area : Usable(u)} # {}
             /\ (CHOOSE u \in {w \in Area : Usable(w)} : \A v \in {w \in Area : Usable(w)} : u <= v) = descBase + i
  <2> DEFINE U == {u \in Area : Usable(u)}
  <2>1. descBase + i \in U
    BY <1>3 DEF Area
  <2>2. ASSUME NEW v \in U PROVE descBase + i <= v /\ v \in Int
    <3>1. PICK j \in 0..(areaBlocks - 1) : v = descBase + j
      BY DEF Area
    <3>2. ~(j \in 0..(i - 1))
      BY <1>3, <3>1
    <3>. QED
      BY <1>1, <3>1, <3>2
  <2> HIDE DEF U
  <2>3. (CHOOSE u \in U : \A v \in U : u <= v) = descBase + i
    <3>1. \A u \in U : (\A v \in U : u <= v) => u = descBase + i
      BY <1>1, <2>1, <2>2
    <3>2. \E u \in U : \A v \in U : u <= v
      BY <2>1, <2>2
    <3>. QED
      BY <3>1, <3>2
  <2>. QED
    BY <2>1, <2>3 DEF U
<1>4. ASSUME \A i \in 0..(areaBlocks - 1) : ~Usable(descBase + i)
      PROVE  {u \in Area : Usable(u)} = {}
  BY <1>4 DEF Area
<1>. QED
  BY <1>2, <1>3, <1>4

LEMMA JumpInvInit == JumpInit => JumpInv
BY DEF JumpInit, JumpInv, StageOK, EndOK

\* The maps have been searched: what follows the end of the chain is a scan.
LEMMA ChainEnds ==
  ASSUME JumpInv, stage = "chain", Succ(block) = {},
         Named(At(block), "jumpstart") # {} => First(At(block), "jumpstart") = 0
  PROVE  NoneNamed
<1>1. block \in ChainFrom(Start) /\ jdisk \in JumpDisks
  BY DEF JumpInv, StageOK
<1>2. ASSUME NEW a \in ChainFrom(Start), Named(At(a), "jumpstart") # {} PROVE a = block
  <2>1. Succ(a) = {}
    BY <1>2 DEF Succ
  <2>. QED
    BY <1>1, <2>1, OneEnd
<1>. QED
  BY <1>2 DEF NoneNamed

LEMMA JumpInvStep == JumpInv /\ [JumpNext]_jumpVars => JumpInv'
<1> SUFFICES ASSUME JumpInv, [JumpNext]_jumpVars PROVE JumpInv'
  OBVIOUS
<1>1. /\ jdisk \in JumpDisks /\ StageOK(stage, block) /\ EndOK(located, paddr)
      /\ sb.index \in Nat /\ sb.next \in Nat /\ descBase \in Nat /\ areaBlocks \in Nat
      /\ ScanBlocks \in Nat \ {0}
  BY JumpNumbers, LocatorAssumption DEF JumpInv
<1>2. ASSUME NEW q, End("error", q) PROVE JumpInv'
  <2>1. EndOK("error", q)
    BY DEF EndOK
  <2>. QED
    BY <1>2, <2>1, Ends
<1>3. CASE FindEFIJumpstartInPartition
  <2>1. ~(uuid = "apfs" /\ uuid \in ListEFIPartitions)
    BY DEF ListEFIPartitions
  <2>. QED
    BY <1>2, <1>3, <2>1 DEF FindEFIJumpstartInPartition
<1>4. CASE SuperblockFails \/ IndicesFail \/ MapFails
  BY <1>2, <1>4 DEF SuperblockFails, IndicesFail, MapFails
<1>5. CASE SuperblockNames
  <2>1. stage = "start" /\ End("found", sb.jumpstart)
    BY <1>5 DEF SuperblockNames, AskedDisk, In
  <2>2. EndOK("found", sb.jumpstart)
    BY <2>1 DEF EndOK
  <2>. QED
    BY <2>1, <2>2, Ends
<1>6. CASE SearchCheckpoints
  <2>1. /\ located = "searching" /\ sb.jumpstart = 0 /\ Go("latest", LatestSeen)
        /\ sb.index < areaBlocks /\ sb.next < areaBlocks
    BY <1>1, <1>6 DEF SearchCheckpoints, AskedDisk, In, IndicesBad, LatestSeen
  <2>2. latestIndex \in 0..(areaBlocks - 1) /\ sb.index \in 0..(areaBlocks - 1)
    BY <1>1, <2>1 DEF latestIndex
  <2>3. StageOK("latest", LatestSeen)
    BY <2>1, <2>2 DEF StageOK
  <2>. QED
    BY <2>1, <2>3, GoesOn
<1>7. CASE MapValid
  <2>1. /\ located = "searching" /\ stage \in {"latest", "indexed"} /\ Go("chain", block)
        /\ Usable(block) /\ MapRead(block)
    BY <1>7 DEF MapValid, In, Usable
  <2>2. Start = block /\ MapRead(LatestSeen) /\ (~Usable(LatestSeen) => MapRead(Indexed))
    BY <1>1, <2>1, StartIs DEF StageOK
  <2>3. block \in ChainFrom(Start)
    BY <1>1, <2>2, ChainIsClosed
  <2>4. StageOK("chain", block)
    BY <1>1, <2>1, <2>2, <2>3 DEF StageOK
  <2>. QED
    BY <2>1, <2>4, GoesOn
<1>8. CASE LatestInvalid
  <2>1. /\ located = "searching" /\ stage = "latest" /\ Go("indexed", Indexed)
        /\ MapRead(block) /\ ~Usable(block)
    BY <1>8 DEF LatestInvalid, In, Usable, Indexed
  <2>2. StageOK("indexed", Indexed)
    BY <1>1, <2>1 DEF StageOK
  <2>. QED
    BY <2>1, <2>2, GoesOn
<1>9. CASE IndexedInvalid
  <2>1. /\ located = "searching" /\ stage = "indexed" /\ Go("maps", 0)
        /\ MapRead(block) /\ ~Usable(block)
    BY <1>9 DEF IndexedInvalid, In, Usable
  <2>2. 0 \in 0..areaBlocks /\ \A i \in 0..(0 - 1) : ~Usable(descBase + i)
    BY <1>1
  <2>3. StageOK("maps", 0)
    BY <1>1, <2>1, <2>2 DEF StageOK
  <2>. QED
    BY <2>1, <2>3, GoesOn
<1>10. CASE ScanMap
  <2>1. /\ located = "searching" /\ stage = "maps" /\ block < areaBlocks
        /\ IF Usable(descBase + block) THEN Go("chain", descBase + block) ELSE Go("maps", block + 1)
    BY <1>10 DEF ScanMap, In
  <2>2. /\ block \in 0..(areaBlocks - 1) /\ \A i \in 0..(block - 1) : ~Usable(descBase + i)
        /\ ~Usable(LatestSeen) /\ ~Usable(Indexed) /\ MapRead(LatestSeen) /\ MapRead(Indexed)
    BY <1>1, <2>1 DEF StageOK
  <2>3. CASE Usable(descBase + block)
    <3>1. Start = descBase + block
      BY <1>1, <2>2, <2>3, StartIs
    <3>2. descBase + block \in ChainFrom(Start)
      BY <1>1, <3>1, ChainIsClosed
    <3>3. StageOK("chain", descBase + block)
      BY <1>1, <2>1, <2>2, <3>2 DEF StageOK
    <3>. QED
      BY <2>1, <2>3, <3>3, GoesOn
  <2>4. CASE ~Usable(descBase + block)
    <3>1. block + 1 \in 0..areaBlocks /\ \A i \in 0..((block + 1) - 1) : ~Usable(descBase + i)
      <4>1. \A i \in 0..((block + 1) - 1) : i \in 0..(block - 1) \/ i = block
        BY <1>1, <2>2
      <4>. QED
        BY <1>1, <2>2, <2>4, <4>1
    <3>2. StageOK("maps", block + 1)
      BY <1>1, <2>1, <2>2, <3>1 DEF StageOK
    <3>. QED
      BY <2>1, <2>4, <3>2, GoesOn
  <2>. QED
    BY <2>3, <2>4
<1>11. ASSUME located = "searching", stage \in {"maps", "chain"}, Start # 0 => NoneNamed, Go("scan", 0)
       PROVE  JumpInv'
  <2>1. 0 \in 0..ScanBlocks /\ \A a \in 0..(0 - 1) : ~Signature(a)
    BY <1>1
  <2>2. StageOK("scan", 0)
    BY <1>1, <1>11, <2>1 DEF StageOK
  <2>. QED
    BY <1>11, <2>2, GoesOn
<1>12. CASE NoMap
  <2>1. located = "searching" /\ stage = "maps" /\ block = areaBlocks /\ Go("scan", 0)
    BY <1>12 DEF NoMap, In
  <2>2. Start = 0
    BY <1>1, <2>1, StartIs DEF StageOK
  <2>. QED
    BY <1>11, <2>1, <2>2
<1>13. CASE JumpstartMapped
  <2> DEFINE q == First(At(block), "jumpstart")
  <2>1. /\ located = "searching" /\ stage = "chain" /\ Named(At(block), "jumpstart") # {}
        /\ IF q = 0 THEN Go("scan", 0) ELSE End("found", q)
    BY <1>13 DEF JumpstartMapped, In
  <2>2. CASE q = 0
    <3>1. NoneNamed
      BY <2>1, <2>2, ChainEnds DEF Succ
    <3>. QED
      BY <1>11, <2>1, <2>2, <3>1
  <2>3. CASE q # 0
    <3>1. EndOK("found", q)
      BY <2>1 DEF EndOK
    <3>. QED
      BY <2>1, <2>3, <3>1, Ends
  <2>. QED
    BY <2>2, <2>3
<1>14. CASE LastMap
  <2>1. /\ located = "searching" /\ stage = "chain" /\ Named(At(block), "jumpstart") = {}
        /\ Succ(block) = {} /\ Go("scan", 0)
    BY <1>14 DEF LastMap, In, Succ
  <2>2. NoneNamed
    BY <2>1, ChainEnds
  <2>. QED
    BY <1>11, <2>1, <2>2
<1>15. CASE FollowMap
  <2> DEFINE q == First(At(block), "map")
  <2>1. /\ located = "searching" /\ stage = "chain" /\ Succ(block) = {q}
        /\ IF MapReadFromPaddr(q) THEN Go("chain", q) ELSE End("error", 0)
    BY <1>15 DEF FollowMap, In, Succ
  <2>2. q \in ChainFrom(Start)
    BY <1>1, <2>1, ChainIsClosed DEF StageOK
  <2>3. StageOK("chain", q)
    BY <1>1, <2>1, <2>2 DEF StageOK
  <2>. QED
    BY <1>2, <2>1, <2>3, GoesOn
<1>16. CASE ScanSignature
  <2>1. /\ located = "searching" /\ stage = "scan" /\ block < ScanBlocks
        /\ IF Signature(block) THEN End(IF block = 0 THEN "absent" ELSE "found", block)
           ELSE Go("scan", block + 1)
    BY <1>16 DEF ScanSignature, In, Signature
  <2>2. block \in 0..ScanBlocks /\ \A a \in 0..(block - 1) : ~Signature(a)
    BY <1>1, <2>1 DEF StageOK
  <2>3. CASE Signature(block)
    <3>1. block = 0 => At(0).signature
      BY <2>3 DEF Signature
    <3>2. EndOK(IF block = 0 THEN "absent" ELSE "found", block)
      BY <2>1, <3>1 DEF EndOK
    <3>. QED
      BY <2>1, <2>3, <3>2, Ends
  <2>4. CASE ~Signature(block)
    <3>1. block + 1 \in 0..ScanBlocks /\ \A a \in 0..((block + 1) - 1) : ~Signature(a)
      <4>1. \A a \in 0..((block + 1) - 1) : a \in 0..(block - 1) \/ a = block
        BY <1>1, <2>2
      <4>. QED
        BY <1>1, <2>1, <2>2, <2>4, <4>1
    <3>2. StageOK("scan", block + 1)
      BY <1>1, <2>1, <3>1 DEF StageOK
    <3>. QED
      BY <2>1, <2>4, <3>2, GoesOn
  <2>. QED
    BY <2>3, <2>4
<1>17. CASE SignatureAbsent
  <2>1. stage = "scan" /\ block = ScanBlocks /\ End("absent", 0)
    BY <1>17 DEF SignatureAbsent, In
  <2>2. \A a \in 1..(ScanBlocks - 1) : ~Signature(a)
    BY <1>1, <2>1 DEF StageOK
  <2>3. EndOK("absent", 0)
    BY <2>2 DEF EndOK
  <2>. QED
    BY <2>1, <2>3, Ends
<1>18. CASE UNCHANGED jumpVars
  <2>1. UNCHANGED <<jdisk, uuid, stage, block, located, paddr>>
    BY <1>18 DEF jumpVars
  <2>2. StageOK(stage, block)' /\ EndOK(located, paddr)'
    BY <1>1, <2>1, SameDisk DEF EndOK
  <2>. QED
    BY <2>1, <2>2 DEF JumpInv
<1>. QED
  BY <1>3, <1>4, <1>5, <1>6, <1>7, <1>8, <1>9, <1>10, <1>12, <1>13, <1>14, <1>15, <1>16, <1>17, <1>18
     DEF JumpNext, JumpStep, JumpEnded

\* On every disk, maps that name each other in a circle included: the address
\* handed out is the superblock's, else that of the first map of the chain with
\* a jumpstart, and a scan's only when the maps could be read and name none
\* (FindEFIJumpstart, findJumpstartFromCheckpoints, scanForJumpstartSignature).
THEOREM JumpstartLocatedInOrder == JumpSpec => []LocatedInOrder
<1>1. JumpInv => LocatedInOrder
  <2> SUFFICES ASSUME JumpInv PROVE LocatedInOrder
    OBVIOUS
  <2>1. /\ jdisk \in JumpDisks /\ StageOK(stage, block) /\ EndOK(located, paddr)
    BY DEF JumpInv
  <2>2. ASSUME located = "found", stage = "scan"
        PROVE  /\ sb.jumpstart = 0 /\ MapRead(LatestSeen) /\ (~Usable(LatestSeen) => MapRead(Indexed))
               /\ Start # 0 => NoneNamed
               /\ \A a \in 0..(paddr - 1) : ~Signature(a)
    BY <2>1, <2>2 DEF StageOK, EndOK
  <2>3. ScanIsLastResort
    BY <2>2 DEF ScanIsLastResort, NoneNamed, Signature, LatestSeen, Indexed
  <2>4. FoundAlongChain
    BY <2>1 DEF FoundAlongChain, StageOK, EndOK, Signature
  <2>. QED
    BY <2>3, <2>4 DEF LocatedInOrder
<1>. QED
  BY <1>1, JumpInvInit, JumpInvStep, PTL DEF JumpSpec

-----------------------------------------------------------------------------
(* EFIDriver.                                                              *)

Extents == Seq([start : Nat, count : Nat])

LEMMA ExtentNumbers ==
  ASSUME NEW es \in Extents
  PROVE  /\ Len(es) \in Nat
         /\ \A i \in 1..Len(es) : es[i].count * DriverBlock \in Nat /\ es[i].start * DriverBlock \in Nat
<1>1. Len(es) \in Nat
  BY DEF Extents
<1>2. ASSUME NEW i \in 1..Len(es) PROVE es[i].count \in Nat /\ es[i].start \in Nat
  <2>1. es[i] \in [start : Nat, count : Nat]
    BY ElementOfSeq DEF Extents
  <2>. QED
    BY <2>1
<1>3. DriverBlock \in Nat
  BY DriverAssumption
<1>. QED
  BY <1>1, <1>2, <1>3, Product

\* The sizes of the first extents are added up.
LEMMA SizesAddUp ==
  ASSUME NEW es \in Extents
  PROVE  /\ SizeUpTo(es) \in [0..Len(es) -> Nat]
         /\ SizeUpTo(es)[0] = 0
         /\ \A i \in 1..Len(es) : SizeUpTo(es)[i] = SizeUpTo(es)[i - 1] + (es[i].count * DriverBlock)
<1> DEFINE m == Len(es)
           next == [x \in (1..m) \X Nat |-> x[2] + (es[x[1]].count * DriverBlock)]
           size[i \in 0..Len(es)] == IF i = 0 THEN 0 ELSE size[i - 1] + (es[i].count * DriverBlock)
<1>0. m \in Nat /\ \A i \in 1..m : es[i].count * DriverBlock \in Nat
  BY ExtentNumbers
<1>1. next \in [(1..m) \X Nat -> Nat]
  BY <1>0
<1>2. ASSUME NEW i \in 1..m, NEW v \in Nat
      PROVE  next[<<i, v>>] = v + (es[i].count * DriverBlock)
  OBVIOUS
<1>3. \E r : IsRecursion(r, m, Nat, 0, next)
  <2> HIDE DEF next
  <2>. QED
    BY <1>0, <1>1, RecursionExists
<1>4. PICK r : IsRecursion(r, m, Nat, 0, next)
  BY <1>3
<1> HIDE DEF next
<1>5. r = [i \in 0..Len(es) |-> IF i = 0 THEN 0 ELSE r[i - 1] + (es[i].count * DriverBlock)]
  <2>1. ASSUME NEW i \in 0..m, i # 0 PROVE r[i] = r[i - 1] + (es[i].count * DriverBlock)
    <3>1. i \in 1..m /\ i - 1 \in 0..m
      BY <1>0, <2>1
    <3>2. r[i] = next[<<i, r[i - 1]>>] /\ r[i - 1] \in Nat
      BY <1>4, <3>1 DEF IsRecursion
    <3>. QED
      BY <1>2, <3>1, <3>2
  <2>. QED
    BY <1>4, <2>1 DEF IsRecursion
<1>6. SizeUpTo(es) = size
  BY DEF SizeUpTo
<1>7. size = [i \in 0..Len(es) |-> IF i = 0 THEN 0 ELSE size[i - 1] + (es[i].count * DriverBlock)]
  BY <1>5
<1> HIDE DEF size
<1>8. size[0] = 0 /\ \A i \in 1..m : size[i] = size[i - 1] + (es[i].count * DriverBlock)
  <2>1. 0 \in 0..Len(es) /\ \A i \in 1..m : i \in 0..Len(es) /\ i # 0
    BY <1>0
  <2>. QED
    BY <1>7, <2>1, Zenon
<1>9. \A i \in 0..m : i \in {x \in 0..m : size[x] \in Nat}
  <2> DEFINE T == {x \in 0..m : size[x] \in Nat}
  <2>0. ASSUME NEW i \in 1..m, size[i - 1] \in Nat PROVE size[i] \in Nat
    <3>1. PICK w \in Nat : w = es[i].count * DriverBlock
      BY <1>0
    <3>. QED
      BY <1>8, <2>0, <3>1
  <2>1. 0 \in T /\ \A i \in 1..m : i - 1 \in T => i \in T
    BY <1>0, <1>8, <2>0
  <2> HIDE DEF T
  <2>2. \A i \in 0..m : i \in T
    BY <1>0, <2>1, UpTo
  <2>. QED
    BY <2>2 DEF T
<1>10. DOMAIN size = 0..m /\ size = [i \in 0..m |-> size[i]]
  BY <1>7
<1>. QED
  BY <1>6, <1>8, <1>9, <1>10

LEMMA BytesOfIs ==
  ASSUME NEW es \in Extents, NEW i \in 1..Len(es)
  PROVE  /\ BytesOf(es[i]) \in Seq(Nat)
         /\ Len(BytesOf(es[i])) = es[i].count * DriverBlock
         /\ \A k \in 1..(es[i].count * DriverBlock) : BytesOf(es[i])[k] = (es[i].start * DriverBlock) + k - 1
<1>1. PICK len \in Nat : len = es[i].count * DriverBlock
  BY ExtentNumbers
<1>2. PICK first \in Nat : first = es[i].start * DriverBlock
  BY ExtentNumbers
<1>3. BytesOf(es[i]) = [k \in 1..len |-> first + k - 1]
  BY <1>1, <1>2 DEF BytesOf
<1>4. \A k \in 1..len : first + k - 1 \in Nat
  OBVIOUS
<1>5. BytesOf(es[i]) \in Seq(Nat) /\ Len(BytesOf(es[i])) = len
  BY <1>3, <1>4
<1>6. \A k \in 1..len : BytesOf(es[i])[k] = first + k - 1
  BY <1>3
<1>. QED
  BY <1>1, <1>2, <1>5, <1>6, Zenon

\* The bytes of the first extents are set one behind the other.
LEMMA BytesAddUp ==
  ASSUME NEW es \in Extents
  PROVE  /\ BytesUpTo(es) \in [0..Len(es) -> Seq(Nat)]
         /\ \A i \in 1..Len(es) : BytesUpTo(es)[i] = BytesUpTo(es)[i - 1] \o BytesOf(es[i])
         /\ \A i \in 0..Len(es) : Len(BytesUpTo(es)[i]) = SizeUpTo(es)[i]
<1> DEFINE m == Len(es)
           next == [x \in (1..m) \X Seq(Nat) |-> x[2] \o BytesOf(es[x[1]])]
           all[i \in 0..Len(es)] == IF i = 0 THEN <<>> ELSE all[i - 1] \o BytesOf(es[i])
<1>0. m \in Nat /\ \A i \in 1..m : BytesOf(es[i]) \in Seq(Nat)
  BY ExtentNumbers, BytesOfIs
<1>a. \A v, w \in Seq(Nat) : v \o w \in Seq(Nat) /\ Len(v \o w) = Len(v) + Len(w)
  OBVIOUS
<1>b. <<>> \in Seq(Nat) /\ Len(<<>>) = 0
  OBVIOUS
<1>1. next \in [(1..m) \X Seq(Nat) -> Seq(Nat)]
  BY <1>0, <1>a
<1>2. ASSUME NEW i \in 1..m, NEW v \in Seq(Nat)
      PROVE  next[<<i, v>>] = v \o BytesOf(es[i])
  OBVIOUS
<1>3. \E r : IsRecursion(r, m, Seq(Nat), <<>>, next)
  <2> HIDE DEF next
  <2>. QED
    BY <1>0, <1>b, <1>1, RecursionExists
<1>4. PICK r : IsRecursion(r, m, Seq(Nat), <<>>, next)
  BY <1>3
<1> HIDE DEF next
<1>5. r = [i \in 0..Len(es) |-> IF i = 0 THEN <<>> ELSE r[i - 1] \o BytesOf(es[i])]
  <2>1. ASSUME NEW i \in 0..m, i # 0 PROVE r[i] = r[i - 1] \o BytesOf(es[i])
    <3>1. i \in 1..m /\ i - 1 \in 0..m
      BY <1>0, <2>1
    <3>2. r[i] = next[<<i, r[i - 1]>>] /\ r[i - 1] \in Seq(Nat)
      BY <1>4, <3>1 DEF IsRecursion
    <3>. QED
      BY <1>2, <3>1, <3>2
  <2>. QED
    BY <1>4, <2>1 DEF IsRecursion
<1>6. BytesUpTo(es) = all
  BY DEF BytesUpTo
<1>7. all = [i \in 0..Len(es) |-> IF i = 0 THEN <<>> ELSE all[i - 1] \o BytesOf(es[i])]
  BY <1>5
<1> HIDE DEF all
<1>8. all[0] = <<>> /\ \A i \in 1..m : all[i] = all[i - 1] \o BytesOf(es[i])
  BY <1>0, <1>7
<1>9. \A i \in 0..m : i \in {x \in 0..m : all[x] \in Seq(Nat) /\ Len(all[x]) = SizeUpTo(es)[x]}
  <2> DEFINE T == {x \in 0..m : all[x] \in Seq(Nat) /\ Len(all[x]) = SizeUpTo(es)[x]}
  <2>1. 0 \in T
    <3>1. SizeUpTo(es)[0] = 0 /\ 0 \in 0..m
      BY <1>0, SizesAddUp
    <3>2. all[0] \in Seq(Nat) /\ Len(all[0]) = SizeUpTo(es)[0]
      BY <1>b, <1>8, <3>1
    <3>. QED
      BY <3>1, <3>2
  <2>2. ASSUME NEW i \in 1..m, i - 1 \in T PROVE i \in T
    <3>1. all[i - 1] \in Seq(Nat) /\ Len(all[i - 1]) = SizeUpTo(es)[i - 1]
      BY <2>2
    <3>2. all[i] = all[i - 1] \o BytesOf(es[i]) /\ Len(BytesOf(es[i])) = es[i].count * DriverBlock
      BY <1>8, BytesOfIs
    <3>3. all[i] \in Seq(Nat) /\ Len(all[i]) = Len(all[i - 1]) + Len(BytesOf(es[i]))
      BY <1>0, <1>a, <3>1, <3>2
    <3>4. SizeUpTo(es)[i] = SizeUpTo(es)[i - 1] + (es[i].count * DriverBlock)
      BY SizesAddUp
    <3>5. Len(all[i]) = SizeUpTo(es)[i]
      BY <3>1, <3>2, <3>3, <3>4, Zenon
    <3>. QED
      BY <3>3, <3>5, <1>0
  <2> HIDE DEF T
  <2>3. \A i \in 0..m : i \in T
    BY <1>0, <2>1, <2>2, UpTo
  <2>. QED
    BY <2>3 DEF T
<1>10. DOMAIN all = 0..m /\ all = [i \in 0..m |-> all[i]]
  BY <1>7
<1>. QED
  BY <1>6, <1>8, <1>9, <1>10

\* The sizes grow, and what the first extents have stays in its place.
LEMMA Growing ==
  ASSUME NEW es \in Extents, NEW i \in 0..Len(es), NEW j \in i..Len(es)
  PROVE  /\ SizeUpTo(es)[i] \in Nat /\ SizeUpTo(es)[j] \in Nat
         /\ SizeUpTo(es)[i] <= SizeUpTo(es)[j]
         /\ \A k \in 1..SizeUpTo(es)[i] : BytesUpTo(es)[j][k] = BytesUpTo(es)[i][k]
<1> DEFINE m == Len(es)
           s == SizeUpTo(es)
           b == BytesUpTo(es)
           T == {x \in 0..m : x >= i => s[i] <= s[x] /\ \A k \in 1..s[i] : b[x][k] = b[i][k]}
<1>1. m \in Nat /\ \A x \in 1..m : es[x].count * DriverBlock \in Nat
  BY ExtentNumbers
<1>2. s \in [0..m -> Nat] /\ \A x \in 1..m : s[x] = s[x - 1] + (es[x].count * DriverBlock)
  BY SizesAddUp
<1>3. b \in [0..m -> Seq(Nat)] /\ \A x \in 1..m : b[x] = b[x - 1] \o BytesOf(es[x])
  BY BytesAddUp
<1>4. \A x \in 0..m : Len(b[x]) = s[x]
  BY BytesAddUp
<1> HIDE DEF s, b
<1>5. 0 \in T
  <2>1. CASE i = 0
    BY <1>1, <1>2, <2>1
  <2>2. CASE i # 0
    BY <1>1, <2>2
  <2>. QED
    BY <2>1, <2>2
<1>6. ASSUME NEW x \in 1..m, x - 1 \in T PROVE x \in T
  <2>1. x \in 0..m /\ x - 1 \in 0..m /\ i \in Nat
    BY <1>1
  <2>2. CASE x < i
    BY <2>1, <2>2
  <2>3. CASE x = i
    <3>1. s[i] \in Nat
      BY <1>2
    <3>. QED
      BY <2>1, <2>3, <3>1
  <2>4. CASE x > i
    <3>1. s[i] <= s[x - 1] /\ \A k \in 1..s[i] : b[x - 1][k] = b[i][k]
      BY <1>6, <2>1, <2>4
    <3>2. s[x] \in Nat /\ s[x - 1] \in Nat /\ s[i] \in Nat /\ s[x - 1] <= s[x]
      <4>1. PICK c \in Nat : c = es[x].count * DriverBlock
        BY <1>1
      <4>2. s[x] = s[x - 1] + c /\ s[x - 1] \in Nat /\ s[i] \in Nat
        BY <1>2, <2>1, <4>1
      <4>. QED
        BY <4>2
    <3>3. ASSUME NEW k \in 1..s[i] PROVE b[x][k] = b[i][k]
      <4>1. b[x - 1] \in Seq(Nat) /\ Len(b[x - 1]) = s[x - 1]
        BY <1>3, <1>4, <2>1
      <4>2. k \in 1..s[x - 1]
        BY <3>1, <3>2
      <4>3. BytesOf(es[x]) \in Seq(Nat)
        BY BytesOfIs
      <4>4. ASSUME NEW v \in Seq(Nat), NEW w \in Seq(Nat), k \in 1..Len(v)
            PROVE  (v \o w)[k] = v[k]
        BY <4>4
      <4>5. (b[x - 1] \o BytesOf(es[x]))[k] = b[x - 1][k]
        BY <4>1, <4>2, <4>3, <4>4
      <4>. QED
        BY <1>3, <3>1, <4>5
    <3>. QED
      BY <2>1, <3>1, <3>2, <3>3
  <2>. QED
    BY <2>1, <2>2, <2>3, <2>4
<1>7. \A x \in 0..m : x \in T
  <2> HIDE DEF T
  <2>. QED
    BY <1>1, <1>5, <1>6, UpTo
<1>8. j \in 0..m /\ j >= i
  BY <1>1
<1>9. s[i] <= s[j] /\ (\A k \in 1..s[i] : b[j][k] = b[i][k]) /\ s[i] \in Nat /\ s[j] \in Nat
  BY <1>2, <1>7, <1>8
<1>. QED
  BY <1>9 DEF s, b

\* Every byte of an extent has its place among the bytes of all of them.
LEMMA PlaceOfByte ==
  ASSUME NEW es \in Extents, NEW i \in 1..Len(es), NEW k \in 1..(es[i].count * DriverBlock)
  PROVE  BytesUpTo(es)[Len(es)][SizeUpTo(es)[i - 1] + k] = (es[i].start * DriverBlock) + k - 1
<1>1. Len(es) \in Nat /\ i \in 0..Len(es) /\ i - 1 \in 0..Len(es) /\ Len(es) \in i..Len(es)
  BY ExtentNumbers
<1>2. PICK c \in Nat : c = es[i].count * DriverBlock
  BY ExtentNumbers
<1>3. PICK a \in Nat : a = SizeUpTo(es)[i - 1]
  BY <1>1, SizesAddUp
<1>4. SizeUpTo(es)[i] = a + c
  BY <1>2, <1>3, SizesAddUp, Zenon
<1>5. a + k \in 1..(a + c)
  BY <1>2
<1>6. BytesUpTo(es)[Len(es)][a + k] = BytesUpTo(es)[i][a + k]
  BY <1>1, <1>4, <1>5, Growing
<1>7. BytesUpTo(es)[i] = BytesUpTo(es)[i - 1] \o BytesOf(es[i])
  BY BytesAddUp
<1>8. BytesUpTo(es)[i - 1] \in Seq(Nat) /\ Len(BytesUpTo(es)[i - 1]) = a
  BY <1>1, <1>3, BytesAddUp
<1>9. BytesOf(es[i]) \in Seq(Nat) /\ Len(BytesOf(es[i])) = c
  BY <1>2, BytesOfIs
<1>10. BytesUpTo(es)[i][a + k] = BytesOf(es[i])[k]
  <2>1. ASSUME NEW v \in Seq(Nat), NEW w \in Seq(Nat), Len(v) = a, Len(w) = c
        PROVE  (v \o w)[a + k] = w[k]
    BY <1>2, <2>1
  <2>. QED
    BY <1>7, <1>8, <1>9, <2>1
<1>11. BytesOf(es[i])[k] = (es[i].start * DriverBlock) + k - 1
  BY BytesOfIs
<1>. QED
  BY <1>3, <1>6, <1>10, <1>11, Zenon

-----------------------------------------------------------------------------
\* Sizes that fit are positive numbers of the machine, and the analyzer's sum
\* is the sum.
LEMMA FittingSizes ==
  ASSUME SizesFit, jump.extents \in Extents
  PROVE  /\ \A i \in 1..Len(jump.extents) : bytesInExtent(jump.extents[i]) = jump.extents[i].count * DriverBlock
         /\ calculatedTotalSize = SizeUpTo(jump.extents)[Len(jump.extents)]
<1> DEFINE es == jump.extents
           m == Len(es)
           s == SizeUpTo(es)
           total[i \in 0..Len(jump.extents)] ==
             IF i = 0 THEN 0 ELSE (total[i - 1] + jump.extents[i].count * DriverBlock) % Wide
<1>1. es \in Extents /\ m \in Nat
  BY ExtentNumbers
<1>2. s \in [0..m -> Nat] /\ s[0] = 0 /\ \A i \in 1..m : s[i] = s[i - 1] + (es[i].count * DriverBlock)
  BY <1>1, SizesAddUp
<1>3. PICK w \in Nat \ {0} : w = Wide
  BY DriverAssumption
<1>4. PICK h \in Int : h = w \div 2 /\ h * 2 <= w
  OBVIOUS
<1>5. s[m] < h
  BY <1>3, <1>4 DEF SizesFit
<1>6. \A i \in 0..m : s[i] \in Nat /\ s[i] < h
  <2>1. ASSUME NEW i \in 0..m PROVE s[i] <= s[m]
    <3>1. m \in i..m
      BY <1>1
    <3> HIDE DEF es
    <3>. QED
      BY <1>1, <3>1, Growing
  <2>2. m \in 0..m
    BY <1>1
  <2> HIDE DEF s
  <2>. QED
    BY <1>2, <1>5, <2>1, <2>2
<1>7. ASSUME NEW x \in Nat, x < h PROVE x % Wide = x /\ int64(x) = x
  <2>1. x < w /\ x = 0 * w + x
    BY <1>4, <1>7
  <2>2. x % w = x
    BY <2>1, RemainderIs
  <2>3. ~ (x >= h)
    BY <1>4, <1>7
  <2>. QED
    BY <1>3, <1>4, <2>2, <2>3 DEF int64
<1>8. ASSUME NEW i \in 1..m PROVE /\ es[i].count * DriverBlock \in Nat
                                   /\ es[i].count * DriverBlock < h
                                   /\ s[i] = s[i - 1] + (es[i].count * DriverBlock)
  <2>1. PICK c \in Nat : c = es[i].count * DriverBlock
    BY <1>1, ExtentNumbers
  <2>2. i \in 0..m /\ i - 1 \in 0..m
    BY <1>1
  <2>3. s[i] = s[i - 1] + c /\ s[i] < h /\ s[i - 1] \in Nat
    BY <1>2, <1>6, <2>1, <2>2
  <2>4. c < h
    BY <1>4, <2>3
  <2>. QED
    BY <2>1, <2>3, <2>4, Zenon
<1>9. \A i \in 1..m : bytesInExtent(es[i]) = es[i].count * DriverBlock
  BY <1>7, <1>8 DEF bytesInExtent
<1>10. calculatedTotalSize = total[m]
  BY DEF calculatedTotalSize
<1> HIDE DEF s, es
<1>11. s = [i \in 0..m |-> IF i = 0 THEN 0 ELSE (s[i - 1] + es[i].count * DriverBlock) % Wide]
  <2>1. ASSUME NEW i \in 0..m, i # 0 PROVE s[i] = (s[i - 1] + es[i].count * DriverBlock) % Wide
    <3>1. i \in 1..m
      BY <1>1, <2>1
    <3>2. s[i] = s[i - 1] + es[i].count * DriverBlock /\ s[i] % Wide = s[i]
      BY <1>6, <1>7, <1>8, <2>1, <3>1
    <3>. QED
      BY <3>2, Zenon
  <2>. QED
    BY <1>2, <2>1
<1>12. total = [i \in 0..m |-> IF i = 0 THEN 0 ELSE (total[i - 1] + es[i].count * DriverBlock) % Wide]
  BY <1>11 DEF es
<1> HIDE DEF total
<1>13. \A i \in 0..m : i \in {x \in 0..m : total[x] = s[x]}
  <2> DEFINE T == {x \in 0..m : total[x] = s[x]}
  <2>1. 0 \in T
    BY <1>1, <1>2, <1>12
  <2>2. ASSUME NEW i \in 1..m, i - 1 \in T PROVE i \in T
    <3>1. i \in 0..m /\ i # 0
      BY <1>1
    <3>2. total[i] = (total[i - 1] + es[i].count * DriverBlock) % Wide
      BY <1>12, <3>1
    <3>3. s[i] = (s[i - 1] + es[i].count * DriverBlock) % Wide
      BY <1>11, <3>1
    <3>. QED
      BY <2>2, <3>1, <3>2, <3>3
  <2> HIDE DEF T
  <2>3. \A i \in 0..m : i \in T
    BY <1>1, <2>1, <2>2, UpTo
  <2>. QED
    BY <2>3 DEF T
<1>14. total[m] = s[m]
  BY <1>1, <1>13
<1>. QED
  BY <1>9, <1>10, <1>14 DEF s, es

\* What was collected is never more than the driver has, and, as long as the
\* sizes fit, as many bytes as the extents before the next one have, from the
\* front of the bytes of all extents.
Collection ==
  LET s == SizeUpTo(jump.extents)
      b == BytesUpTo(jump.extents)[Len(jump.extents)]
  IN  /\ Len(driverData) = Smaller(jump.fileLen, s[extent - 1])
      /\ \A k \in 1..Len(driverData) : driverData[k] = b[k]

DriverTypeOK ==
  /\ jump \in Jumpstarts
  /\ extent \in 1..(Len(jump.extents) + 1)
  /\ driverData \in Seq(Nat)
  /\ extraction \in {"new", "reading", "data", "done", "error"}
  /\ output \in {"none", "part", "whole"}

Ready ==
  /\ extraction = "new" => extent = 1 /\ driverData = <<>>
  /\ extraction \in {"data", "done"} => Len(driverData) = jump.fileLen
  /\ output # "none" => Len(driverData) = jump.fileLen /\ extraction \in {"done", "error"}

DriverInv ==
  /\ DriverTypeOK
  /\ Ready
  /\ Len(driverData) <= jump.fileLen
  /\ SizesFit => Collection

LEMMA JumpstartIs ==
  ASSUME jump \in Jumpstarts
  PROVE  jump.fileLen \in Nat /\ jump.extents \in Extents /\ Len(jump.extents) \in Nat
<1>1. jump.fileLen \in Nat /\ jump.extents \in Extents
  BY DriverAssumption DEF Extents
<1>. QED
  BY <1>1, ExtentNumbers

LEMMA DriverInvInit == DriverInit => DriverInv
<1> SUFFICES ASSUME DriverInit PROVE DriverInv
  OBVIOUS
<1>1. jump.fileLen \in Nat /\ jump.extents \in Extents /\ Len(jump.extents) \in Nat
  BY JumpstartIs DEF DriverInit
<1>2. driverData \in Seq(Nat) /\ Len(driverData) = 0 /\ extent \in 1..(Len(jump.extents) + 1)
  BY <1>1 DEF DriverInit
<1>3. DriverTypeOK /\ Ready
  BY <1>2 DEF DriverInit, DriverTypeOK, Ready
<1>4. Collection
  <2>1. SizeUpTo(jump.extents)[0] = 0
    BY <1>1, SizesAddUp
  <2>2. extent - 1 = 0
    BY DEF DriverInit
  <2>3. SizeUpTo(jump.extents)[extent - 1] = 0
    BY <2>1, <2>2
  <2>4. Smaller(jump.fileLen, 0) = 0
    BY <1>1 DEF Smaller
  <2>. QED
    BY <1>2, <2>3, <2>4 DEF Collection
<1>. QED
  BY <1>1, <1>2, <1>3, <1>4 DEF DriverInv

\* Sizes as the machine sees them are numbers.
LEMMA SizesAreNumbers ==
  ASSUME NEW es \in Extents, NEW i \in 1..Len(es)
  PROVE  bytesInExtent(es[i]) \in Int
<1>1. PICK c \in Nat : c = es[i].count * DriverBlock
  BY ExtentNumbers
<1>2. PICK w \in Nat \ {0} : w = Wide
  BY DriverAssumption
<1>3. c % w \in Int /\ w \div 2 \in Int
  BY <1>1, <1>2
<1>. QED
  BY <1>1, <1>2, <1>3 DEF bytesInExtent, int64

\* The extent passed over or read is accounted for.
LEMMA CollectionGrows ==
  ASSUME NEW j \in Jumpstarts, NEW i \in 1..Len(j.extents), NEW l \in Nat, NEW c \in Nat, NEW s,
         s = SizeUpTo(j.extents), c = j.extents[i].count * DriverBlock,
         l = Smaller(j.fileLen, s[i - 1]), l < j.fileLen
  PROVE  l = s[i - 1] /\ l + Smaller(c, j.fileLen - l) = Smaller(j.fileLen, s[i])
<1>1. j.fileLen \in Nat /\ j.extents \in Extents
  BY DriverAssumption DEF Extents
<1>2. Len(j.extents) \in Nat
  BY <1>1, ExtentNumbers
<1>3. i - 1 \in 0..Len(j.extents)
  BY <1>2
<1>4. s[i - 1] \in Nat /\ s[i] = s[i - 1] + c
  <2>1. /\ SizeUpTo(j.extents) \in [0..Len(j.extents) -> Nat]
        /\ \A x \in 1..Len(j.extents) : SizeUpTo(j.extents)[x] = SizeUpTo(j.extents)[x - 1] + (j.extents[x].count * DriverBlock)
    BY <1>1, SizesAddUp
  <2>. QED
    BY <1>3, <2>1
<1>. QED
  BY <1>1, <1>4 DEF Smaller

LEMMA DriverInvStep == DriverInv /\ [DriverNext \/ DriverEnded]_driverVars => DriverInv'
<1> SUFFICES ASSUME DriverInv, [DriverNext \/ DriverEnded]_driverVars PROVE DriverInv'
  OBVIOUS
<1>1. jump.fileLen \in Nat /\ jump.extents \in Extents /\ Len(jump.extents) \in Nat
  BY JumpstartIs DEF DriverInv, DriverTypeOK
<1>2. ASSUME UNCHANGED <<jump, extent, driverData>> PROVE (SizesFit => Collection)'
  <2>1. SizesFit' = SizesFit
    BY <1>2 DEF SizesFit
  <2>2. Collection' = Collection
    BY <1>2 DEF Collection
  <2>. QED
    BY <2>1, <2>2 DEF DriverInv
<1>3. CASE UNCHANGED driverVars
  BY <1>2, <1>3 DEF driverVars, DriverInv, DriverTypeOK, Ready
<1>4. CASE NewRefused
  BY <1>2, <1>4 DEF NewRefused, To, DriverInv, DriverTypeOK, Ready
<1>5. CASE GetEFIDriverData
  <2>1. Len(<<>>) = 0
    OBVIOUS
  <2>. QED
    BY <1>2, <1>5, <2>1 DEF GetEFIDriverData, To, DriverInv, DriverTypeOK, Ready
<1>6. CASE ReadExtentFails
  BY <1>2, <1>6 DEF ReadExtentFails, Reads, AtExtent, To, DriverInv, DriverTypeOK, Ready
<1>7. CASE Collected
  BY <1>2, <1>7 DEF Collected, To, DriverInv, DriverTypeOK, Ready
<1>8. CASE CreateFails
  BY <1>2, <1>8 DEF CreateFails, To, DriverInv, DriverTypeOK, Ready
<1>9. CASE WriteFile
  BY <1>2, <1>9 DEF WriteFile, DriverInv, DriverTypeOK, Ready
<1>10. CASE WriteFails
  BY <1>2, <1>10 DEF WriteFails, DriverInv, DriverTypeOK, Ready
<1> DEFINE es == jump.extents
           s == SizeUpTo(es)
           b == BytesUpTo(es)[Len(es)]
<1>11. ASSUME AtExtent
       PROVE  /\ extent \in 1..Len(es) /\ extent + 1 \in 1..(Len(es) + 1) /\ (extent + 1) - 1 = extent
              /\ Len(driverData) \in Nat /\ Len(driverData) < jump.fileLen
              /\ remainingExpected \in Nat
  <2>1. driverData \in Seq(Nat) /\ extent \in 1..(Len(es) + 1)
    BY DEF DriverInv, DriverTypeOK
  <2>2. Len(driverData) \in Nat
    BY <2>1
  <2>. QED
    BY <1>1, <1>11, <2>1, <2>2 DEF AtExtent, remainingExpected
<1>12. ASSUME AtExtent, SizesFit, NEW n \in Nat, n = Smaller(bytesInExtent(Current), remainingExpected)
       PROVE  /\ Len(driverData) = s[extent - 1]
              /\ Len(driverData) + n = Smaller(jump.fileLen, s[extent])
  <2>1. PICK c \in Nat : c = es[extent].count * DriverBlock
    BY <1>1, <1>11, <1>12, ExtentNumbers
  <2>2. bytesInExtent(Current) = c
    BY <1>1, <1>11, <1>12, <2>1, FittingSizes DEF Current
  <2>3. Len(driverData) = Smaller(jump.fileLen, s[extent - 1]) /\ jump \in Jumpstarts
    BY <1>12 DEF DriverInv, Collection, DriverTypeOK
  <2>4. n = Smaller(c, jump.fileLen - Len(driverData))
    BY <1>12, <2>2 DEF remainingExpected
  <2>5. extent \in 1..Len(jump.extents) /\ Len(driverData) \in Nat /\ Len(driverData) < jump.fileLen
    BY <1>11, <1>12
  <2>6. /\ Len(driverData) = s[extent - 1]
        /\ Len(driverData) + Smaller(c, jump.fileLen - Len(driverData)) = Smaller(jump.fileLen, s[extent])
    <3> HIDE DEF s
    <3>1. s = SizeUpTo(jump.extents) /\ c = jump.extents[extent].count * DriverBlock
      BY <2>1 DEF s
    <3>. QED
      BY <2>3, <2>5, <3>1, CollectionGrows
  <2>. QED
    BY <2>4, <2>6, Zenon
<1>13. CASE SkipExtent
  <2>1. AtExtent /\ extent' = extent + 1 /\ UNCHANGED <<jump, driverData, extraction, output>>
    BY <1>13 DEF SkipExtent
  <2>2. DriverTypeOK' /\ Ready' /\ (Len(driverData) <= jump.fileLen)'
    BY <1>11, <2>1 DEF DriverInv, DriverTypeOK, Ready, AtExtent
  <2>3. ASSUME SizesFit' PROVE Collection'
    <3>1. SizesFit
      BY <2>1, <2>3 DEF SizesFit
    <3>2. bytesInExtent(Current) = es[extent].count * DriverBlock
      BY <1>1, <1>11, <2>1, <3>1, FittingSizes DEF Current
    <3>3. PICK c \in Nat : c = es[extent].count * DriverBlock
      BY <1>1, <1>11, <2>1, ExtentNumbers
    <3>4. c = 0
      <4>1. CASE Current.count = 0
        <5>1. DriverBlock \in Nat
          BY DriverAssumption
        <5>2. 0 * DriverBlock = 0
          BY <5>1
        <5>. QED
          BY <3>3, <4>1, <5>2 DEF Current
      <4>2. CASE bytesToRead(Current) <= 0
        <5>1. Smaller(c, remainingExpected) <= 0
          BY <3>2, <3>3, <4>2 DEF bytesToRead
        <5>2. remainingExpected \in Nat /\ remainingExpected > 0
          BY <1>11, <2>1 DEF AtExtent
        <5>. QED
          BY <5>1, <5>2 DEF Smaller
      <4>. QED
        BY <1>13, <4>1, <4>2 DEF SkipExtent
    <3>5. remainingExpected \in Nat
      BY <1>11, <2>1
    <3>6. Smaller(bytesInExtent(Current), remainingExpected) = 0
      BY <3>2, <3>3, <3>4, <3>5 DEF Smaller
    <3>7. Len(driverData) + 0 = Smaller(jump.fileLen, s[extent])
      BY <1>12, <2>1, <3>1, <3>6
    <3>8. Len(driverData) + 0 = Len(driverData)
      BY <1>11, <2>1
    <3>9. Len(driverData)' = Smaller(jump.fileLen, SizeUpTo(jump.extents)[extent - 1])'
      BY <1>11, <2>1, <3>7, <3>8
    <3>10. \A k \in 1..Len(driverData) : driverData[k] = b[k]
      BY <3>1 DEF DriverInv, Collection
    <3>. QED
      BY <2>1, <3>9, <3>10 DEF Collection
  <2>. QED
    BY <2>2, <2>3 DEF DriverInv
<1>14. CASE ReadExtent
  <2>1. /\ AtExtent /\ extent' = extent + 1 /\ UNCHANGED <<jump, extraction, output>>
        /\ driverData' = driverData \o [i \in 1..bytesToRead(Current) |-> Offset + i - 1]
        /\ bytesToRead(Current) > 0
    BY <1>14 DEF ReadExtent, Reads
  <2>2. bytesInExtent(Current) \in Int
    BY <1>1, <1>11, <2>1, SizesAreNumbers DEF Current
  <2>3. PICK n \in Nat : n = bytesToRead(Current) /\ n > 0 /\ n <= remainingExpected
    BY <1>11, <2>1, <2>2 DEF bytesToRead, Smaller
  <2>4. PICK first \in Nat : first = Offset
    BY <1>1, <1>11, <2>1, ExtentNumbers DEF Offset, Current
  <2> DEFINE piece == [i \in 1..n |-> first + i - 1]
  <2>5. piece \in Seq(Nat) /\ Len(piece) = n /\ \A i \in 1..n : piece[i] = first + i - 1
    <3>1. \A i \in 1..n : first + i - 1 \in Nat
      OBVIOUS
    <3>. QED
      BY <3>1
  <2>6. driverData' = driverData \o piece
    BY <2>1, <2>3, <2>4
  <2> HIDE DEF piece
  <2>7. PICK l \in Nat : l = Len(driverData)
    BY <1>11, <2>1
  <2>8. /\ driverData' \in Seq(Nat) /\ Len(driverData') = l + n
        /\ \A k \in 1..l : driverData'[k] = driverData[k]
        /\ \A k \in 1..n : driverData'[l + k] = piece[k]
    <3>1. driverData \in Seq(Nat)
      BY DEF DriverInv, DriverTypeOK
    <3>2. ASSUME NEW v \in Seq(Nat), NEW w \in Seq(Nat), Len(v) = l, Len(w) = n
          PROVE  /\ v \o w \in Seq(Nat) /\ Len(v \o w) = l + n
                 /\ \A k \in 1..l : (v \o w)[k] = v[k]
                 /\ \A k \in 1..n : (v \o w)[l + k] = w[k]
      <4>1. v \o w \in Seq(Nat) /\ Len(v \o w) = l + n
        BY <3>2, ConcatProperties
      <4>2. \A k \in 1..(l + n) : (v \o w)[k] = IF k <= l THEN v[k] ELSE w[k - l]
        BY <3>2, ConcatProperties
      <4>3. \A k \in 1..l : k \in 1..(l + n) /\ k <= l
        OBVIOUS
      <4>4. \A k \in 1..n : l + k \in 1..(l + n) /\ ~(l + k <= l) /\ (l + k) - l = k
        OBVIOUS
      <4>. QED
        BY <4>1, <4>2, <4>3, <4>4, Zenon
    <3>3. /\ driverData \o piece \in Seq(Nat) /\ Len(driverData \o piece) = l + n
          /\ \A k \in 1..l : (driverData \o piece)[k] = driverData[k]
          /\ \A k \in 1..n : (driverData \o piece)[l + k] = piece[k]
      <4>1. piece \in Seq(Nat) /\ Len(piece) = n /\ Len(driverData) = l
        BY <2>5, <2>7, Zenon
      <4>. QED
        BY <3>1, <3>2, <4>1, Zenon
    <3>. QED
      BY <2>6, <3>3, Zenon
  <2>9. Len(driverData') <= jump.fileLen
    BY <1>1, <2>3, <2>7, <2>8 DEF remainingExpected
  <2>10. DriverTypeOK' /\ Ready'
    BY <1>11, <2>1, <2>8 DEF DriverInv, DriverTypeOK, Ready, AtExtent, Reads, ReadExtent
  <2>11. ASSUME SizesFit' PROVE Collection'
    <3>1. SizesFit
      BY <2>1, <2>11 DEF SizesFit
    <3>2. l = s[extent - 1] /\ l + n = Smaller(jump.fileLen, s[extent])
      BY <1>12, <2>1, <2>3, <2>7, <3>1 DEF bytesToRead
    <3>3. Len(driverData') = Smaller(jump.fileLen, SizeUpTo(jump.extents)[extent - 1])'
      BY <1>11, <2>1, <2>8, <3>2
    <3>4. PICK c \in Nat : c = es[extent].count * DriverBlock
      BY <1>1, <1>11, <2>1, ExtentNumbers
    <3>5. n <= c
      <4>1. bytesInExtent(Current) = c
        BY <1>1, <1>11, <2>1, <3>1, <3>4, FittingSizes DEF Current
      <4>. QED
        BY <1>11, <2>1, <2>3, <4>1 DEF bytesToRead, Smaller
    <3>6. ASSUME NEW k \in 1..(l + n) PROVE driverData'[k] = b[k]
      <4>1. CASE k \in 1..l
        <5>1. \A i \in 1..Len(driverData) : driverData[i] = b[i]
          BY <3>1 DEF DriverInv, Collection
        <5>. QED
          BY <2>7, <2>8, <4>1, <5>1
      <4>2. CASE k \notin 1..l
        <5>1. PICK i \in 1..n : k = l + i
          <6>1. k - l \in 1..n /\ k = l + (k - l)
            BY <4>2
          <6>. QED
            BY <6>1
        <5>2. driverData'[k] = first + i - 1
          BY <2>5, <2>8, <5>1
        <5>3. i \in 1..(es[extent].count * DriverBlock)
          BY <3>4, <3>5
        <5>4. b[s[extent - 1] + i] = (es[extent].start * DriverBlock) + i - 1
          BY <1>1, <1>11, <2>1, <5>3, PlaceOfByte
        <5>5. first = es[extent].start * DriverBlock
          BY <2>4 DEF Offset, Current
        <5>. QED
          BY <3>2, <5>1, <5>2, <5>4, <5>5, Zenon
      <4>. QED
        BY <4>1, <4>2
    <3>. QED
      BY <2>1, <2>8, <3>3, <3>6 DEF Collection
  <2>. QED
    BY <2>1, <2>9, <2>10, <2>11 DEF DriverInv
<1>. QED
  BY <1>3, <1>4, <1>5, <1>6, <1>7, <1>8, <1>9, <1>10, <1>13, <1>14 DEF DriverNext, DriverEnded

LEMMA CollectedIsDriver == DriverInv => DriverIsItsExtents
<1> SUFFICES ASSUME DriverInv PROVE DriverIsItsExtents
  OBVIOUS
<1> DEFINE es == jump.extents
           s == SizeUpTo(es)
           b == BytesUpTo(es)[Len(es)]
<1>1. jump.fileLen \in Nat /\ es \in Extents /\ Len(es) \in Nat
  BY JumpstartIs DEF DriverInv, DriverTypeOK
<1>2. ASSUME extraction \in {"data", "done"}, SizesFit
      PROVE  /\ Len(driverData) = jump.fileLen
             /\ driverData = SubSeq(b, 1, jump.fileLen)
             /\ ~ConsistencyWarning
  <2>1. Len(driverData) = jump.fileLen
    BY <1>2 DEF DriverInv, Ready
  <2>2. /\ Len(driverData) = Smaller(jump.fileLen, s[extent - 1])
        /\ \A k \in 1..Len(driverData) : driverData[k] = b[k]
    BY <1>2 DEF DriverInv, Collection
  <2>3. extent - 1 \in 0..Len(es) /\ Len(es) \in (extent - 1)..Len(es)
    BY <1>1 DEF DriverInv, DriverTypeOK
  <2>4. s[extent - 1] \in Nat /\ s[Len(es)] \in Nat /\ s[extent - 1] <= s[Len(es)]
    BY <1>1, <2>3, Growing
  <2>5. jump.fileLen <= s[Len(es)]
    <3>1. jump.fileLen <= s[extent - 1]
      BY <1>1, <2>1, <2>2, <2>4 DEF Smaller
    <3> HIDE DEF s, es
    <3>. QED
      BY <1>1, <2>4, <3>1
  <2>6. b \in Seq(Nat) /\ Len(b) = s[Len(es)]
    <3>1. Len(es) \in 0..Len(es)
      BY <1>1
    <3> HIDE DEF es
    <3>. QED
      BY <1>1, <3>1, BytesAddUp
  <2>7. driverData = SubSeq(b, 1, jump.fileLen)
    <3>1. driverData \in Seq(Nat)
      BY DEF DriverInv, DriverTypeOK
    <3>2. ASSUME NEW v \in Seq(Nat), NEW w \in Seq(Nat), NEW l \in Nat,
                 Len(v) = l, l <= Len(w), \A k \in 1..l : v[k] = w[k]
          PROVE  v = SubSeq(w, 1, l)
      <4>1. /\ SubSeq(w, 1, l) \in Seq(Nat) /\ Len(SubSeq(w, 1, l)) = l
            /\ \A k \in 1..l : SubSeq(w, 1, l)[k] = w[k]
        BY <3>2
      <4> HIDE <3>2
      <4>. QED
        BY <3>2, <4>1, SeqEqual
    <3> HIDE DEF b, s, es
    <3>. QED
      BY <1>1, <2>1, <2>2, <2>5, <2>6, <3>1, <3>2
  <2>8. ~ConsistencyWarning
    <3>1. calculatedTotalSize = s[Len(es)]
      BY <1>1, <1>2, FittingSizes
    <3> HIDE DEF s, es
    <3>. QED
      BY <1>1, <2>4, <2>5, <3>1 DEF ConsistencyWarning
  <2>. QED
    BY <2>1, <2>7, <2>8
<1>. QED
  BY <1>2 DEF DriverIsItsExtents, DriverInv, Ready

\* DriverIsItsExtents, for drivers of any size and number of extents.
THEOREM DriverExtractedInOrder == DriverSpec => []DriverIsItsExtents
<1>1. DriverSpec => []DriverInv
  BY DriverInvInit, DriverInvStep, PTL DEF DriverSpec
<1>. QED
  BY <1>1, CollectedIsDriver, PTL

-----------------------------------------------------------------------------
(* CheckpointDiscovery, for descriptor areas of every size and any number  *)
(* of checkpoints.                                                         *)

USE AreaAssumption

AreaOffsets == 0..(DescBlocks - 1)
Block == [type : Nat, magic : Nat, omap : Nat, bsize : Nat, xid : Nat, intact : BOOLEAN]
CandidateType == [sb : Block, valid : BOOLEAN, addr : Nat]

AreaTypeOK ==
  /\ area \in [AreaOffsets -> Block]
  /\ blockZero \in Block
  /\ contiguous \in BOOLEAN /\ fromDevice \in BOOLEAN /\ storedType \in Nat
  /\ ring \in Nat /\ (DescBlocks > 0 => ring < DescBlocks)
  /\ committed \in Nat \ {0}
  /\ half \in BOOLEAN
  /\ running \in BOOLEAN /\ atScan \in Nat /\ written \in Nat
  /\ phase \in {"live", "mount", "scan", "done"}
  /\ blockOffset \in Nat
  /\ candidates \in Seq(CandidateType)
  /\ missed \in BOOLEAN
  /\ answer \in CandidateType

-----------------------------------------------------------------------------
(* The inductive invariant, one operator per idea.                         *)

\* k blocks before the one the file system writes next, and how many blocks it
\* writes before it comes to offset q.
Back(k) == IF ring >= k THEN ring - k ELSE ring - k + DescBlocks
WritesBefore(q) == IF q >= ring THEN q - ring ELSE q - ring + DescBlocks

\* Where the last committed superblock lies: a map block may follow it.
LatestAt == Back(IF half THEN 2 ELSE 1)

\* The order in which the phases set their variables.
Phases ==
  /\ phase = "live" => ~running
  /\ phase \in {"live", "mount"} => blockOffset = 0 /\ candidates = <<>>
  /\ ~running => written = 0
  /\ running => atScan # 0
  /\ DescBlocks = 0 => committed = 1

BlockZeroIsCommitted ==
  blockZero = SB(storedType, blockZero.xid) /\ blockZero.xid \in 1..committed

NotNewer(b) == b.intact => b.xid <= committed

\* What lies in the area, and what the scan took from it.
NothingIsNewer ==
  /\ \A q \in AreaOffsets : NotNewer(area[q])
  /\ \A i \in 1..Len(candidates) :
       /\ NotNewer(candidates[i].sb)
       /\ candidates[i].valid = validateSuperblock(candidates[i].sb)

BlockZeroIsFirst ==
  phase = "scan" => Len(candidates) > 0 /\ candidates[1] = Candidate(blockZero, 0)

\* The ring while it is written: every superblock in it is an older one but
\* the last committed, which lies just behind the next block to be written.
RingLayout ==
  phase = "live" /\ DescBlocks >= 2 =>
    /\ \A q \in AreaOffsets : area[q].magic = NxMagic =>
         /\ area[q].intact /\ area[q].xid <= committed
         /\ area[q].xid = committed => q = LatestAt
    /\ committed = 1 \/ area[LatestAt] = SB(storedType, committed)

\* A crash tears a superblock older than the last committed one, or the next.
TornIsOlderOrNext(b, x) ==
  validateSuperblock(b) /\ ~b.intact => b.xid < x \/ b.xid = x + 1

AfterCrash ==
  phase # "live" /\ ~running /\ DescBlocks \notin {1, 2} =>
    /\ \A q \in AreaOffsets : TornIsOlderOrNext(area[q], committed)
    /\ \A i \in 1..Len(candidates) : TornIsOlderOrNext(candidates[i].sb, committed)

\* The checkpoint the answer may not fall behind.
Target == IF running THEN atScan ELSE committed

\* It is block zero's, or a candidate's already, or lies ahead of the scan where
\* the file system does not come before it has written all but a round.
InSightHow ==
  \/ blockZero.xid >= Target
  \/ \E i \in 1..Len(candidates) : candidates[i].valid /\ candidates[i].sb.xid >= Target
  \/ \E q \in AreaOffsets :
       /\ q >= blockOffset
       /\ area[q] = SB(storedType, Target)
       /\ running => WritesBefore(q) + written >= DescBlocks - 2

InSight ==
  /\ phase \in {"mount", "scan"} /\ AreaSeen
  /\ IF running THEN written < DescBlocks - 1 ELSE DescBlocks \notin {1, 2}
  => InSightHow

\* With one block the map overwrites the only superblock, with two a crash can
\* tear it: then nothing but block zero is left.
RecoversLatestUnlessTiny == DescBlocks \notin {1, 2} => RecoversLatest

ScanIInv ==
  /\ AreaTypeOK /\ Phases /\ BlockZeroIsCommitted /\ NothingIsNewer /\ BlockZeroIsFirst
  /\ RingLayout /\ AfterCrash /\ InSight

AnswerIInv == RecoversLatestUnlessTiny /\ NeverOlderThanBlockZero /\ LiveScanKeepsUp

IInv == ScanIInv /\ AnswerIInv

-----------------------------------------------------------------------------
\* The ring's offset, without the remainder.
LEMMA NextRing ==
  ASSUME NEW r \in Nat, DescBlocks > 0, r < DescBlocks
  PROVE  (r + 1) % DescBlocks = IF r + 1 = DescBlocks THEN 0 ELSE r + 1
<1>1. \A d \in Nat \ {0} : \A x \in Nat : x < d => x % d = x
  OBVIOUS
<1>2. \A d \in Nat \ {0} : d % d = 0
  OBVIOUS
<1>. QED
  BY <1>1, <1>2

LEMMA BlockTypes ==
  /\ \A t \in Nat, x \in Nat : SB(t, x) \in Block
  /\ Blank \in Block /\ MapBlock \in Block
  /\ \A b \in Block, a \in Nat : Candidate(b, a) \in CandidateType
  /\ NoAnswer \in CandidateType /\ Failed \in CandidateType
<1>1. \A t \in Nat, x \in Nat : SB(t, x) \in Block
  BY DEF SB, Block, NxMagic
<1>2. Blank \in Block
  BY DEF Blank, Block
<1>4. MapBlock \in Block
  BY <1>2 DEF MapBlock, Blank, Block
<1>5. \A b \in Block, a \in Nat : Candidate(b, a) \in CandidateType
  BY DEF Candidate, CandidateType, validateSuperblock
<1>6. NoAnswer \in CandidateType
  BY <1>2 DEF NoAnswer, CandidateType
<1>7. Failed \in CandidateType
  BY <1>6 DEF Failed, CandidateType, NoAnswer
<1>. QED
  BY <1>1, <1>2, <1>4, <1>5, <1>6, <1>7

\* What lies on the medium after a write and after a crash.
LEMMA PendingFacts ==
  ASSUME AreaTypeOK
  PROVE  /\ Pending \in Block
         /\ half => Pending = SB(storedType, committed + 1)
         /\ ~half => Pending.magic = 0 /\ Pending.xid = 0
<1>1. CASE half
  BY <1>1, BlockTypes DEF Pending, AreaTypeOK
<1>2. CASE ~half
  BY <1>2, BlockTypes DEF Pending, MapBlock, Blank
<1>. QED
  BY <1>1, <1>2 DEF AreaTypeOK

LEMMA TornFacts ==
  ASSUME AreaTypeOK, DescBlocks > 0, NEW how \in Tears
  PROVE  /\ Torn(how) \in Block
         /\ ~Torn(how).intact
         /\ \/ /\ Torn(how).xid = area[ring].xid
               /\ Torn(how).magic = area[ring].magic
            \/ half /\ Torn(how).xid = committed + 1
            \/ Torn(how).magic = 0
<1>1. area[ring] \in Block
  BY DEF AreaTypeOK, AreaOffsets
<1>2. CASE how = "old"
  BY <1>1, <1>2 DEF Torn, Block
<1>3. CASE how = "new"
  <2>1. Torn(how) = [Pending EXCEPT !.intact = FALSE]
    BY <1>3 DEF Torn
  <2>2. Torn(how) \in Block /\ ~Torn(how).intact /\ Torn(how).xid = Pending.xid /\ Torn(how).magic = Pending.magic
    BY <2>1, PendingFacts DEF Block
  <2>. QED
    BY <2>2, PendingFacts DEF SB, AreaTypeOK
<1>4. CASE how = "lost"
  <2>1. Torn(how) = [Pending EXCEPT !.intact = FALSE, !.magic = 0]
    BY <1>4 DEF Torn
  <2>2. Torn(how) \in Block
    <3>1. \A b \in Block : [b EXCEPT !.intact = FALSE, !.magic = 0] \in Block
      BY DEF Block
    <3>. QED
      BY <2>1, <3>1, PendingFacts
  <2>3. ~Torn(how).intact /\ Torn(how).magic = 0
    BY <2>1, PendingFacts DEF Block
  <2>. QED
    BY <2>2, <2>3
<1>. QED
  BY <1>2, <1>3, <1>4

-----------------------------------------------------------------------------
\* The variables keep their types.
LEMMA TypeStep == AreaTypeOK /\ [Next]_vars => AreaTypeOK'
<1> SUFFICES ASSUME AreaTypeOK, [Next]_vars PROVE AreaTypeOK'
  OBVIOUS
<1> USE DEF AreaTypeOK
<1>1. CASE WriteBlock
  <2>1. ring' \in Nat /\ ring' < DescBlocks
    BY <1>1, NextRing DEF WriteBlock
  <2>2. area' \in [AreaOffsets -> Block]
    BY <1>1, PendingFacts DEF WriteBlock
  <2>3. committed' \in Nat \ {0} /\ written' \in Nat /\ half' \in BOOLEAN
    BY <1>1 DEF WriteBlock
  <2>. QED
    BY <1>1, <2>1, <2>2, <2>3 DEF WriteBlock, setup
<1>2. CASE WriteBlockZero
  <2>1. blockZero' \in Block
    BY <1>2, BlockTypes DEF WriteBlockZero
  <2>. QED
    BY <1>2, <2>1 DEF WriteBlockZero, setup, live
<1>3. CASE Crash
  <2>1. area' \in [AreaOffsets -> Block]
    <3>1. CASE UNCHANGED area
      BY <3>1
    <3>2. ASSUME DescBlocks > 0, NEW how \in Tears, area' = [area EXCEPT ![ring] = Torn(how)]
          PROVE  area' \in [AreaOffsets -> Block]
      BY <3>2, TornFacts
    <3>. QED
      BY <1>3, <3>1, <3>2 DEF Crash
  <2>. QED
    BY <1>3, <2>1 DEF Crash, setup, live
<1>4. CASE OpenRunning
  BY <1>4 DEF OpenRunning, setup
<1>5. CASE StartScan
  <2>1. candidates' \in Seq(CandidateType)
    BY <1>5, BlockTypes DEF StartScan
  <2>. QED
    BY <1>5, <2>1 DEF StartScan, mediumVars, setup, live
<1>6. CASE NonContiguous
  BY <1>6, BlockTypes DEF NonContiguous, mediumVars, setup, live
<1>7. CASE ScanBlock
  <2>1. blockOffset \in AreaOffsets
    BY <1>7 DEF ScanBlock, descBlocks, AreaOffsets
  <2>2. Candidate(area[blockOffset], blockOffset + 1) \in CandidateType
    BY <2>1, BlockTypes
  <2>3. candidates' \in Seq(CandidateType)
    BY <1>7, <2>2 DEF ScanBlock
  <2>. QED
    BY <1>7, <2>3 DEF ScanBlock, mediumVars, setup, live
<1>8. CASE ScanSkips
  BY <1>8 DEF ScanSkips, mediumVars, setup, live
<1>9. CASE Select
  <2>1. answer' \in CandidateType
    BY <1>9, BlockTypes DEF Select, Latest, Valid
  <2>. QED
    BY <1>9, <2>1 DEF Select, mediumVars, setup, live
<1>10. CASE Done \/ UNCHANGED vars
  BY <1>10 DEF Done, vars, mediumVars, setup, live
<1>. QED
  BY <1>1, <1>2, <1>3, <1>4, <1>5, <1>6, <1>7, <1>8, <1>9, <1>10 DEF Next, Service

-----------------------------------------------------------------------------
(* Every conjunct of the invariant, step by step.                          *)

LEMMA PhasesStep == AreaTypeOK /\ Phases /\ [Next]_vars => Phases'
<1> SUFFICES ASSUME AreaTypeOK, Phases, [Next]_vars PROVE Phases'
  OBVIOUS
<1> USE DEF AreaTypeOK, Phases
<1>1. CASE WriteBlock
  BY <1>1 DEF WriteBlock, setup
<1>2. CASE WriteBlockZero
  BY <1>2 DEF WriteBlockZero, setup, live
<1>3. CASE Crash
  BY <1>3 DEF Crash, setup, live
<1>4. CASE OpenRunning
  BY <1>4 DEF OpenRunning, setup
<1>5. CASE Service
  BY <1>5 DEF Service, StartScan, NonContiguous, ScanBlock, ScanSkips, Select, mediumVars, setup, live
<1>6. CASE Done \/ UNCHANGED vars
  BY <1>6 DEF Done, vars, mediumVars, setup, live
<1>. QED
  BY <1>1, <1>2, <1>3, <1>4, <1>5, <1>6 DEF Next

LEMMA BlockZeroIsCommittedStep ==
  AreaTypeOK /\ BlockZeroIsCommitted /\ [Next]_vars => BlockZeroIsCommitted'
<1> SUFFICES ASSUME AreaTypeOK, BlockZeroIsCommitted, [Next]_vars PROVE BlockZeroIsCommitted'
  OBVIOUS
<1> USE DEF AreaTypeOK, BlockZeroIsCommitted
<1>1. CASE WriteBlock
  <2>1. committed' \in Nat /\ committed' >= committed
    BY <1>1 DEF WriteBlock
  <2>2. UNCHANGED <<blockZero, storedType>>
    BY <1>1 DEF WriteBlock, setup
  <2>. QED
    BY <2>1, <2>2 DEF SB
<1>2. CASE WriteBlockZero
  BY <1>2 DEF WriteBlockZero, setup, live, SB
<1>3. CASE UNCHANGED <<blockZero, storedType, committed>>
  BY <1>3 DEF SB
<1>. QED
  BY <1>1, <1>2, <1>3 DEF Next, Crash, OpenRunning, Service, StartScan, NonContiguous, ScanBlock, ScanSkips,
     Select, Done, vars, mediumVars, setup, live

\* What the scan appends, or nothing.
LEMMA ScanBlockFacts ==
  ASSUME AreaTypeOK, ScanBlock
  PROVE  /\ blockOffset \in AreaOffsets
         /\ UNCHANGED <<area, blockZero, storedType, contiguous, fromDevice, ring, committed, half, running,
                       atScan, written, phase, missed, answer>>
         /\ Len(candidates') >= Len(candidates)
         /\ \A i \in 1..Len(candidates) : candidates'[i] = candidates[i]
         /\ \A i \in 1..Len(candidates') :
              i \in 1..Len(candidates) \/ candidates'[i] = Candidate(area[blockOffset], blockOffset + 1)
         /\ isSuperblock(area[blockOffset]) =>
              \E i \in 1..Len(candidates') : candidates'[i] = Candidate(area[blockOffset], blockOffset + 1)
<1>1. blockOffset \in AreaOffsets
  BY DEF AreaTypeOK, ScanBlock, descBlocks, AreaOffsets
<1>2. UNCHANGED <<area, blockZero, storedType, contiguous, fromDevice, ring, committed, half, running,
                  atScan, written, phase, missed, answer>>
  BY DEF ScanBlock, mediumVars, setup, live
<1> DEFINE c == Candidate(area[blockOffset], blockOffset + 1)
<1>3. c \in CandidateType
  BY <1>1, BlockTypes DEF AreaTypeOK
<1>4. CASE isSuperblock(area[blockOffset])
  <2>1. candidates' = Append(candidates, c)
    BY <1>4 DEF ScanBlock
  <2> HIDE DEF c
  <2>2. /\ Len(candidates') = Len(candidates) + 1
        /\ \A i \in 1..Len(candidates) : candidates'[i] = candidates[i]
        /\ candidates'[Len(candidates) + 1] = c
        /\ Len(candidates) \in Nat
    BY <1>3, <2>1 DEF AreaTypeOK
  <2> USE DEF c
  <2>. QED
    BY <1>1, <1>2, <2>2
<1>5. CASE ~isSuperblock(area[blockOffset])
  <2>1. candidates' = candidates
    BY <1>5 DEF ScanBlock
  <2>2. Len(candidates) \in Nat
    BY DEF AreaTypeOK
  <2>. QED
    BY <1>1, <1>2, <1>5, <2>1, <2>2
<1>. QED
  BY <1>4, <1>5

LEMMA CandidateFacts ==
  ASSUME AreaTypeOK, NEW i \in 1..Len(candidates)
  PROVE  /\ candidates[i] \in CandidateType
         /\ candidates[i].sb \in Block
         /\ candidates[i].sb.xid \in Nat
<1>1. candidates[i] \in CandidateType
  BY ElementOfSeq DEF AreaTypeOK
<1>2. candidates[i].sb \in Block
  BY <1>1 DEF CandidateType
<1>3. candidates[i].sb.xid \in Nat
  BY <1>2 DEF Block
<1>. QED
  BY <1>1, <1>2, <1>3

LEMMA NothingIsNewerStep ==
  AreaTypeOK /\ Phases /\ BlockZeroIsCommitted /\ NothingIsNewer /\ [Next]_vars => NothingIsNewer'
<1> SUFFICES ASSUME AreaTypeOK, Phases, BlockZeroIsCommitted, NothingIsNewer, [Next]_vars
             PROVE  NothingIsNewer'
  OBVIOUS
<1>1. CASE WriteBlock
  <2>1. committed' \in Nat /\ committed' >= committed /\ candidates' = candidates
    BY <1>1 DEF WriteBlock, AreaTypeOK
  <2>2. ASSUME NEW q \in AreaOffsets PROVE NotNewer(area[q])'
    <3>1. CASE q = ring
      <4>1. area'[q] = Pending
        BY <1>1, <3>1 DEF WriteBlock, AreaTypeOK
      <4>2. Pending.xid <= committed'
        BY <1>1, PendingFacts DEF WriteBlock, AreaTypeOK, SB
      <4>. QED
        BY <4>1, <4>2 DEF NotNewer
    <3>2. CASE q # ring
      <4>1. area'[q] = area[q] /\ area[q].xid \in Nat
        BY <1>1, <3>2 DEF WriteBlock, AreaTypeOK, Block
      <4>. QED
        BY <2>1, <4>1 DEF NotNewer, NothingIsNewer, AreaTypeOK
    <3>. QED
      BY <3>1, <3>2
  <2>3. ASSUME NEW i \in 1..Len(candidates) PROVE NotNewer(candidates[i].sb)'
    BY <2>1, CandidateFacts DEF NotNewer, NothingIsNewer, AreaTypeOK
  <2>4. ASSUME NEW i \in 1..Len(candidates)
        PROVE  candidates'[i].valid = validateSuperblock(candidates'[i].sb)
    BY <2>1 DEF NothingIsNewer
  <2>. QED
    BY <2>1, <2>2, <2>3, <2>4 DEF NothingIsNewer
<1>2. CASE Crash
  <2>1. UNCHANGED <<committed, candidates>>
    BY <1>2 DEF Crash
  <2>2. ASSUME NEW q \in AreaOffsets PROVE NotNewer(area[q])'
    <3>1. CASE area' = area
      BY <2>1, <3>1 DEF NotNewer, NothingIsNewer
    <3>2. ASSUME DescBlocks > 0, NEW how \in Tears, area' = [area EXCEPT ![ring] = Torn(how)]
          PROVE  NotNewer(area[q])'
      <4>1. ~Torn(how).intact
        BY <3>2, TornFacts
      <4>2. area'[q] = IF q = ring THEN Torn(how) ELSE area[q]
        BY <3>2 DEF AreaTypeOK
      <4>. QED
        BY <2>1, <4>1, <4>2 DEF NotNewer, NothingIsNewer
    <3>. QED
      BY <1>2, <3>1, <3>2 DEF Crash
  <2>3. ASSUME NEW i \in 1..Len(candidates)
        PROVE  NotNewer(candidates[i].sb)' /\ candidates'[i].valid = validateSuperblock(candidates'[i].sb)
    BY <2>1 DEF NothingIsNewer, NotNewer
  <2>. QED
    BY <2>1, <2>2, <2>3 DEF NothingIsNewer
<1>3. CASE StartScan
  <2>1. UNCHANGED <<area, committed>> /\ candidates' = <<Candidate(blockZero, 0)>>
    BY <1>3 DEF StartScan, mediumVars
  <2>2. Len(candidates') = 1 /\ candidates'[1] = Candidate(blockZero, 0)
    BY <2>1
  <2>3. ASSUME NEW q \in AreaOffsets PROVE NotNewer(area[q])'
    BY <2>1 DEF NothingIsNewer, NotNewer
  <2>4. /\ candidates'[1].sb = blockZero
        /\ candidates'[1].valid = validateSuperblock(blockZero)
    BY <2>2 DEF Candidate
  <2>5. NotNewer(candidates[1].sb)'
    BY <2>1, <2>4 DEF NotNewer, BlockZeroIsCommitted, AreaTypeOK
  <2>. QED
    BY <2>2, <2>3, <2>4, <2>5 DEF NothingIsNewer
<1>4. CASE ScanBlock
  <2>1. NotNewer(Candidate(area[blockOffset], blockOffset + 1).sb)
    BY <1>4, ScanBlockFacts DEF NothingIsNewer, Candidate
  <2>2. ASSUME NEW q \in AreaOffsets PROVE NotNewer(area[q])'
    BY <1>4, ScanBlockFacts DEF NothingIsNewer, NotNewer
  <2>3. ASSUME NEW i \in 1..Len(candidates')
        PROVE  NotNewer(candidates[i].sb)' /\ candidates'[i].valid = validateSuperblock(candidates'[i].sb)
    <3>1. CASE i \in 1..Len(candidates)
      BY <1>4, <3>1, ScanBlockFacts DEF NothingIsNewer, NotNewer
    <3>2. CASE candidates'[i] = Candidate(area[blockOffset], blockOffset + 1)
      BY <1>4, <2>1, <3>2, ScanBlockFacts DEF NotNewer, Candidate
    <3>. QED
      BY <1>4, <3>1, <3>2, ScanBlockFacts
  <2>. QED
    BY <2>2, <2>3 DEF NothingIsNewer
<1>5. CASE UNCHANGED <<area, committed, candidates>>
  <2>1. ASSUME NEW q \in AreaOffsets PROVE NotNewer(area[q])'
    BY <1>5 DEF NothingIsNewer, NotNewer
  <2>2. ASSUME NEW i \in 1..Len(candidates)
        PROVE  NotNewer(candidates[i].sb)' /\ candidates'[i].valid = validateSuperblock(candidates'[i].sb)
    BY <1>5 DEF NothingIsNewer, NotNewer
  <2>. QED
    BY <1>5, <2>1, <2>2 DEF NothingIsNewer
<1>. QED
  BY <1>1, <1>2, <1>3, <1>4, <1>5 DEF Next, WriteBlockZero, OpenRunning, Service, NonContiguous,
     ScanSkips, Select, Done, vars, mediumVars

LEMMA BlockZeroIsFirstStep ==
  AreaTypeOK /\ BlockZeroIsFirst /\ [Next]_vars => BlockZeroIsFirst'
<1> SUFFICES ASSUME AreaTypeOK, BlockZeroIsFirst, [Next]_vars, phase' = "scan"
             PROVE  Len(candidates') > 0 /\ candidates'[1] = Candidate(blockZero', 0)
  BY DEF BlockZeroIsFirst
<1>1. CASE StartScan
  BY <1>1 DEF StartScan, mediumVars
<1>2. CASE ScanBlock
  <2>1. phase = "scan" /\ Len(candidates) \in Nat /\ Len(candidates') \in Nat
    BY <1>2 DEF ScanBlock, AreaTypeOK
  <2>2. Len(candidates) > 0 /\ candidates[1] = Candidate(blockZero, 0)
    BY <2>1 DEF BlockZeroIsFirst
  <2>3. Len(candidates') >= Len(candidates) /\ candidates'[1] = candidates[1] /\ blockZero' = blockZero
    BY <1>2, <2>1, <2>2, ScanBlockFacts
  <2>. QED
    BY <2>1, <2>2, <2>3
<1>3. CASE UNCHANGED <<blockZero, phase, candidates>>
  BY <1>3 DEF BlockZeroIsFirst
<1>4. CASE phase' # "scan"
  BY <1>4
<1>5. phase = "scan" => ~ WriteBlockZero
  BY DEF WriteBlockZero
<1>. QED
  BY <1>1, <1>2, <1>3, <1>4, <1>5 DEF Next, WriteBlock, WriteBlockZero, Crash, OpenRunning, Service,
     NonContiguous, ScanSkips, Select, Done, vars, mediumVars

\* How the position of the last committed superblock moves with a write.
LEMMA RingMoves ==
  ASSUME AreaTypeOK, DescBlocks >= 2
  PROVE  /\ LatestAt \in AreaOffsets
         /\ LatestAt = ring => half /\ DescBlocks = 2
         /\ WriteBlock => /\ half => LatestAt' = ring
                          /\ ~half => LatestAt' = LatestAt
<1> USE DEF LatestAt, Back, AreaTypeOK
<1>1. LatestAt \in AreaOffsets
  BY DEF AreaOffsets
<1>2. LatestAt = ring => half /\ DescBlocks = 2
  OBVIOUS
<1>3. ASSUME WriteBlock
      PROVE  /\ half => LatestAt' = ring
             /\ ~half => LatestAt' = LatestAt
  <2>1. ring' = IF ring + 1 = DescBlocks THEN 0 ELSE ring + 1
    BY <1>3, NextRing DEF WriteBlock
  <2>2. half' <=> ~half
    BY <1>3 DEF WriteBlock
  <2>3. CASE half
    <3>1. LatestAt' = IF ring' >= 1 THEN ring' - 1 ELSE ring' - 1 + DescBlocks
      BY <2>2, <2>3
    <3>. QED
      BY <2>1, <2>3, <3>1
  <2>4. CASE ~half
    <3>1. LatestAt' = IF ring' >= 2 THEN ring' - 2 ELSE ring' - 2 + DescBlocks
      BY <2>2, <2>4
    <3>2. LatestAt = IF ring >= 1 THEN ring - 1 ELSE ring - 1 + DescBlocks
      BY <2>4
    <3>. QED
      BY <2>1, <2>4, <3>1, <3>2
  <2>. QED
    BY <2>3, <2>4
<1>. QED
  BY <1>1, <1>2, <1>3

LEMMA RingLayoutStep ==
  AreaTypeOK /\ Phases /\ BlockZeroIsCommitted /\ RingLayout /\ [Next]_vars => RingLayout'
<1> SUFFICES ASSUME AreaTypeOK, Phases, BlockZeroIsCommitted, RingLayout, [Next]_vars,
                    phase' = "live", DescBlocks >= 2
             PROVE  RingLayout'
  BY DEF RingLayout
<1>1. CASE WriteBlock
  <2>1. phase = "live"
    BY <1>1 DEF WriteBlock
  <2>2. storedType' = storedType
    BY <1>1 DEF WriteBlock, setup
  <2>3. \A q \in AreaOffsets : area'[q] = IF q = ring THEN Pending ELSE area[q]
    BY <1>1 DEF WriteBlock, AreaTypeOK
  <2>4. \A q \in AreaOffsets : area[q].xid \in Nat
    BY DEF AreaTypeOK, Block
  <2>5. LatestAt \in AreaOffsets /\ ring \in AreaOffsets /\ committed \in Nat
    BY RingMoves DEF AreaTypeOK, AreaOffsets
  <2>6. CASE half
    <3>1. committed' = committed + 1 /\ LatestAt' = ring
      BY <1>1, <2>6, RingMoves DEF WriteBlock
    <3>2. Pending = SB(storedType, committed + 1)
      BY <2>6, PendingFacts
    <3>3. ASSUME NEW q \in AreaOffsets, area'[q].magic = NxMagic
          PROVE  /\ area'[q].intact /\ area'[q].xid <= committed'
                 /\ area'[q].xid = committed' => q = LatestAt'
      <4>1. CASE q = ring
        BY <2>3, <2>5, <3>1, <3>2, <4>1 DEF SB
      <4>2. CASE q # ring
        BY <2>1, <2>3, <2>4, <2>5, <3>1, <3>3, <4>2 DEF RingLayout
      <4>. QED
        BY <4>1, <4>2
    <3>4. area'[LatestAt'] = SB(storedType', committed')
      BY <2>2, <2>3, <2>5, <3>1, <3>2
    <3>. QED
      BY <3>3, <3>4 DEF RingLayout
  <2>7. CASE ~half
    <3>1. committed' = committed /\ LatestAt' = LatestAt /\ LatestAt # ring
      BY <1>1, <2>7, RingMoves DEF WriteBlock
    <3>2. Pending.magic # NxMagic
      BY <2>7, PendingFacts DEF NxMagic
    <3>3. ASSUME NEW q \in AreaOffsets, area'[q].magic = NxMagic
          PROVE  /\ area'[q].intact /\ area'[q].xid <= committed'
                 /\ area'[q].xid = committed' => q = LatestAt'
      BY <2>1, <2>3, <3>1, <3>2, <3>3 DEF RingLayout
    <3>4. committed = 1 \/ area[LatestAt] = SB(storedType, committed)
      BY <2>1 DEF RingLayout
    <3>5. committed' = 1 \/ area'[LatestAt'] = SB(storedType', committed')
      BY <2>2, <2>3, <2>5, <3>1, <3>4
    <3>. QED
      BY <3>3, <3>5 DEF RingLayout
  <2>. QED
    BY <2>6, <2>7
<1>2. CASE UNCHANGED <<area, storedType, ring, committed, half, phase>>
  BY <1>2 DEF RingLayout, LatestAt, Back, SB
<1>3. CASE Crash \/ OpenRunning
  BY <1>3 DEF Crash, OpenRunning
<1>4. CASE Select \/ StartScan \/ NonContiguous
  BY <1>4 DEF Select, StartScan, NonContiguous
<1>. QED
  BY <1>1, <1>2, <1>3, <1>4 DEF Next, WriteBlockZero, Service, ScanBlock,
     ScanSkips, Done, vars, mediumVars, setup

LEMMA AfterCrashStep ==
  AreaTypeOK /\ Phases /\ BlockZeroIsCommitted /\ RingLayout /\ AfterCrash /\ [Next]_vars => AfterCrash'
<1> SUFFICES ASSUME AreaTypeOK, Phases, BlockZeroIsCommitted, RingLayout, AfterCrash, [Next]_vars,
                    phase' # "live", ~running', DescBlocks \notin {1, 2}
             PROVE  /\ \A q \in AreaOffsets : TornIsOlderOrNext(area'[q], committed')
                    /\ \A i \in 1..Len(candidates') : TornIsOlderOrNext(candidates'[i].sb, committed')
  BY DEF AfterCrash
<1>1. CASE Crash
  <2>1. UNCHANGED <<committed, candidates>> /\ phase = "live"
    BY <1>1 DEF Crash
  <2>2. candidates' = <<>>
    BY <2>1 DEF Phases
  <2>3. ASSUME NEW q \in AreaOffsets PROVE TornIsOlderOrNext(area'[q], committed')
    <3>1. DescBlocks >= 3
      BY DEF AreaOffsets
    <3>2. LatestAt # ring
      BY <3>1, RingMoves
    <3>3. area[q].magic = NxMagic => area[q].intact
      BY <2>1, <3>1 DEF RingLayout
    <3>4. CASE area'[q] = area[q]
      BY <2>1, <3>3, <3>4 DEF TornIsOlderOrNext, validateSuperblock
    <3>5. ASSUME q = ring, NEW how \in Tears, area'[q] = Torn(how)
          PROVE  TornIsOlderOrNext(area'[q], committed')
      <4>1. area[q].xid \in Nat /\ committed \in Nat
        BY DEF AreaTypeOK, Block
      <4>2. CASE Torn(how).xid = area[ring].xid /\ Torn(how).magic = area[ring].magic
        <5>1. area[ring].magic = NxMagic => area[ring].xid <= committed /\ area[ring].xid # committed
          BY <2>1, <3>1, <3>2, <3>5 DEF RingLayout
        <5>. QED
          BY <2>1, <3>5, <4>1, <4>2, <5>1 DEF TornIsOlderOrNext, validateSuperblock
      <4>3. CASE Torn(how).xid = committed + 1
        BY <2>1, <3>5, <4>3 DEF TornIsOlderOrNext
      <4>4. CASE Torn(how).magic = 0
        BY <3>5, <4>4 DEF TornIsOlderOrNext, validateSuperblock, NxMagic
      <4>. QED
        BY <3>1, <4>2, <4>3, <4>4, TornFacts
    <3>6. \A how \in Tears : area' = [area EXCEPT ![ring] = Torn(how)] =>
            area'[q] = area[q] \/ (q = ring /\ area'[q] = Torn(how))
      BY DEF AreaTypeOK
    <3>. QED
      BY <1>1, <3>4, <3>5, <3>6 DEF Crash
  <2>. QED
    BY <2>2, <2>3
<1>2. CASE phase # "live" /\ ~running /\ StartScan
  <2>1. UNCHANGED <<area, committed>> /\ candidates' = <<Candidate(blockZero, 0)>>
    BY <1>2 DEF StartScan, mediumVars
  <2>2. ASSUME NEW q \in AreaOffsets PROVE TornIsOlderOrNext(area'[q], committed')
    BY <1>2, <2>1 DEF AfterCrash, TornIsOlderOrNext
  <2>3. Len(candidates') = 1 /\ candidates'[1] = Candidate(blockZero, 0)
    BY <2>1
  <2>4. candidates'[1].sb.intact
    BY <2>3 DEF Candidate, BlockZeroIsCommitted, SB
  <2>. QED
    BY <2>2, <2>3, <2>4 DEF TornIsOlderOrNext
<1>3. CASE ~running /\ ScanBlock
  <2>1. phase # "live"
    BY <1>3 DEF ScanBlock
  <2>2. ASSUME NEW q \in AreaOffsets PROVE TornIsOlderOrNext(area'[q], committed')
    BY <1>3, <2>1, ScanBlockFacts DEF AfterCrash, TornIsOlderOrNext
  <2>3. TornIsOlderOrNext(Candidate(area[blockOffset], blockOffset + 1).sb, committed)
    BY <1>3, <2>1, ScanBlockFacts DEF AfterCrash, Candidate
  <2>4. ASSUME NEW i \in 1..Len(candidates')
        PROVE  TornIsOlderOrNext(candidates'[i].sb, committed')
    <3>1. CASE i \in 1..Len(candidates)
      BY <1>3, <2>1, <3>1, ScanBlockFacts DEF AfterCrash, TornIsOlderOrNext
    <3>2. CASE candidates'[i] = Candidate(area[blockOffset], blockOffset + 1)
      BY <1>3, <2>3, <3>2, ScanBlockFacts DEF TornIsOlderOrNext
    <3>. QED
      BY <1>3, <3>1, <3>2, ScanBlockFacts
  <2>. QED
    BY <2>2, <2>4
<1>4. CASE phase # "live" /\ ~running /\ UNCHANGED <<area, committed, candidates>>
  <2>1. ASSUME NEW q \in AreaOffsets PROVE TornIsOlderOrNext(area'[q], committed')
    BY <1>4 DEF AfterCrash, TornIsOlderOrNext
  <2>2. ASSUME NEW i \in 1..Len(candidates) PROVE TornIsOlderOrNext(candidates'[i].sb, committed')
    BY <1>4 DEF AfterCrash, TornIsOlderOrNext
  <2>. QED
    BY <1>4, <2>1, <2>2
<1>5. ~ OpenRunning
  BY DEF OpenRunning
<1>6. ~ WriteBlock /\ ~ WriteBlockZero
  BY DEF WriteBlock, WriteBlockZero
<1>7. CASE UNCHANGED vars \/ Done
  BY <1>4, <1>7 DEF vars, Done, mediumVars, live
<1>8. CASE Service
  <2>1. phase # "live" /\ running' = running
    BY <1>8 DEF Service, StartScan, NonContiguous, ScanBlock, ScanSkips, Select, mediumVars, live
  <2>. QED
    BY <1>2, <1>3, <1>4, <1>8, <2>1 DEF Service, NonContiguous, ScanSkips, Select, mediumVars
<1>. QED
  BY <1>1, <1>5, <1>6, <1>7, <1>8 DEF Next

LEMMA SBIsValid ==
  ASSUME NEW t \in Nat, NEW x \in Nat \ {0}
  PROVE  validateSuperblock(SB(t, x)) /\ SB(t, x).xid = x /\ SB(t, x).type = t /\ SB(t, x).intact
BY DEF validateSuperblock, SB, NxMagic

\* While the ring is written: either block zero still is the last checkpoint
\* committed, or that lies where all but a round passes before it is overwritten.
LEMMA LatestIsFar ==
  ASSUME AreaTypeOK, Phases, BlockZeroIsCommitted, RingLayout, phase = "live", DescBlocks # 1
  PROVE  \/ blockZero.xid >= committed
         \/ /\ DescBlocks >= 2 /\ LatestAt \in AreaOffsets
            /\ area[LatestAt] = SB(storedType, committed)
            /\ WritesBefore(LatestAt) >= DescBlocks - 2
<1>1. CASE committed = 1
  BY <1>1 DEF BlockZeroIsCommitted
<1>2. CASE committed # 1
  <2>1. DescBlocks >= 2
    BY <1>2 DEF Phases
  <2>2. WritesBefore(LatestAt) >= DescBlocks - 2
    BY <2>1 DEF WritesBefore, LatestAt, Back, AreaTypeOK
  <2>. QED
    BY <1>2, <2>1, <2>2, RingMoves DEF RingLayout
<1>. QED
  BY <1>1, <1>2

LEMMA WritesCome ==
  ASSUME AreaTypeOK, WriteBlock, NEW q \in AreaOffsets
  PROVE  /\ q = ring => WritesBefore(q) = 0
         /\ q # ring => WritesBefore(q)' = WritesBefore(q) - 1
<1>1. ring' = IF ring + 1 = DescBlocks THEN 0 ELSE ring + 1
  BY NextRing DEF WriteBlock, AreaTypeOK
<1>. QED
  BY <1>1 DEF WritesBefore, AreaTypeOK, AreaOffsets, WriteBlock

LEMMA InSightStep ==
  AreaTypeOK /\ Phases /\ BlockZeroIsCommitted /\ RingLayout /\ InSight /\ [Next]_vars => InSight'
<1> SUFFICES ASSUME AreaTypeOK, Phases, BlockZeroIsCommitted, RingLayout, InSight, [Next]_vars,
                    phase' \in {"mount", "scan"}, AreaSeen',
                    IF running' THEN written' < DescBlocks - 1 ELSE DescBlocks \notin {1, 2}
             PROVE  InSightHow'
  BY DEF InSight
<1>1. CASE Crash
  <2>1. UNCHANGED <<blockZero, storedType, committed, running, blockOffset>> /\ phase = "live"
    BY <1>1 DEF Crash, setup, live
  <2>2. ~running /\ blockOffset = 0 /\ Target' = committed
    BY <2>1 DEF Phases, Target
  <2>3. CASE blockZero.xid >= committed
    BY <2>1, <2>2, <2>3 DEF InSightHow
  <2>4. CASE /\ DescBlocks >= 2 /\ LatestAt \in AreaOffsets
             /\ area[LatestAt] = SB(storedType, committed)
    <3>1. LatestAt # ring
      BY <2>1, <2>2, <2>4, RingMoves
    <3>2. area'[LatestAt] = area[LatestAt]
      BY <1>1, <2>4, <3>1 DEF Crash, AreaTypeOK
    <3>3. LatestAt >= 0
      BY <2>4 DEF AreaOffsets
    <3> DEFINE q == LatestAt
    <3>4. q \in AreaOffsets /\ q >= blockOffset' /\ area'[q] = SB(storedType', Target') /\ ~running'
      BY <2>1, <2>2, <2>4, <3>2, <3>3
    <3> HIDE DEF q
    <3>. QED
      BY <3>4 DEF InSightHow
  <2>. QED
    BY <2>1, <2>2, <2>3, <2>4, LatestIsFar
<1>2. CASE OpenRunning
  <2>1. /\ UNCHANGED <<area, blockZero, storedType, blockOffset, ring, written, half>>
        /\ phase = "live" /\ running' /\ Target' = committed
    BY <1>2 DEF OpenRunning, setup, Target
  <2>2. ~running /\ blockOffset = 0 /\ written = 0 /\ DescBlocks # 1
    BY <2>1 DEF Phases
  <2>3. CASE blockZero.xid >= committed
    BY <2>1, <2>3 DEF InSightHow
  <2>4. CASE /\ DescBlocks >= 2 /\ LatestAt \in AreaOffsets
             /\ area[LatestAt] = SB(storedType, committed)
             /\ WritesBefore(LatestAt) >= DescBlocks - 2
    <3>1. PICK q \in AreaOffsets : /\ q >= 0
                              /\ area[q] = SB(storedType, committed)
                              /\ WritesBefore(q) >= DescBlocks - 2
                              /\ WritesBefore(q) \in Int
      BY <2>4 DEF AreaOffsets, WritesBefore, AreaTypeOK
    <3>2. \A o \in AreaOffsets : ring' = ring => WritesBefore(o)' = WritesBefore(o)
      BY DEF WritesBefore
    <3>3. WritesBefore(q)' + written' >= DescBlocks - 2
      BY <2>1, <2>2, <3>1, <3>2
    <3>. QED
      BY <2>1, <2>2, <3>1, <3>3 DEF InSightHow
  <2>. QED
    BY <2>1, <2>2, <2>3, <2>4, LatestIsFar
<1>3. CASE WriteBlock
  <2>1. /\ UNCHANGED <<blockZero, storedType, contiguous, fromDevice, missed, blockOffset, phase, candidates, running, atScan>>
        /\ phase \in {"mount", "scan"} /\ running /\ written' = written + 1
    BY <1>3 DEF WriteBlock, setup
  <2>2. AreaSeen /\ written < DescBlocks - 1
    BY <2>1 DEF AreaSeen, AreaTypeOK
  <2>3. InSightHow
    BY <2>1, <2>2 DEF InSight
  <2>4. Target' = Target
    BY <2>1 DEF Target
  <2>5. CASE \E q \in AreaOffsets : q >= blockOffset /\ area[q] = SB(storedType, Target) /\ WritesBefore(q) + written >= DescBlocks - 2
    <3>1. PICK q \in AreaOffsets : q >= blockOffset /\ area[q] = SB(storedType, Target) /\ WritesBefore(q) + written >= DescBlocks - 2
      BY <2>5
    <3>2. q # ring
      BY <1>3, <2>1, <3>1, WritesCome DEF AreaTypeOK
    <3>3. WritesBefore(q)' + written' >= DescBlocks - 2
      <4>1. WritesBefore(q) \in Int
        BY DEF WritesBefore, AreaOffsets, AreaTypeOK
      <4>. QED
        BY <1>3, <2>1, <3>1, <3>2, <4>1, WritesCome DEF AreaTypeOK
    <3>4. area'[q] = area[q]
      BY <1>3, <3>2 DEF WriteBlock, AreaTypeOK
    <3>. QED
      BY <2>1, <2>4, <3>1, <3>3, <3>4 DEF InSightHow
  <2>6. CASE blockZero.xid >= Target \/ \E i \in 1..Len(candidates) : candidates[i].valid /\ candidates[i].sb.xid >= Target
    BY <2>1, <2>4, <2>6 DEF InSightHow
  <2>. QED
    BY <2>1, <2>3, <2>5, <2>6 DEF InSightHow
<1>4. CASE StartScan
  <2>1. UNCHANGED mediumVars /\ UNCHANGED <<blockOffset, missed>> /\ phase = "mount"
    BY <1>4 DEF StartScan
  <2>2. candidates = <<>>
    BY <2>1 DEF Phases
  <2>3. InSightHow
    BY <2>1 DEF InSight, AreaSeen, mediumVars, setup, live
  <2>4. \/ blockZero.xid >= Target
        \/ \E q \in AreaOffsets :
             /\ q >= blockOffset
             /\ area[q] = SB(storedType, Target)
             /\ running => WritesBefore(q) + written >= DescBlocks - 2
    BY <2>2, <2>3 DEF InSightHow
  <2>5. Target' = Target /\ \A q : WritesBefore(q)' = WritesBefore(q)
    BY <2>1 DEF Target, WritesBefore, mediumVars, live
  <2>. QED
    BY <2>1, <2>4, <2>5 DEF InSightHow, mediumVars, setup, live
<1>5. CASE ScanBlock
  <2>1. phase = "scan" /\ AreaSeen
    <3>1. phase = "scan"
      BY <1>5 DEF ScanBlock
    <3>2. UNCHANGED <<contiguous, fromDevice, storedType, missed>>
      BY <1>5, ScanBlockFacts
    <3>. QED
      BY <3>1, <3>2 DEF AreaSeen
  <2>2. InSightHow
    BY <1>5, <2>1, ScanBlockFacts DEF InSight
  <2>3. Target' = Target /\ \A q : WritesBefore(q)' = WritesBefore(q)
    BY <1>5, ScanBlockFacts DEF Target, WritesBefore
  <2>4. CASE blockZero.xid >= Target
    BY <1>5, <2>3, <2>4, ScanBlockFacts DEF InSightHow
  <2>5. ASSUME NEW i \in 1..Len(candidates), candidates[i].valid, candidates[i].sb.xid >= Target
        PROVE  InSightHow'
    <3>1. Len(candidates) \in Nat /\ Len(candidates') \in Int
      BY <1>5 DEF AreaTypeOK, ScanBlock
    <3>2. i \in 1..Len(candidates') /\ candidates'[i] = candidates[i]
      BY <1>5, <3>1, ScanBlockFacts
    <3>. QED
      BY <2>3, <2>5, <3>2 DEF InSightHow
  <2>6. ASSUME NEW q \in AreaOffsets, q >= blockOffset, area[q] = SB(storedType, Target),
               running => WritesBefore(q) + written >= DescBlocks - 2
        PROVE  InSightHow'
    <3>1. CASE q = blockOffset
      <4>1. Target \in Nat \ {0}
        BY DEF Target, AreaTypeOK, Phases
      <4>2. validateSuperblock(area[q]) /\ isSuperblock(area[q]) /\ area[q].xid = Target
        BY <2>1, <2>6, <4>1, SBIsValid DEF isSuperblock, AreaSeen, AreaTypeOK
      <4>3. PICK i \in 1..Len(candidates') : candidates'[i] = Candidate(area[q], q + 1)
        BY <1>5, <3>1, <4>2, ScanBlockFacts
      <4>4. candidates'[i].valid /\ candidates'[i].sb.xid >= Target'
        BY <2>3, <4>1, <4>2, <4>3 DEF Candidate
      <4>. QED
        BY <4>4 DEF InSightHow
    <3>2. CASE q # blockOffset
      <4>1. q >= blockOffset'
        BY <1>5, <2>6, <3>2 DEF ScanBlock, AreaOffsets, AreaTypeOK
      <4>2. running' => WritesBefore(q)' + written' >= DescBlocks - 2
        BY <1>5, <2>3, <2>6, ScanBlockFacts
      <4>. QED
        BY <1>5, <2>3, <2>6, <4>1, <4>2, ScanBlockFacts DEF InSightHow
    <3>. QED
      BY <3>1, <3>2
  <2>. QED
    BY <2>2, <2>4, <2>5, <2>6 DEF InSightHow
<1>6. CASE ScanSkips \/ Select \/ NonContiguous
  BY <1>6 DEF ScanSkips, Select, NonContiguous, AreaSeen
<1>7. CASE UNCHANGED vars \/ Done
  <2>1. UNCHANGED vars
    BY <1>7 DEF Done
  <2>2. InSightHow
    BY <2>1 DEF InSight, AreaSeen, vars, mediumVars, setup, live
  <2>3. Target' = Target /\ \A q : WritesBefore(q)' = WritesBefore(q)
    BY <2>1 DEF Target, WritesBefore, vars, mediumVars, live
  <2>. QED
    BY <2>1, <2>2, <2>3 DEF InSightHow, vars, mediumVars, setup, live
<1>8. ~ WriteBlockZero
  BY DEF WriteBlockZero
<1>. QED
  BY <1>1, <1>2, <1>3, <1>4, <1>5, <1>6, <1>7, <1>8 DEF Next, Service

\* What step 4 chooses: block zero is a valid candidate, so there is an answer,
\* and no valid candidate is newer.
LEMMA SelectFacts ==
  ASSUME ScanIInv, Select
  PROVE  /\ UNCHANGED <<mediumVars, missed>> /\ phase = "scan" /\ phase' = "done" /\ blockOffset >= descBlocks
         /\ \E i \in 1..Len(candidates) :
              /\ answer' = candidates[i] /\ candidates[i].valid
              /\ candidates[i].sb.xid >= blockZero.xid
              /\ \A j \in 1..Len(candidates) :
                   candidates[j].valid => candidates[j].sb.xid <= candidates[i].sb.xid
<1>1. UNCHANGED <<mediumVars, missed>> /\ phase = "scan" /\ phase' = "done" /\ blockOffset >= descBlocks
  BY DEF Select
<1>2. Len(candidates) \in Nat /\ Len(candidates) > 0 /\ candidates[1] = Candidate(blockZero, 0)
  BY <1>1 DEF ScanIInv, BlockZeroIsFirst, AreaTypeOK
<1>3. validateSuperblock(blockZero)
  BY SBIsValid DEF ScanIInv, BlockZeroIsCommitted, AreaTypeOK
<1>4. 1 \in Valid /\ candidates[1].sb = blockZero
  BY <1>2, <1>3 DEF Valid, Candidate
<1>5. PICK i \in Latest : answer' = candidates[i]
  BY <1>4 DEF Select
<1>6. i \in Valid /\ i \in 1..Len(candidates) /\ candidates[i].valid
  BY DEF Latest, Valid
<1>7. ASSUME NEW j \in 1..Len(candidates), candidates[j].valid
      PROVE  candidates[j].sb.xid <= candidates[i].sb.xid
  <2>1. j \in Valid
    BY <1>7 DEF Valid
  <2>2. candidates[j].sb.xid \in Nat /\ candidates[i].sb.xid \in Nat
    BY <1>6, CandidateFacts DEF ScanIInv
  <2>3. candidates[j].sb.xid < candidates[i].sb.xid \/ candidates[j].sb.xid = candidates[i].sb.xid
    BY <2>1 DEF Latest
  <2>. QED
    BY <2>2, <2>3
<1>8. candidates[i].sb.xid >= blockZero.xid
  <2>1. blockZero.xid <= candidates[i].sb.xid
    BY <1>2, <1>4, <1>7 DEF Valid
  <2>. QED
    BY <2>1, <1>6, CandidateFacts DEF ScanIInv, AreaTypeOK, Block
<1>. QED
  BY <1>1, <1>5, <1>6, <1>7, <1>8

LEMMA AnswerStep == IInv /\ [Next]_vars => AnswerIInv'
<1> SUFFICES ASSUME IInv, [Next]_vars PROVE AnswerIInv'
  OBVIOUS
<1>1. CASE Select
  <2>1. ScanIInv
    BY DEF IInv
  <2>2. PICK i \in 1..Len(candidates) :
          /\ answer' = candidates[i] /\ candidates[i].valid
          /\ candidates[i].sb.xid >= blockZero.xid
          /\ \A j \in 1..Len(candidates) :
               candidates[j].valid => candidates[j].sb.xid <= candidates[i].sb.xid
    BY <1>1, <2>1, SelectFacts
  <2>3. /\ UNCHANGED <<area, blockZero, contiguous, storedType, fromDevice, committed, running, atScan, written, missed>>
        /\ phase = "scan" /\ blockOffset >= descBlocks
    BY <1>1, <2>1, SelectFacts DEF mediumVars, setup, live
  <2>4. candidates[i].sb.xid \in Nat /\ blockZero.xid \in Nat /\ Target \in Nat
    BY <2>1, CandidateFacts DEF ScanIInv, AreaTypeOK, Block, Target
  <2>5. /\ validateSuperblock(candidates[i].sb)
        /\ candidates[i].sb.intact => candidates[i].sb.xid <= committed
    BY <2>1, <2>2 DEF ScanIInv, NothingIsNewer, NotNewer
  <2>6. NeverOlderThanBlockZero'
    <3> SUFFICES ASSUME Found'
                 PROVE  /\ validateSuperblock(answer'.sb)
                        /\ blockZero'.xid <= answer'.sb.xid
                        /\ AnswerTorn' \/ answer'.sb.xid <= committed'
      BY DEF NeverOlderThanBlockZero
    <3>1. answer'.sb = candidates[i].sb
      BY <2>2
    <3>2. blockZero'.xid <= answer'.sb.xid
      BY <2>2, <2>3, <2>4, <3>1
    <3>3. AnswerTorn' \/ answer'.sb.xid <= committed'
      <4>1. CASE ~answer'.sb.intact
        BY <4>1 DEF AnswerTorn
      <4>2. CASE answer'.sb.intact
        BY <2>3, <2>5, <3>1, <4>2
      <4>. QED
        BY <4>1, <4>2
    <3>. QED
      BY <2>5, <3>1, <3>2, <3>3
  <2>7. ASSUME AreaSeen, IF running THEN written < DescBlocks - 1 ELSE DescBlocks \notin {1, 2}
        PROVE  candidates[i].sb.xid >= Target
    <3>1. InSightHow
      BY <2>1, <2>3, <2>7 DEF ScanIInv, InSight
    <3>2. ~ \E q \in AreaOffsets : q >= blockOffset
      BY <2>1, <2>3, <2>7 DEF AreaSeen, descBlocks, AreaOffsets, ScanIInv, AreaTypeOK
    <3>3. CASE blockZero.xid >= Target
      BY <2>2, <2>4, <3>3
    <3>4. ASSUME NEW j \in 1..Len(candidates), candidates[j].valid, candidates[j].sb.xid >= Target
          PROVE  candidates[i].sb.xid >= Target
      <4>1. candidates[j].sb.xid \in Nat
        BY <2>1, CandidateFacts DEF ScanIInv
      <4>. QED
        BY <2>2, <2>4, <3>4, <4>1
    <3>. QED
      BY <3>1, <3>2, <3>3, <3>4 DEF InSightHow
  <2>8. LiveScanKeepsUp'
    BY <2>2, <2>3, <2>4, <2>7 DEF LiveScanKeepsUp, AreaSeen, Target
  <2>9. RecoversLatestUnlessTiny'
    <3> SUFFICES ASSUME DescBlocks \notin {1, 2}, AreaSeen', ~running'
                 PROVE  Found' /\ answer'.sb.xid = IF AnswerTorn' THEN committed' + 1 ELSE committed'
      BY DEF RecoversLatestUnlessTiny, RecoversLatest
    <3>1. AreaSeen /\ ~running
      BY <2>3 DEF AreaSeen
    <3>2. candidates[i].sb.xid >= committed
      BY <2>7, <3>1 DEF Target
    <3>3. TornIsOlderOrNext(candidates[i].sb, committed)
      BY <2>1, <2>3, <3>1 DEF ScanIInv, AfterCrash
    <3>4. committed \in Nat
      BY <2>1 DEF ScanIInv, AreaTypeOK
    <3>5. candidates[i].sb.xid = IF ~candidates[i].sb.intact THEN committed + 1 ELSE committed
      BY <2>4, <2>5, <3>2, <3>3, <3>4 DEF TornIsOlderOrNext
    <3>6. Found'
      BY <1>1, <2>2 DEF Found, Failed, NoAnswer, Select
    <3>. QED
      BY <2>2, <2>3, <3>5, <3>6 DEF AnswerTorn
  <2>. QED
    BY <2>6, <2>8, <2>9 DEF AnswerIInv
<1>2. CASE phase' # "done"
  BY <1>2 DEF AnswerIInv, RecoversLatestUnlessTiny, RecoversLatest, NeverOlderThanBlockZero, LiveScanKeepsUp, Found
<1>3. CASE NonContiguous
  BY <1>3 DEF NonContiguous, isNonContiguous, AnswerIInv, RecoversLatestUnlessTiny, RecoversLatest,
     NeverOlderThanBlockZero, LiveScanKeepsUp, Found, AreaSeen, mediumVars, setup, live
<1>4. CASE UNCHANGED vars
  BY <1>4 DEF vars, mediumVars, setup, live, IInv, AnswerIInv, RecoversLatestUnlessTiny, RecoversLatest,
     NeverOlderThanBlockZero, LiveScanKeepsUp, Found, AnswerTorn, AreaSeen
<1>. QED
  BY <1>1, <1>2, <1>3, <1>4 DEF Next, WriteBlock, WriteBlockZero, Crash, OpenRunning, Service, StartScan,
     ScanBlock, ScanSkips, Done

-----------------------------------------------------------------------------
\* The invariant holds when the container is made and is kept by every step.
LEMMA InitIInv == Init => IInv
<1> SUFFICES ASSUME Init PROVE IInv
  OBVIOUS
<1>1. storedType \in Nat /\ contiguous \in BOOLEAN
  BY DEF Init
<1>2. AreaTypeOK
  <2>1. area \in [AreaOffsets -> Block] /\ blockZero \in Block /\ answer \in CandidateType
    BY <1>1, BlockTypes DEF Init, AreaOffsets
  <2>2. candidates \in Seq(CandidateType)
    BY DEF Init
  <2>3. half \in BOOLEAN /\ running \in BOOLEAN /\ missed \in BOOLEAN /\ fromDevice \in BOOLEAN
    BY Zenon DEF Init
  <2>4. /\ ring \in Nat /\ (DescBlocks > 0 => ring < DescBlocks)
        /\ committed \in Nat \ {0} /\ atScan \in Nat /\ written \in Nat /\ blockOffset \in Nat
    BY DEF Init
  <2>5. phase \in {"live", "mount", "scan", "done"}
    BY DEF Init
  <2>. QED
    BY <1>1, <2>1, <2>2, <2>3, <2>4, <2>5 DEF AreaTypeOK
<1>3. Phases
  BY DEF Init, Phases
<1>4. BlockZeroIsCommitted
  BY DEF Init, BlockZeroIsCommitted, SB
<1>5. \A q \in AreaOffsets : ~area[q].intact /\ area[q].magic = 0
  BY DEF Init, AreaOffsets, Blank
<1>6. NothingIsNewer
  <2>1. \A q \in AreaOffsets : NotNewer(area[q])
    BY <1>5 DEF NotNewer
  <2>2. Len(candidates) = 0
    BY DEF Init
  <2>. QED
    BY <2>1, <2>2 DEF NothingIsNewer
<1>7. BlockZeroIsFirst /\ AfterCrash /\ InSight
  BY DEF Init, BlockZeroIsFirst, AfterCrash, InSight
<1>8. RingLayout
  BY <1>5 DEF Init, RingLayout, NxMagic
<1>9. AnswerIInv
  BY DEF Init, AnswerIInv, RecoversLatestUnlessTiny, RecoversLatest, NeverOlderThanBlockZero, LiveScanKeepsUp, Found
<1>. QED
  BY <1>2, <1>3, <1>4, <1>6, <1>7, <1>8, <1>9 DEF IInv, ScanIInv

LEMMA NextIInv == IInv /\ [Next]_vars => IInv'
BY TypeStep, PhasesStep, BlockZeroIsCommittedStep, NothingIsNewerStep, BlockZeroIsFirstStep, RingLayoutStep,
   AfterCrashStep, InSightStep, AnswerStep DEF IInv, ScanIInv

THEOREM Invariance == Spec => []IInv
BY InitIInv, NextIInv, PTL DEF Spec

\* After a crash anywhere in the ring, in a descriptor area of any size but one
\* and two blocks, the service that sees the area comes up with the last
\* checkpoint committed, or with the torn superblock of the next.
THEOREM LatestIsRecovered ==
  ASSUME DescBlocks \notin {1, 2}
  PROVE  Spec => []RecoversLatest
<1>1. IInv => RecoversLatest
  BY DEF IInv, AnswerIInv, RecoversLatestUnlessTiny
<1>. QED
  BY <1>1, Invariance, PTL

\* Whatever was read or was not, the answer is valid, no older than block zero
\* and, unless torn, no newer than the last commit.
THEOREM AnswerIsNotStale == Spec => []NeverOlderThanBlockZero
<1>1. IInv => NeverOlderThanBlockZero
  BY DEF IInv, AnswerIInv
<1>. QED
  BY <1>1, Invariance, PTL

\* A scan of a container in use that overlaps with less than a round of the
\* ring answers with no older a checkpoint than the last one at its beginning.
THEOREM LiveScanIsCurrent == Spec => []LiveScanKeepsUp
<1>1. IInv => LiveScanKeepsUp
  BY DEF IInv, AnswerIInv
<1>. QED
  BY <1>1, Invariance, PTL

=============================================================================
