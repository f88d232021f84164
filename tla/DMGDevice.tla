------------------------------ MODULE DMGDevice ------------------------------
(***************************************************************************)
(* disk/dmg.go: OpenDMG finds the container inside a disk image, ReadAt    *)
(* serves reads at offsets into the container from a cache of blocks.      *)
(* Bytes are identified by their position in the file: a read delivers     *)
(* [from, len].  ReadAt holds cacheMutex for the lookup and again for the  *)
(* insertion, and reads the file in between without it.                    *)
(***************************************************************************)
EXTENDS Integers, Sequences, FiniteSets

CONSTANTS
  Callers,        \* goroutines calling ReadAt
  Offsets,        \* off arguments
  Lengths,        \* len(p) arguments
  ReadBlock,          \* 4096
  Images,         \* what OpenDMG may find
  ScanLimit,      \* bytes of the file detection looks at (2 MB)
  CommonOffsets,  \* <<0, GPTAPFSOffset, NxMinimumContainerSize>>
  EntriesStart,   \* index of the first partition entry parseGPTPartitionTable reads
  AutoDetect,     \* config.AutoDetectAPFS
  DefaultOffset,  \* config.DefaultOffset
  MaxCacheSize    \* config.CacheSize, in bytes

Least(S) == {x \in S : \A y \in S : x <= y}

\* The entries of an image's partition table that are of the APFS type.
APFSEntries(im) == IF im.gpt THEN {i \in 1..Len(im.entries) : im.entries[i].apfs} ELSE {}

ASSUME DeviceAssumption ==
  /\ Offsets \subseteq Nat /\ Lengths \subseteq Nat
  /\ ReadBlock \in Nat \ {0}
  /\ MaxCacheSize \in Nat /\ DefaultOffset \in Nat
  /\ AutoDetect \in BOOLEAN
  /\ \A im \in Images : im.magic \subseteq Nat /\ \A i \in 1..Len(im.entries) : im.entries[i].start \in Nat
  /\ EntriesStart \in Nat \ {0}
  /\ ScanLimit \in Nat
  /\ \A i \in 1..Len(CommonOffsets) : CommonOffsets[i] \in Nat /\ CommonOffsets[i] % ReadBlock = 0
  /\ \A i, j \in 1..Len(CommonOffsets) : i < j => CommonOffsets[i] < CommonOffsets[j]

\* What an image is: with APFS partitions in its table, the container is the
\* first of them; without, the container begins at a block boundary with its
\* superblock, of which the checkpoints behind it hold copies.
ASSUME ImageAssumption ==
  \A im \in Images :
    /\ \A i \in Least(APFSEntries(im)) : im.at = im.entries[i].start
    /\ APFSEntries(im) = {} =>
         /\ im.at \in im.magic /\ im.at % ReadBlock = 0
         /\ \A o \in im.magic : o % ReadBlock = 0 => im.at <= o

\* An image: its size, whether a GPT signature is at LBA 1, the partition
\* entries from LBA 2 on (is it of the APFS type, and its start in bytes), the
\* offsets at which a superblock's magic number can be read, and where the
\* container really is.
VARIABLES
  image,
  aligned,           \* the callers read at block boundaries only
  opened,            \* OpenDMG has returned
  offset,            \* d.offset
  blockCache,        \* block number -> [from, len]
  currentCacheSize,
  pc, req,           \* per caller: [off, len]
  p,                 \* per caller: what is in the buffer
  outcome            \* per caller

cacheVars == <<blockCache, currentCacheSize>>
dmgVars == <<image, aligned, opened, offset, blockCache, currentCacheSize, pc, req, p, outcome>>

Nothing == [from |-> 0, len |-> 0]

DMGInit ==
  /\ image \in Images
  /\ aligned \in BOOLEAN
  /\ opened = FALSE
  /\ offset = 0
  /\ blockCache = [b \in {} |-> Nothing]
  /\ currentCacheSize = 0
  /\ pc = [c \in Callers |-> "idle"]
  /\ req = [c \in Callers |-> [off |-> 0, len |-> 0]]
  /\ p = [c \in Callers |-> Nothing]
  /\ outcome = [c \in Callers |-> "none"]

-----------------------------------------------------------------------------
(* OpenDMG.                                                                *)

\* parseGPTPartitionTable: the first APFS entry from EntriesStart on.
GPTOffset(im) ==
  {im.entries[i].start : i \in Least({j \in APFSEntries(im) : j >= EntriesStart})}

Magic(im) == {o \in im.magic : o < ScanLimit}

\* The first common offset with a magic number.
CommonOffset(im) ==
  {CommonOffsets[i] : i \in Least({j \in 1..Len(CommonOffsets) : CommonOffsets[j] \in Magic(im)})}

\* The first block boundary with a magic number.
FullScan(im) == Least({o \in Magic(im) : o % ReadBlock = 0})

\* Mutant: the full scan comes before the partition table.
detectAPFSOffsetScanFirst(im) ==
  IF FullScan(im) # {} THEN FullScan(im) ELSE GPTOffset(im)

\* The three methods, in order.
detectAPFSOffset(im) ==
  IF GPTOffset(im) # {} THEN GPTOffset(im)
  ELSE IF CommonOffset(im) # {} THEN CommonOffset(im)
  ELSE FullScan(im)

OpenDMG ==
  /\ ~opened
  /\ opened' = TRUE
  /\ LET found == IF AutoDetect THEN detectAPFSOffset(image) ELSE {}
     IN  \/ offset' \in found
         \/ found = {} /\ offset' = DefaultOffset
  /\ UNCHANGED <<image, aligned, cacheVars, pc, req, p, outcome>>

-----------------------------------------------------------------------------
(* ReadAt.                                                                 *)

BlockNum(c) == req[c].off \div ReadBlock

ReadAt(c, off, len) ==
  /\ opened
  /\ aligned => off % ReadBlock = 0
  /\ pc[c] = "idle"
  /\ pc' = [pc EXCEPT ![c] = "lookup"]
  /\ req' = [req EXCEPT ![c] = [off |-> off, len |-> len]]
  /\ p' = [p EXCEPT ![c] = Nothing]
  /\ outcome' = [outcome EXCEPT ![c] = "none"]
  /\ UNCHANGED <<image, aligned, opened, offset, cacheVars>>

\* The cache is asked only for block numbers below len(p)/4096, and answers
\* when it holds a block of that length.
Cached(c) ==
  /\ BlockNum(c) < req[c].len \div ReadBlock
  /\ BlockNum(c) \in DOMAIN blockCache
  /\ blockCache[BlockNum(c)].len = req[c].len

CacheHit(c) ==
  /\ pc[c] = "lookup"
  /\ Cached(c)
  /\ p' = [p EXCEPT ![c] = blockCache[BlockNum(c)]]
  /\ pc' = [pc EXCEPT ![c] = "idle"]
  /\ outcome' = [outcome EXCEPT ![c] = "ok"]
  /\ UNCHANGED <<image, aligned, opened, offset, cacheVars, req>>

CacheMiss(c) ==
  /\ pc[c] = "lookup"
  /\ ~Cached(c)
  /\ pc' = [pc EXCEPT ![c] = "read"]
  /\ UNCHANGED <<image, aligned, opened, offset, cacheVars, req, p, outcome>>

\* Mutant: the container's offset is not added.
ReadFileUnadjusted(c) ==
  /\ pc[c] = "read"
  /\ req[c].off + req[c].len <= image.size
  /\ p' = [p EXCEPT ![c] = [from |-> req[c].off, len |-> req[c].len]]
  /\ pc' = [pc EXCEPT ![c] = "insert"]
  /\ UNCHANGED <<image, aligned, opened, offset, cacheVars, req, outcome>>

\* d.file.ReadAt(p, d.offset + off) fills the buffer.
ReadFile(c) ==
  /\ pc[c] = "read"
  /\ offset + req[c].off + req[c].len <= image.size
  /\ p' = [p EXCEPT ![c] = [from |-> offset + req[c].off, len |-> req[c].len]]
  /\ pc' = [pc EXCEPT ![c] = "insert"]
  /\ UNCHANGED <<image, aligned, opened, offset, cacheVars, req, outcome>>

\* It fails, or ends at the end of the file: nothing is cached.
ReadFileFails(c) ==
  /\ pc[c] = "read"
  /\ pc' = [pc EXCEPT ![c] = "idle"]
  /\ outcome' = [outcome EXCEPT ![c] = "err"]
  /\ UNCHANGED <<image, aligned, opened, offset, cacheVars, req, p>>

\* A read of exactly one block's length is cached while there is room, and
\* counted even if the block was cached already.
cacheInsert(b, d) ==
  IF d.len = ReadBlock /\ currentCacheSize + d.len <= MaxCacheSize
  THEN /\ blockCache' = [x \in DOMAIN blockCache \cup {b} |-> IF x = b THEN d ELSE blockCache[x]]
       /\ currentCacheSize' = currentCacheSize + d.len
  ELSE UNCHANGED cacheVars

Insert(c) ==
  /\ pc[c] = "insert"
  /\ cacheInsert(BlockNum(c), p[c])
  /\ pc' = [pc EXCEPT ![c] = "idle"]
  /\ outcome' = [outcome EXCEPT ![c] = "ok"]
  /\ UNCHANGED <<image, aligned, opened, offset, req, p>>

ClearCache ==
  /\ opened
  /\ blockCache' = [b \in {} |-> Nothing]
  /\ currentCacheSize' = 0
  /\ UNCHANGED <<image, aligned, opened, offset, pc, req, p, outcome>>

DMGNext ==
  \/ OpenDMG
  \/ \E c \in Callers :
       \/ \E off \in Offsets, len \in Lengths : ReadAt(c, off, len)
       \/ CacheHit(c) \/ CacheMiss(c) \/ ReadFile(c) \/ ReadFileFails(c) \/ Insert(c)
  \/ ClearCache

DMGSpec == DMGInit /\ [][DMGNext]_dmgVars

-----------------------------------------------------------------------------
(* Properties.                                                             *)

\* "ReadAt implements io.ReaderAt for the APFS container within the DMG": a
\* read that succeeds delivers as many bytes as asked for, from the block that
\* was asked for; and exactly the bytes at that offset, however they were
\* cached and by whom, when the callers read at block boundaries, as
\* ContainerReader does (269-313).
ReadsInPlace ==
  \A c \in Callers : outcome[c] = "ok" =>
    /\ p[c].len = req[c].len
    /\ (p[c].from - offset) \div ReadBlock = BlockNum(c)
    /\ aligned => p[c].from = offset + req[c].off

\* An APFS partition that has one of the entries detection does not read.
Overlooked(im) == \E i \in APFSEntries(im) : i < EntriesStart

\* A container without a partition entry that begins where only the full scan
\* looks, with a copy of its superblock at one of the common offsets, which are
\* looked at before.
Shadowed(im) ==
  /\ APFSEntries(im) = {}
  /\ \A i \in 1..Len(CommonOffsets) : CommonOffsets[i] # im.at
  /\ CommonOffset(im) # {}

\* A container without a partition entry behind the part that is looked at.
Beyond(im) == APFSEntries(im) = {} /\ im.at >= ScanLimit

\* Detection ends at the container: at the partition the table names even when
\* a superblock's magic number is found elsewhere, else at the container's own
\* superblock and not at a copy of it, in all images but those three kinds
\* (135-199).
DetectionFindsContainer ==
  opened /\ AutoDetect /\ ~Overlooked(image) /\ ~Shadowed(image) /\ ~Beyond(image) => offset = image.at

=============================================================================
