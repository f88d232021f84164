--------------------------- MODULE ContainerReader ---------------------------
(***************************************************************************)
(* services/container_reader.go: one *ContainerReader shared by several    *)
(* goroutines.  A block is identified by where it was read from and when:  *)
(* Data is [off, ver], the byte offset passed to ReadAt and the version    *)
(* the medium had at that moment (a container on a live device is written  *)
(* by the operating system while it is being read).                        *)
(*                                                                         *)
(* ReadBlock holds cr.mu only for the cache lookup and for the cache       *)
(* insertion; the bounds check and the ReadAt between them run unlocked,   *)
(* so they are separate steps here.                                        *)
(***************************************************************************)
EXTENDS Integers, Sequences, FiniteSets

CONSTANTS
  Readers,        \* goroutines calling ReadBlock / ReadBlocks
  BlockNumbers,   \* uint64 start blocks the callers ask for
  MaxCount,       \* bound: largest count given to ReadBlocks
  BlockSize,      \* cr.blockSize, bytes
  ContainerSize,  \* cr.containerSize, bytes
  MediumSize,     \* bytes ReadAt can deliver (the file's or device's length)
  MaxCacheSize,   \* cr.maxCacheSize, bytes
  WordSize,       \* 2^64: block numbers and offsets are taken modulo it
  OwnsFile,       \* TRUE: NewContainerReader; FALSE: ...FromDevice
  MaxVersion      \* bound: how often the medium is written

ASSUME SizesAssumption ==
  /\ BlockSize \in Nat \ {0}
  /\ ContainerSize \in Nat
  /\ MediumSize \in Nat
  /\ MaxCacheSize \in Nat
  /\ WordSize \in Nat \ {0}
  /\ MaxCount \in Nat
  /\ MaxVersion \in Nat

ASSUME CallersAssumption ==
  /\ BlockNumbers \subseteq Nat
  /\ OwnsFile \in BOOLEAN

VARIABLES
  blockCache,       \* cr.blockCache: block number -> Data
  currentCacheSize, \* cr.currentCacheSize
  closed,           \* the file has been closed
  version,          \* how often the medium has been written
  barrier,          \* history: version at the last ClearCache that found no read in flight
  pc,               \* per reader: where in ReadBlocks / ReadBlock it is
  req,              \* per reader: [start, count] of the current or last call
  got,              \* per reader: blocks appended to result so far
  blockData,        \* per reader: the local buffer ReadAt filled
  outcome           \* per reader: how the last call ended

cacheVars == <<blockCache, currentCacheSize>>
mediumVars == <<closed, version, barrier>>
callVars == <<pc, req, got, blockData, outcome>>
vars == <<blockCache, currentCacheSize, closed, version, barrier,
          pc, req, got, blockData, outcome>>

Data == [off : Nat, ver : Nat]
Request == [start : Nat, count : Nat]
NoData == [off |-> 0, ver |-> 0]

\* offset := int64(blockNumber) * int64(cr.blockSize), compared as uint64.
Offset(b) == (b * BlockSize) % WordSize

\* blockNum := startBlock + i, for the block this reader's loop is at.
BlockNum(r) == (req[r].start + Len(got[r])) % WordSize

Init ==
  /\ blockCache = [b \in {} |-> NoData]
  /\ currentCacheSize = 0
  /\ closed = FALSE
  /\ version = 0
  /\ barrier = 0
  /\ pc = [r \in Readers |-> "idle"]
  /\ req = [r \in Readers |-> [start |-> 0, count |-> 0]]
  /\ got = [r \in Readers |-> <<>>]
  /\ blockData = [r \in Readers |-> NoData]
  /\ outcome = [r \in Readers |-> "none"]

-----------------------------------------------------------------------------
(* ReadBlocks(start, count); ReadBlock(b) is the call with count = 1.      *)

\* Mutant: the blocks of the previous call are still in result.
ReadBlocksKeepsResult(r, s, n) ==
  /\ pc[r] = "idle"
  /\ pc' = [pc EXCEPT ![r] = "loop"]
  /\ req' = [req EXCEPT ![r] = [start |-> s, count |-> n]]
  /\ outcome' = [outcome EXCEPT ![r] = "none"]
  /\ UNCHANGED <<got, blockData, cacheVars, mediumVars>>

ReadBlocks(r, s, n) ==
  /\ pc[r] = "idle"
  /\ pc' = [pc EXCEPT ![r] = "loop"]
  /\ req' = [req EXCEPT ![r] = [start |-> s, count |-> n]]
  /\ got' = [got EXCEPT ![r] = <<>>]
  /\ outcome' = [outcome EXCEPT ![r] = "none"]
  /\ UNCHANGED <<blockData, cacheVars, mediumVars>>

\* The loop has fetched every block (at once when count = 0).
ReturnOk(r) ==
  /\ pc[r] = "loop"
  /\ Len(got[r]) = req[r].count
  /\ pc' = [pc EXCEPT ![r] = "idle"]
  /\ outcome' = [outcome EXCEPT ![r] = "ok"]
  /\ UNCHANGED <<req, got, blockData, cacheVars, mediumVars>>

\* Every error path: ReadBlocks drops what it has and returns nil.
Fail(r) ==
  /\ pc' = [pc EXCEPT ![r] = "idle"]
  /\ outcome' = [outcome EXCEPT ![r] = "err"]
  /\ got' = [got EXCEPT ![r] = <<>>]
  /\ UNCHANGED <<req, blockData, cacheVars, mediumVars>>

\* Mutant: returns the cached block without advancing i.
HitNoAdvance(r) ==
  /\ pc[r] = "loop"
  /\ Len(got[r]) < req[r].count
  /\ BlockNum(r) \in DOMAIN blockCache
  /\ UNCHANGED vars

\* Under RLock: the block is cached, a copy is returned.
Hit(r) ==
  /\ pc[r] = "loop"
  /\ Len(got[r]) < req[r].count
  /\ BlockNum(r) \in DOMAIN blockCache
  /\ got' = [got EXCEPT ![r] = Append(@, blockCache[BlockNum(r)])]
  /\ UNCHANGED <<pc, req, blockData, outcome, cacheVars, mediumVars>>

\* Under RLock: not cached; the lock is given up before the device is read.
Miss(r) ==
  /\ pc[r] = "loop"
  /\ Len(got[r]) < req[r].count
  /\ BlockNum(r) \notin DOMAIN blockCache
  /\ pc' = [pc EXCEPT ![r] = "fetch"]
  /\ UNCHANGED <<req, got, blockData, outcome, cacheVars, mediumVars>>

\* "block %d is beyond container size"
Refuse(r) ==
  /\ pc[r] = "fetch"
  /\ Offset(BlockNum(r)) >= ContainerSize
  /\ Fail(r)

\* Mutant: the result of ReadAt is used without the n < blockSize check.
FetchShort(r) ==
  /\ pc[r] = "fetch"
  /\ Offset(BlockNum(r)) < ContainerSize
  /\ ~closed
  /\ blockData' = [blockData EXCEPT ![r] =
                     [off |-> Offset(BlockNum(r)), ver |-> version]]
  /\ pc' = [pc EXCEPT ![r] = "insert"]
  /\ UNCHANGED <<req, got, outcome, cacheVars, mediumVars>>

\* ReadAt delivers a whole block; a closed file delivers nothing.
Fetch(r) ==
  /\ pc[r] = "fetch"
  /\ Offset(BlockNum(r)) < ContainerSize
  /\ Offset(BlockNum(r)) + BlockSize <= MediumSize
  /\ ~closed
  /\ blockData' = [blockData EXCEPT ![r] =
                     [off |-> Offset(BlockNum(r)), ver |-> version]]
  /\ pc' = [pc EXCEPT ![r] = "insert"]
  /\ UNCHANGED <<req, got, outcome, cacheVars, mediumVars>>

\* ReadAt fails (at any time), or reads fewer than blockSize bytes (always,
\* at the end of the medium: "incomplete block read").
FetchFail(r) ==
  /\ pc[r] = "fetch"
  /\ Offset(BlockNum(r)) < ContainerSize
  /\ Fail(r)

\* Mutant: only accounts for the block when the cache was not full.
cacheBlockUncounted(b, d) ==
  LET full == currentCacheSize + BlockSize > MaxCacheSize
      kept == IF full THEN [x \in {} |-> NoData] ELSE blockCache
  IN  /\ blockCache' = [x \in DOMAIN kept \cup {b} |-> IF x = b THEN d ELSE kept[x]]
      /\ currentCacheSize' = IF full THEN 0 ELSE currentCacheSize + BlockSize

\* Mutant: a full cache is paid for with the limit instead of being zeroed.
cacheBlockPaysLimit(b, d) ==
  LET full == currentCacheSize + BlockSize > MaxCacheSize
      kept == IF full THEN [x \in {} |-> NoData] ELSE blockCache
  IN  /\ blockCache' = [x \in DOMAIN kept \cup {b} |-> IF x = b THEN d ELSE kept[x]]
      /\ currentCacheSize' = IF full THEN currentCacheSize - MaxCacheSize
                             ELSE currentCacheSize + BlockSize

\* cacheBlock: drop the whole cache when the block would not fit, then store.
cacheBlock(b, d) ==
  LET full == currentCacheSize + BlockSize > MaxCacheSize
      kept == IF full THEN [x \in {} |-> NoData] ELSE blockCache
  IN  /\ blockCache' = [x \in DOMAIN kept \cup {b} |-> IF x = b THEN d ELSE kept[x]]
      /\ currentCacheSize' = (IF full THEN 0 ELSE currentCacheSize) + BlockSize

\* Mutant: the block is cached under the call's first block number.
InsertUnderStart(r) ==
  /\ pc[r] = "insert"
  /\ cacheBlock(req[r].start, blockData[r])
  /\ got' = [got EXCEPT ![r] = Append(@, blockData[r])]
  /\ blockData' = [blockData EXCEPT ![r] = NoData]
  /\ pc' = [pc EXCEPT ![r] = "loop"]
  /\ UNCHANGED <<req, outcome, mediumVars>>

\* Under Lock: cache what was read, whatever the cache holds by now.
Insert(r) ==
  /\ pc[r] = "insert"
  /\ cacheBlock(BlockNum(r), blockData[r])
  /\ got' = [got EXCEPT ![r] = Append(@, blockData[r])]
  /\ blockData' = [blockData EXCEPT ![r] = NoData]
  /\ pc' = [pc EXCEPT ![r] = "loop"]
  /\ UNCHANGED <<req, outcome, mediumVars>>

-----------------------------------------------------------------------------

Quiet == \A r \in Readers : pc[r] = "idle"

\* Mutant: the size is reset and the map is kept.
ClearCacheKeepsMap ==
  /\ currentCacheSize' = 0
  /\ barrier' = IF Quiet THEN version ELSE barrier
  /\ UNCHANGED <<blockCache, closed, version, callVars>>

\* ClearCache, called by any goroutine.  barrier only records history.
ClearCache ==
  /\ blockCache' = [b \in {} |-> NoData]
  /\ currentCacheSize' = 0
  /\ barrier' = IF Quiet THEN version ELSE barrier
  /\ UNCHANGED <<closed, version, callVars>>

\* Close closes the file; a device is left to its owner.
Close ==
  /\ OwnsFile /\ ~closed
  /\ closed' = TRUE
  /\ UNCHANGED <<version, barrier, cacheVars, callVars>>

\* The operating system writes the medium (not code of this repository).
MediumWrite ==
  /\ version < MaxVersion
  /\ version' = version + 1
  /\ UNCHANGED <<closed, barrier, cacheVars, callVars>>

Step(r) == ReturnOk(r) \/ Hit(r) \/ Miss(r) \/ Refuse(r) \/ Fetch(r)
             \/ FetchFail(r) \/ Insert(r)

Next ==
  \/ \E r \in Readers :
       \/ \E s \in BlockNumbers, n \in 0..MaxCount : ReadBlocks(r, s, n)
       \/ Step(r)
  \/ ClearCache
  \/ Close
  \/ MediumWrite

Spec == Init /\ [][Next]_vars

\* A goroutine inside a call is scheduled again: its critical sections are
\* short, no lock is held across ReadAt, and ReadAt returns.
FairSpec == Spec /\ \A r \in Readers : WF_vars(Step(r))

-----------------------------------------------------------------------------
(* Properties.                                                             *)

TypeOK ==
  /\ blockCache \in [DOMAIN blockCache -> Data]
  /\ DOMAIN blockCache \subseteq Nat
  /\ IsFiniteSet(DOMAIN blockCache)
  /\ currentCacheSize \in Nat
  /\ closed \in BOOLEAN
  /\ version \in 0..MaxVersion
  /\ barrier \in 0..version
  /\ pc \in [Readers -> {"idle", "loop", "fetch", "insert"}]
  /\ req \in [Readers -> Request]
  /\ got \in [Readers -> Seq(Data)]
  /\ blockData \in [Readers -> Data]
  /\ outcome \in [Readers -> {"none", "ok", "err"}]

\* Where block b's bytes are, as long as b * blockSize fits the offset's type.
RightPlace(b, d) == b * BlockSize < WordSize => d.off = b * BlockSize

\* A block number below 2^64/blockSize is always answered with that block:
\* the cache holds it under its own number, and each block appended by
\* ReadBlocks is the one at its position, whichever goroutine cached it
\* (ReadBlock 139-182, cacheBlock 207-218).
BlocksAreRight ==
  /\ \A b \in DOMAIN blockCache : RightPlace(b, blockCache[b])
  /\ \A r \in Readers : \A i \in 1..Len(got[r]) :
       RightPlace((req[r].start + (i - 1)) % WordSize, got[r][i])

\* Whatever number is asked for, even one whose offset wraps, no block is
\* cached or returned that does not start inside the container and lie
\* wholly on the medium (the checks at 151 and 172).
WithinMedium ==
  LET Inside(d) == d.off < ContainerSize /\ d.off + BlockSize <= MediumSize
  IN  /\ \A b \in DOMAIN blockCache : Inside(blockCache[b])
      /\ \A r \in Readers : \A i \in 1..Len(got[r]) : Inside(got[r][i])

\* currentCacheSize never under-reports what the map holds, although two
\* goroutines that miss on one block both insert it and both count it, and it
\* exceeds maxCacheSize only when a single block does (cacheBlock 207-218).
CacheBounded ==
  /\ BlockSize * Cardinality(DOMAIN blockCache) <= currentCacheSize
  /\ currentCacheSize <= MaxCacheSize \/ currentCacheSize <= BlockSize

\* A ClearCache that runs while no read is in flight is a barrier: no cached
\* block, and no block of a call made since, is older, nor newer than the
\* medium (ClearCache 251-257 against the unlocked window of ReadBlock 147-177).
ClearCacheIsBarrier ==
  /\ \A b \in DOMAIN blockCache : blockCache[b].ver \in barrier..version
  /\ \A r \in Readers :
       pc[r] # "idle" => \A i \in 1..Len(got[r]) : got[r][i].ver \in barrier..version

\* What a call in flight knows: it never overruns count, its outcome is open,
\* and between ReadAt and the insertion its buffer is the block its loop is at,
\* not older than the last barrier even though no lock is held (147-177).
InFlight ==
  \A r \in Readers :
    /\ pc[r] # "idle" => Len(got[r]) <= req[r].count /\ outcome[r] = "none"
    /\ pc[r] \in {"fetch", "insert"} => Len(got[r]) < req[r].count
    /\ pc[r] = "insert" =>
         /\ blockData[r].off = Offset(BlockNum(r))
         /\ blockData[r].off < ContainerSize
         /\ blockData[r].off + BlockSize <= MediumSize
         /\ blockData[r].ver \in barrier..version

\* Every ReadBlock / ReadBlocks call returns, whatever other goroutines cache,
\* clear or close meanwhile.
CallsReturn == \A r \in Readers : pc[r] # "idle" ~> pc[r] = "idle"

\* With the cache, the locks and the loop hidden, the reader is a BlockStore:
\* it returns an error or exactly the blocks asked for, none of them older
\* than the last barrier.
Abstract == INSTANCE BlockStore WITH
  call <- [r \in Readers |-> IF pc[r] = "idle" THEN "idle" ELSE "busy"],
  answer <- [r \in Readers |->
               [kind |-> outcome[r],
                blocks |-> IF pc[r] = "idle" THEN got[r] ELSE <<>>]]

ImplementsBlockStore == Abstract!Spec

=============================================================================
