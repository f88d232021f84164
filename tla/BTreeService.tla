----------------------------- MODULE BTreeService -----------------------------
(***************************************************************************)
(* services/btree_service.go: GetRootNode and GetChildNode, the composition *)
(* of three caches: the node and block levels of ObjectMapBTreeCache, the   *)
(* resolver's oIDCache and the container reader's blockCache.  Each cache   *)
(* takes its own lock, once per access, so every access is a step of its    *)
(* own and goroutines interleave between them.                              *)
(*                                                                          *)
(* The medium is written while it is read; its state number v determines    *)
(* where the object map places an object, Place(oid, xid, v), and what a    *)
(* block holds: the bytes of block p read in state v are [at, ver].  A node *)
(* is what it was parsed from.                                              *)
(***************************************************************************)
EXTENDS ObjectMapBTreeCache

CONSTANTS
  Callers,         \* goroutines
  XIDs,            \* transaction identifiers asked for
  OmapBlock,       \* the block of the object map
  Place(_, _, _),  \* where the object map of state v puts <<oid, xid>>; 0: nowhere
  Unparsable,      \* blocks NewBTreeNodeReader refuses
  BlockLen,        \* bytes per block
  MaxVersion       \* bound: how often the medium is written

VARIABLES
  blocksRead,  \* container.blockCache: block number -> state it was read in
  oIDCache,    \* resolver.oIDCache: <<oid, xid>> -> block number
  version,     \* state of the medium
  clearing,    \* a ClearCache call has cleared the nodes and not yet the blocks
  pc,          \* per caller
  want,        \* per caller: <<oid, xid>>
  physAddr,    \* per caller
  blockData,   \* per caller
  result       \* per caller: the node returned last, or None

cacheVars == <<nodeCache, nodeOrder, currentNodeCount,
               blockCache, blockOrder, currentBlockSize>>
lowVars == <<blocksRead, oIDCache>>
localVars == <<want, physAddr, blockData>>
svcVars == <<cacheVars, lowVars, version, clearing, pc, localVars, result>>

None == [at |-> 0, ver |-> 0]
Bytes(p, v) == [len |-> BlockLen, at |-> p, ver |-> v]
Parsed(d) == [at |-> d.at, ver |-> d.ver]

SvcInit ==
  /\ Init
  /\ blocksRead = Empty /\ oIDCache = Empty
  /\ version = 0 /\ clearing = FALSE
  /\ pc = [c \in Callers |-> "idle"]
  /\ want = [c \in Callers |-> <<0, 0>>]
  /\ physAddr = [c \in Callers |-> 0]
  /\ blockData = [c \in Callers |-> Bytes(0, 0)]
  /\ result = [c \in Callers |-> None]

-----------------------------------------------------------------------------

\* GetRootNode(oid, xid) and GetChildNode(oid, xid) are the same code.
Get(c, oid, xid) ==
  /\ pc[c] = "idle"
  /\ pc' = [pc EXCEPT ![c] = "node"]
  /\ want' = [want EXCEPT ![c] = <<oid, xid>>]
  /\ result' = [result EXCEPT ![c] = None]
  /\ UNCHANGED <<cacheVars, lowVars, version, clearing, physAddr, blockData>>

GoTo(c, where) == pc' = [pc EXCEPT ![c] = where]

\* The call returns; its local variables are gone.
Return(c, node) ==
  /\ GoTo(c, "idle")
  /\ result' = [result EXCEPT ![c] = node]
  /\ physAddr' = [physAddr EXCEPT ![c] = 0]
  /\ blockData' = [blockData EXCEPT ![c] = Bytes(0, 0)]
  /\ UNCHANGED <<want, version, clearing>>

\* bt.cache.GetNode(oid): the key is the OID alone.
NodeHit(c) ==
  /\ pc[c] = "node"
  /\ GetNode(want[c][1])
  /\ Return(c, nodeCache[want[c][1]])
  /\ UNCHANGED lowVars

NodeMiss(c) ==
  /\ pc[c] = "node"
  /\ want[c][1] \notin DOMAIN nodeCache
  /\ GoTo(c, "resolve")
  /\ UNCHANGED <<cacheVars, lowVars, version, clearing, localVars, result>>

\* container.ReadBlock(p) of ContainerReader: from its cache, or from the
\* medium as it is now; a block read is cached.
Read(p) == IF p \in DOMAIN blocksRead THEN blocksRead[p] ELSE version
CacheRead(p) == blocksRead' = With(blocksRead, p, Read(p))

ResolveHit(c) ==
  /\ pc[c] = "resolve"
  /\ want[c] \in DOMAIN oIDCache
  /\ physAddr' = [physAddr EXCEPT ![c] = oIDCache[want[c]]]
  /\ GoTo(c, "block")
  /\ UNCHANGED <<cacheVars, lowVars, version, clearing, want, blockData, result>>

\* Mutant: the key of oIDCache leaves the OID out.
ResolveMissByXid(c) ==
  LET p == Place(want[c][1], want[c][2], Read(OmapBlock))
  IN  /\ pc[c] = "resolve"
      /\ want[c] \notin DOMAIN oIDCache
      /\ p # 0
      /\ CacheRead(OmapBlock)
      /\ oIDCache' = [k \in DOMAIN oIDCache \cup (OIDs \X {want[c][2]}) |->
                        IF k[2] = want[c][2] THEN p ELSE oIDCache[k]]
      /\ physAddr' = [physAddr EXCEPT ![c] = p]
      /\ GoTo(c, "block")
      /\ UNCHANGED <<cacheVars, version, clearing, want, blockData, result>>

\* ResolveVirtualObject searches the object map it can read and caches what
\* it finds.
ResolveMiss(c) ==
  LET p == Place(want[c][1], want[c][2], Read(OmapBlock))
  IN  /\ pc[c] = "resolve"
      /\ want[c] \notin DOMAIN oIDCache
      /\ p # 0
      /\ CacheRead(OmapBlock)
      /\ oIDCache' = With(oIDCache, want[c], p)
      /\ physAddr' = [physAddr EXCEPT ![c] = p]
      /\ GoTo(c, "block")
      /\ UNCHANGED <<cacheVars, version, clearing, want, blockData, result>>

\* It cannot be resolved, or a block cannot be read.
ResolveFail(c) ==
  /\ pc[c] = "resolve"
  /\ want[c] \notin DOMAIN oIDCache
  /\ CacheRead(OmapBlock) \/ UNCHANGED blocksRead
  /\ Return(c, None)
  /\ UNCHANGED <<cacheVars, oIDCache>>

\* bt.cache.GetBlock(physAddr)
BlockHit(c) ==
  /\ pc[c] = "block"
  /\ GetBlock(physAddr[c])
  /\ blockData' = [blockData EXCEPT ![c] = blockCache[physAddr[c]]]
  /\ GoTo(c, "parse")
  /\ UNCHANGED <<lowVars, version, clearing, want, physAddr, result>>

BlockMiss(c) ==
  /\ pc[c] = "block"
  /\ physAddr[c] \notin DOMAIN blockCache
  /\ GoTo(c, "read")
  /\ UNCHANGED <<cacheVars, lowVars, version, clearing, localVars, result>>

ReadBlock(c) ==
  /\ pc[c] = "read"
  /\ CacheRead(physAddr[c])
  /\ blockData' = [blockData EXCEPT ![c] = Bytes(physAddr[c], Read(physAddr[c]))]
  /\ GoTo(c, "putblock")
  /\ UNCHANGED <<cacheVars, oIDCache, version, clearing, want, physAddr, result>>

ReadFail(c) ==
  /\ pc[c] = "read"
  /\ Return(c, None)
  /\ UNCHANGED <<cacheVars, lowVars>>

\* bt.cache.PutBlock(physAddr, blockData)
CacheBlock(c) ==
  /\ pc[c] = "putblock"
  /\ PutBlock(physAddr[c], blockData[c])
  /\ GoTo(c, "parse")
  /\ UNCHANGED <<lowVars, version, clearing, localVars, result>>

ParseFail(c) ==
  /\ pc[c] = "parse"
  /\ blockData[c].at \in Unparsable
  /\ Return(c, None)
  /\ UNCHANGED <<cacheVars, lowVars>>

\* bt.cache.PutNode(oid, node), which does not replace a node cached by
\* another goroutine meanwhile; the caller gets its own.
CacheNode(c) ==
  /\ pc[c] = "parse"
  /\ blockData[c].at \notin Unparsable
  /\ PutNode(want[c][1], Parsed(blockData[c]))
  /\ Return(c, Parsed(blockData[c]))
  /\ UNCHANGED lowVars

-----------------------------------------------------------------------------

InvalidateCacheEntry(oid) ==
  /\ InvalidateNode(oid)
  /\ UNCHANGED <<lowVars, version, clearing, pc, localVars, result>>

\* ClearCache takes the cache's lock twice.
ClearCacheNodes ==
  /\ ~clearing
  /\ clearing' = TRUE
  /\ ClearNodeCache
  /\ UNCHANGED <<lowVars, version, pc, localVars, result>>

ClearCacheBlocks ==
  /\ clearing
  /\ clearing' = FALSE
  /\ ClearBlockCache
  /\ UNCHANGED <<lowVars, version, pc, localVars, result>>

\* The container reader drops its whole cache when it is full.
ContainerDrops ==
  /\ blocksRead # Empty
  /\ blocksRead' = Empty
  /\ UNCHANGED <<cacheVars, oIDCache, version, clearing, pc, localVars, result>>

MediumWrite ==
  /\ version < MaxVersion
  /\ version' = version + 1
  /\ UNCHANGED <<cacheVars, lowVars, clearing, pc, localVars, result>>

SvcStep(c) ==
  \/ NodeHit(c) \/ NodeMiss(c)
  \/ ResolveHit(c) \/ ResolveMiss(c) \/ ResolveFail(c)
  \/ BlockHit(c) \/ BlockMiss(c) \/ ReadBlock(c) \/ ReadFail(c) \/ CacheBlock(c)
  \/ ParseFail(c) \/ CacheNode(c)

SvcNext ==
  \/ \E c \in Callers :
       \/ \E oid \in OIDs, xid \in XIDs : Get(c, oid, xid)
       \/ SvcStep(c)
  \/ \E oid \in OIDs : InvalidateCacheEntry(oid)
  \/ ClearCacheNodes \/ ClearCacheBlocks
  \/ ContainerDrops
  \/ MediumWrite

SvcSpec == SvcInit /\ [][SvcNext]_svcVars

-----------------------------------------------------------------------------
(* Properties.                                                             *)

\* Where the object map has ever put an object, for any xid.
Places(oid) == {Place(oid, x, v) : x \in XIDs, v \in 0..version} \ {0}

\* No call is answered with another object's node: through a node cached by
\* OID, an address cached by (OID, xid) and bytes cached twice by address, and
\* with calls overtaking each other, a node cached or returned for an OID was
\* parsed from a block that object has had (332-409).
NodesAreOfTheirObject ==
  /\ \A oid \in DOMAIN nodeCache : nodeCache[oid].at \in Places(oid)
  /\ \A c \in Callers : result[c] # None => result[c].at \in Places(want[c][1])

=============================================================================
