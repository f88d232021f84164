------------------------- MODULE ObjectMapBTreeCache -------------------------
(***************************************************************************)
(* services/object_map_btree_cache.go: the two-level LRU cache.  Level 1   *)
(* holds parsed B-tree nodes by OID and is limited by their number, level  *)
(* 2 holds raw blocks by block number and is limited by their total size.  *)
(* Every method runs under c.mu, so each is one action.                    *)
(*                                                                         *)
(* A node is a model value; a block is a record [len, id], of which the    *)
(* cache looks at the length alone.  The statistics counters are left out: *)
(* nothing but GetStats reads them.                                        *)
(***************************************************************************)
EXTENDS RecencyList, FiniteSetsExt

CONSTANTS
  OIDs,          \* keys of the node level
  Nodes,         \* parsed nodes
  BlockNums,     \* keys of the block level
  Blocks,        \* block contents, [len : Nat, id : ...]
  maxNodes,      \* c.maxNodes
  maxBlockSize   \* c.maxBlockSize, bytes

\* NewObjectMapBTreeCache replaces limits that are not positive.
ASSUME LimitsAssumption ==
  /\ maxNodes \in Nat \ {0}
  /\ maxBlockSize \in Nat \ {0}
  /\ \A d \in Blocks : d.len \in Nat

VARIABLES
  nodeCache,         \* OID -> node
  nodeOrder,         \* OIDs, most recently used first
  currentNodeCount,
  blockCache,        \* block number -> block
  blockOrder,        \* block numbers, most recently used first
  currentBlockSize

nodeVars == <<nodeCache, nodeOrder, currentNodeCount>>
blockVars == <<blockCache, blockOrder, currentBlockSize>>
vars == <<nodeCache, nodeOrder, currentNodeCount,
          blockCache, blockOrder, currentBlockSize>>

\* delete(m, k) for every k outside S, and m[k] = v.
Only(m, S) == [k \in DOMAIN m \cap S |-> m[k]]
With(m, k, v) == [x \in DOMAIN m \cup {k} |-> IF x = k THEN v ELSE m[x]]
Empty == [k \in {} |-> k]

Init ==
  /\ nodeCache = Empty /\ nodeOrder = <<>> /\ currentNodeCount = 0
  /\ blockCache = Empty /\ blockOrder = <<>> /\ currentBlockSize = 0

-----------------------------------------------------------------------------
(* Level 1: nodes.                                                         *)

\* Mutant: a hit does not count as a use.
GetNodeUntouched(oid) ==
  /\ oid \in DOMAIN nodeCache
  /\ UNCHANGED vars

\* A hit; a miss changes nothing but statistics.
GetNode(oid) ==
  /\ oid \in DOMAIN nodeCache
  /\ nodeOrder' = MoveToFront(nodeOrder, oid)
  /\ UNCHANGED <<nodeCache, currentNodeCount, blockVars>>

\* PutNode of a cached OID: the entry moves to the front, the node it holds
\* stays.
PutNodeAgain(oid) ==
  /\ oid \in DOMAIN nodeCache
  /\ nodeOrder' = MoveToFront(nodeOrder, oid)
  /\ UNCHANGED <<nodeCache, currentNodeCount, blockVars>>

\* Mutant: evicts only above maxNodes + 1.
NodesLeftLate(count, len) ==
  IF count <= maxNodes + 1 THEN len ELSE len - (count - maxNodes - 1)

\* How many list entries are left when the loop
\*   for currentNodeCount > maxNodes && nodeOrder.Len() > 0 { evictOldestNode() }
\* ends, with count nodes counted and len entries in the list.
NodesLeft(count, len) ==
  IF count <= maxNodes THEN len
  ELSE IF len <= count - maxNodes THEN 0 ELSE len - (count - maxNodes)

PutNodeNew(oid, node) ==
  LET order == PushFront(nodeOrder, oid)
      left  == NodesLeft(currentNodeCount + 1, Len(order))
      kept  == KeepFront(order, left)
  IN  /\ oid \notin DOMAIN nodeCache
      /\ nodeOrder' = kept
      /\ nodeCache' = Only(With(nodeCache, oid, node), Keys(kept))
      /\ currentNodeCount' = currentNodeCount + 1 - (Len(order) - left)
      /\ UNCHANGED blockVars

PutNode(oid, node) == PutNodeAgain(oid) \/ PutNodeNew(oid, node)

\* Mutant: the list element outlives the map entry.
InvalidateNodeKeepsElement(oid) ==
  /\ oid \in DOMAIN nodeCache
  /\ nodeCache' = Only(nodeCache, DOMAIN nodeCache \ {oid})
  /\ currentNodeCount' = currentNodeCount - 1
  /\ UNCHANGED <<nodeOrder, blockVars>>

InvalidateNode(oid) ==
  /\ oid \in DOMAIN nodeCache
  /\ nodeCache' = Only(nodeCache, DOMAIN nodeCache \ {oid})
  /\ nodeOrder' = RemoveKey(nodeOrder, oid)
  /\ currentNodeCount' = currentNodeCount - 1
  /\ UNCHANGED blockVars

ClearNodeCache ==
  /\ nodeCache' = Empty /\ nodeOrder' = <<>> /\ currentNodeCount' = 0
  /\ UNCHANGED blockVars

-----------------------------------------------------------------------------
(* Level 2: blocks.                                                        *)

GetBlock(b) ==
  /\ b \in DOMAIN blockCache
  /\ blockOrder' = MoveToFront(blockOrder, b)
  /\ UNCHANGED <<blockCache, currentBlockSize, nodeVars>>

PutBlockAgain(b) ==
  /\ b \in DOMAIN blockCache
  /\ blockOrder' = MoveToFront(blockOrder, b)
  /\ UNCHANGED <<blockCache, currentBlockSize, nodeVars>>

\* Bytes held by the list entries from position i on.
Tail_(order, m, i) == MapThenSumSet(LAMBDA j : m[order[j]].len, i..Len(order))

\* Mutant: one eviction at most (if instead of for).
BlocksLeftOnce(order, m, size) ==
  IF size > maxBlockSize THEN Len(order) - 1 ELSE Len(order)

\* How many list entries are left when the loop
\*   for currentBlockSize > maxBlockSize && blockOrder.Len() > 0 { evictOldestBlock() }
\* ends: the longest front part that brings the size down to the limit.
BlocksLeft(order, m, size) ==
  Max({0} \cup {n \in 0..Len(order) : size - Tail_(order, m, n + 1) <= maxBlockSize})

PutBlockNew(b, data) ==
  LET order == PushFront(blockOrder, b)
      all   == With(blockCache, b, data)
      size  == currentBlockSize + data.len
      left  == BlocksLeft(order, all, size)
      kept  == KeepFront(order, left)
  IN  /\ b \notin DOMAIN blockCache
      /\ blockOrder' = kept
      /\ blockCache' = Only(all, Keys(kept))
      /\ currentBlockSize' = size - Tail_(order, all, left + 1)
      /\ UNCHANGED nodeVars

PutBlock(b, data) == PutBlockAgain(b) \/ PutBlockNew(b, data)

\* Mutant: the size is not given back.
InvalidateBlockKeepsSize(b) ==
  /\ b \in DOMAIN blockCache
  /\ blockCache' = Only(blockCache, DOMAIN blockCache \ {b})
  /\ blockOrder' = RemoveKey(blockOrder, b)
  /\ UNCHANGED <<currentBlockSize, nodeVars>>

InvalidateBlock(b) ==
  /\ b \in DOMAIN blockCache
  /\ currentBlockSize' = currentBlockSize - blockCache[b].len
  /\ blockCache' = Only(blockCache, DOMAIN blockCache \ {b})
  /\ blockOrder' = RemoveKey(blockOrder, b)
  /\ UNCHANGED nodeVars

ClearBlockCache ==
  /\ blockCache' = Empty /\ blockOrder' = <<>> /\ currentBlockSize' = 0
  /\ UNCHANGED nodeVars

Clear ==
  /\ nodeCache' = Empty /\ nodeOrder' = <<>> /\ currentNodeCount' = 0
  /\ blockCache' = Empty /\ blockOrder' = <<>> /\ currentBlockSize' = 0

Next ==
  \/ \E oid \in OIDs : GetNode(oid) \/ InvalidateNode(oid)
  \/ \E oid \in OIDs, n \in Nodes : PutNode(oid, n)
  \/ \E b \in BlockNums : GetBlock(b) \/ InvalidateBlock(b)
  \/ \E b \in BlockNums, d \in Blocks : PutBlock(b, d)
  \/ ClearNodeCache \/ ClearBlockCache \/ Clear

Spec == Init /\ [][Next]_vars

-----------------------------------------------------------------------------
(* Properties.                                                             *)

\* The node map and the recency list hold the same OIDs, each once, and
\* currentNodeCount counts them: no sequence of puts, hits, evictions and
\* invalidations leaves a list element whose eviction would delete nothing,
\* or a map entry nothing can evict; nor does any leave more nodes than the limit
\* (111-144, 200-215, 236-245).
NodeLevelConsistent ==
  /\ Distinct(nodeOrder)
  /\ Keys(nodeOrder) = DOMAIN nodeCache
  /\ currentNodeCount = Len(nodeOrder)
  /\ currentNodeCount <= maxNodes

\* The same for blocks; currentBlockSize is the sum of the lengths of the
\* cached blocks, through partial eviction runs, and within the limit even after
\* a block larger than the whole cache was put: the loop then evicts everything,
\* that block included (162-197, 218-233, 248-257).
BlockLevelConsistent ==
  /\ Distinct(blockOrder)
  /\ Keys(blockOrder) = DOMAIN blockCache
  /\ currentBlockSize = Tail_(blockOrder, blockCache, 1)
  /\ currentBlockSize <= maxBlockSize

=============================================================================
