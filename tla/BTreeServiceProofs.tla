--------------------------- MODULE BTreeServiceProofs ---------------------------
(***************************************************************************)
(* Proofs about BTreeService for every number of goroutines, every object  *)
(* map and all cache limits.                                               *)
(***************************************************************************)
EXTENDS BTreeService, TLAPS

\* No block read is newer than the medium, every address cached is one the
\* object has had, and every block is filed under its own number.
LowInv ==
  /\ version \in Nat
  /\ \A p \in DOMAIN blocksRead : blocksRead[p] \in 0..version
  /\ \A k \in DOMAIN oIDCache : oIDCache[k] \in Places(k[1])
  /\ \A p \in DOMAIN blockCache : blockCache[p].at = p

NodePart == \A oid \in DOMAIN nodeCache : nodeCache[oid].at \in Places(oid)

\* A call knows what it was made for; from its resolution on, its address is
\* one its object has had, and the bytes it holds were read there.
CallPart(c) ==
  /\ pc[c] # "idle" => want[c] \in OIDs \X XIDs /\ result[c] = None
  /\ pc[c] \in {"block", "read", "putblock", "parse"} => physAddr[c] \in Places(want[c][1])
  /\ pc[c] \in {"putblock", "parse"} => blockData[c].at = physAddr[c]
  /\ result[c] # None => result[c].at \in Places(want[c][1])

CallersOf == <<DOMAIN pc, DOMAIN want, DOMAIN physAddr, DOMAIN blockData, DOMAIN result>>

SvcInv ==
  /\ LowInv /\ NodePart
  /\ CallersOf = <<Callers, Callers, Callers, Callers, Callers>>
  /\ \A c \in Callers : CallPart(c)

-----------------------------------------------------------------------------
\* What With and Only make of a map.
LEMMA WithFacts ==
  ASSUME NEW m, NEW k, NEW v
  PROVE  \A x \in DOMAIN With(m, k, v) :
           \/ x = k /\ With(m, k, v)[x] = v
           \/ x \in DOMAIN m /\ With(m, k, v)[x] = m[x]
BY DEF With

LEMMA OnlyFacts ==
  ASSUME NEW m, NEW S
  PROVE  \A x \in DOMAIN Only(m, S) : x \in DOMAIN m /\ Only(m, S)[x] = m[x]
BY DEF Only

LEMMA EmptyFacts == DOMAIN Empty = {}
BY DEF Empty

\* The medium's state only grows, and with it the places of every object.
LEMMA PlacesGrow ==
  ASSUME version \in Nat, version' = version \/ version' = version + 1, NEW oid
  PROVE  Places(oid) \subseteq Places(oid)'
BY DEF Places

\* A block is read in a state the medium has been in.
LEMMA ReadFacts ==
  ASSUME LowInv, NEW p
  PROVE  /\ Read(p) \in 0..version
         /\ \A x \in DOMAIN With(blocksRead, p, Read(p)) :
              With(blocksRead, p, Read(p))[x] \in 0..version
<1>1. Read(p) \in 0..version
  BY DEF LowInv, Read
<1>. QED
  BY <1>1, WithFacts DEF LowInv

\* What the object map of any state says is a place of the object.
LEMMA ResolvedIsPlace ==
  ASSUME LowInv, NEW oid, NEW xid \in XIDs, NEW p,
         Place(oid, xid, Read(p)) # 0
  PROVE  Place(oid, xid, Read(p)) \in Places(oid)
BY ReadFacts DEF Places

-----------------------------------------------------------------------------
(* The caches' steps.                                                      *)

LEMMA PutNodeKeeps ==
  ASSUME NodePart, NEW oid, NEW node, node.at \in Places(oid), PutNode(oid, node), version' = version
  PROVE  NodePart'
<1>1. CASE PutNodeAgain(oid)
  BY <1>1 DEF PutNodeAgain, NodePart, Places
<1>2. CASE PutNodeNew(oid, node)
  <2>1. PICK S : nodeCache' = Only(With(nodeCache, oid, node), S)
    BY <1>2 DEF PutNodeNew
  <2>2. ASSUME NEW x \in DOMAIN nodeCache' PROVE nodeCache'[x].at \in Places(x)
    BY <2>1, OnlyFacts, WithFacts DEF NodePart
  <2>. QED
    BY <2>2 DEF NodePart, Places
<1>. QED
  BY <1>1, <1>2 DEF PutNode

LEMMA PutBlockKeeps ==
  ASSUME \A p \in DOMAIN blockCache : blockCache[p].at = p,
         NEW b, NEW d, d.at = b, PutBlock(b, d)
  PROVE  \A p \in DOMAIN blockCache' : blockCache'[p].at = p
<1>1. CASE PutBlockAgain(b)
  BY <1>1 DEF PutBlockAgain
<1>2. CASE PutBlockNew(b, d)
  <2>1. PICK S : blockCache' = Only(With(blockCache, b, d), S)
    BY <1>2 DEF PutBlockNew
  <2>. QED
    BY <2>1, OnlyFacts, WithFacts
<1>. QED
  BY <1>1, <1>2 DEF PutBlock

\* What a step leaves alone keeps its part of the invariant.
VersionGrows == version' = version \/ version' = version + 1

LEMMA LowKept ==
  ASSUME LowInv, VersionGrows, UNCHANGED <<blocksRead, oIDCache>>,
         \A p \in DOMAIN blockCache' : blockCache'[p].at = p
  PROVE  LowInv'
<1>1. version' \in Nat /\ version' >= version
  BY DEF LowInv, VersionGrows
<1>2. \A p \in DOMAIN blocksRead' : blocksRead'[p] \in 0..version'
  BY <1>1 DEF LowInv
<1>3. \A k \in DOMAIN oIDCache' : oIDCache'[k] \in Places(k[1])'
  BY PlacesGrow DEF LowInv, VersionGrows
<1>. QED
  BY <1>1, <1>2, <1>3 DEF LowInv

LEMMA NodesKept ==
  ASSUME LowInv, NodePart, VersionGrows,
         \A o \in DOMAIN nodeCache' : o \in DOMAIN nodeCache /\ nodeCache'[o] = nodeCache[o]
  PROVE  NodePart'
BY PlacesGrow DEF LowInv, NodePart, VersionGrows

LEMMA CallKept ==
  ASSUME LowInv, VersionGrows, NEW c \in Callers, CallPart(c),
         pc'[c] = pc[c], want'[c] = want[c], physAddr'[c] = physAddr[c],
         blockData'[c] = blockData[c], result'[c] = result[c]
  PROVE  CallPart(c)'
BY PlacesGrow DEF LowInv, CallPart, VersionGrows

\* A call's step: the others keep their locals.
OthersStay(c) ==
  /\ CallersOf' = CallersOf
  /\ \A x \in Callers \ {c} :
       /\ pc'[x] = pc[x] /\ want'[x] = want[x] /\ physAddr'[x] = physAddr[x]
       /\ blockData'[x] = blockData[x] /\ result'[x] = result[x]

LEMMA OneCallMoves ==
  ASSUME SvcInv, version' = version, NEW c \in Callers, CallPart(c)', OthersStay(c)
  PROVE  CallersOf' = <<Callers, Callers, Callers, Callers, Callers>> /\ \A x \in Callers : CallPart(x)'
<1>1. CallersOf' = <<Callers, Callers, Callers, Callers, Callers>>
  BY DEF SvcInv, OthersStay
<1>2. ASSUME NEW x \in Callers, x # c PROVE CallPart(x)'
  <2>1. /\ pc'[x] = pc[x] /\ want'[x] = want[x] /\ physAddr'[x] = physAddr[x]
        /\ blockData'[x] = blockData[x] /\ result'[x] = result[x]
    BY <1>2 DEF OthersStay
  <2>. QED
    BY <2>1, CallKept DEF SvcInv, VersionGrows
<1>. QED
  BY <1>1, <1>2

LEMMA NobodyMoves ==
  ASSUME SvcInv, VersionGrows, UNCHANGED <<pc, localVars, result>>
  PROVE  CallersOf' = <<Callers, Callers, Callers, Callers, Callers>> /\ \A x \in Callers : CallPart(x)'
<1>1. CallersOf' = <<Callers, Callers, Callers, Callers, Callers>>
  BY DEF SvcInv, CallersOf, localVars
<1>2. ASSUME NEW x \in Callers PROVE CallPart(x)'
  BY CallKept DEF SvcInv, localVars
<1>. QED
  BY <1>1, <1>2

\* The call returns nothing, or a node of its object.
LEMMA ReturnKeeps ==
  ASSUME SvcInv, NEW c \in Callers, NEW node, Return(c, node),
         node # None => node.at \in Places(want[c][1])
  PROVE  CallersOf' = <<Callers, Callers, Callers, Callers, Callers>> /\ \A x \in Callers : CallPart(x)'
<1>1. /\ pc'[c] = "idle" /\ result'[c] = node /\ want' = want /\ version' = version
      /\ Places(want[c][1])' = Places(want[c][1])
  BY DEF Return, GoTo, SvcInv, CallersOf, Places
<1>2. CallPart(c)'
  BY <1>1 DEF CallPart
<1>3. OthersStay(c)
  BY DEF Return, GoTo, SvcInv, CallersOf, OthersStay
<1>. QED
  BY <1>1, <1>2, <1>3, OneCallMoves

-----------------------------------------------------------------------------
LEMMA SvcInvInit == SvcInit => SvcInv
<1> SUFFICES ASSUME SvcInit PROVE SvcInv
  OBVIOUS
<1>1. LowInv /\ NodePart
  BY EmptyFacts DEF SvcInit, Init, LowInv, NodePart
<1>2. CallersOf = <<Callers, Callers, Callers, Callers, Callers>>
  BY DEF SvcInit, CallersOf
<1>3. \A c \in Callers : CallPart(c)
  BY DEF SvcInit, CallPart
<1>. QED
  BY <1>1, <1>2, <1>3 DEF SvcInv

\* A step of a call keeps the invariant.
LEMMA CallStep ==
  ASSUME SvcInv, NEW c \in Callers,
         SvcStep(c) \/ \E oid \in OIDs, xid \in XIDs : Get(c, oid, xid)
  PROVE  SvcInv'
<1> USE DEF VersionGrows
<1>0. /\ LowInv /\ NodePart /\ CallPart(c)
      /\ c \in DOMAIN pc /\ c \in DOMAIN want /\ c \in DOMAIN physAddr /\ c \in DOMAIN blockData /\ c \in DOMAIN result
      /\ \A p \in DOMAIN blockCache : blockCache[p].at = p
  BY DEF SvcInv, CallersOf, LowInv
<1>1. ASSUME NEW oid \in OIDs, NEW xid \in XIDs, Get(c, oid, xid)
      PROVE  SvcInv'
  <2>1. OthersStay(c) /\ version' = version
    BY <1>0, <1>1 DEF Get, localVars, OthersStay, CallersOf
  <2>2. CallPart(c)'
    BY <1>0, <1>1 DEF Get, CallPart
  <2>3. LowInv' /\ NodePart'
    BY <1>0, <1>1, LowKept, NodesKept DEF Get, cacheVars, lowVars
  <2>. QED
    BY <2>1, <2>2, <2>3, OneCallMoves DEF SvcInv
<1>2. CASE NodeHit(c)
  <2>1. nodeCache[want[c][1]].at \in Places(want[c][1])
    BY <1>0, <1>2 DEF NodeHit, GetNode, NodePart
  <2>2. LowInv' /\ NodePart'
    BY <1>0, <1>2, LowKept, NodesKept DEF NodeHit, GetNode, Return, lowVars, blockVars
  <2>. QED
    BY <1>2, <2>1, <2>2, ReturnKeeps DEF NodeHit, SvcInv
<1>3. CASE NodeMiss(c)
  <2>1. OthersStay(c) /\ version' = version
    BY <1>0, <1>3 DEF NodeMiss, GoTo, localVars, OthersStay, CallersOf
  <2>2. CallPart(c)'
    BY <1>0, <1>3 DEF NodeMiss, GoTo, CallPart, localVars, Places
  <2>3. LowInv' /\ NodePart'
    BY <1>0, <1>3, LowKept, NodesKept DEF NodeMiss, cacheVars, lowVars
  <2>. QED
    BY <2>1, <2>2, <2>3, OneCallMoves DEF SvcInv
<1>4. CASE ResolveHit(c)
  <2>1. OthersStay(c) /\ version' = version
    BY <1>0, <1>4 DEF ResolveHit, GoTo, OthersStay, CallersOf
  <2>2. oIDCache[want[c]] \in Places(want[c][1])
    BY <1>0, <1>4 DEF ResolveHit, LowInv
  <2>3. CallPart(c)'
    BY <1>0, <1>4, <2>2 DEF ResolveHit, GoTo, CallPart, Places
  <2>4. LowInv' /\ NodePart'
    BY <1>0, <1>4, LowKept, NodesKept DEF ResolveHit, cacheVars, lowVars
  <2>. QED
    BY <2>1, <2>3, <2>4, OneCallMoves DEF SvcInv
<1>5. CASE ResolveMiss(c)
  <2> DEFINE p == Place(want[c][1], want[c][2], Read(OmapBlock))
  <2>1. OthersStay(c) /\ version' = version
    BY <1>0, <1>5 DEF ResolveMiss, GoTo, OthersStay, CallersOf
  <2>2. p \in Places(want[c][1])
    <3>1. want[c][2] \in XIDs /\ p # 0
      BY <1>0, <1>5 DEF ResolveMiss, CallPart
    <3>. QED
      BY <1>0, <3>1, ResolvedIsPlace
  <2>3. CallPart(c)'
    BY <1>0, <1>5, <2>2 DEF ResolveMiss, GoTo, CallPart, Places
  <2>4. LowInv'
    <3>1. \A x \in DOMAIN blocksRead' : blocksRead'[x] \in 0..version
      BY <1>0, <1>5, ReadFacts DEF ResolveMiss, CacheRead
    <3>2. oIDCache' = With(oIDCache, want[c], p)
      BY <1>5 DEF ResolveMiss
    <3> HIDE DEF p
    <3>3. \A k \in DOMAIN oIDCache' : oIDCache'[k] \in Places(k[1])
      BY <1>0, <2>2, <3>2, WithFacts DEF LowInv
    <3>. QED
      BY <1>0, <1>5, <2>1, <3>1, <3>3 DEF ResolveMiss, LowInv, Places, cacheVars
  <2>5. NodePart'
    BY <1>0, <1>5, NodesKept DEF ResolveMiss, cacheVars
  <2>. QED
    BY <2>1, <2>3, <2>4, <2>5, OneCallMoves DEF SvcInv
<1>6. CASE ResolveFail(c)
  <2>1. LowInv'
    <3>1. \A x \in DOMAIN blocksRead' : blocksRead'[x] \in 0..version
      BY <1>0, <1>6, ReadFacts DEF ResolveFail, CacheRead, LowInv
    <3>. QED
      BY <1>0, <1>6, <3>1 DEF ResolveFail, Return, LowInv, Places, cacheVars
  <2>2. NodePart'
    BY <1>0, <1>6, NodesKept DEF ResolveFail, Return, cacheVars
  <2>. QED
    BY <1>6, <2>1, <2>2, ReturnKeeps DEF ResolveFail, SvcInv
<1>7. CASE BlockHit(c)
  <2>1. OthersStay(c) /\ version' = version
    BY <1>0, <1>7 DEF BlockHit, GoTo, OthersStay, CallersOf
  <2>2. blockCache[physAddr[c]].at = physAddr[c]
    BY <1>0, <1>7 DEF BlockHit, GetBlock
  <2>3. CallPart(c)'
    BY <1>0, <1>7, <2>2 DEF BlockHit, GoTo, CallPart, Places
  <2>4. LowInv' /\ NodePart'
    BY <1>0, <1>7, LowKept, NodesKept DEF BlockHit, GetBlock, nodeVars, lowVars
  <2>. QED
    BY <2>1, <2>3, <2>4, OneCallMoves DEF SvcInv
<1>8. CASE BlockMiss(c)
  <2>1. OthersStay(c) /\ version' = version
    BY <1>0, <1>8 DEF BlockMiss, GoTo, localVars, OthersStay, CallersOf
  <2>2. CallPart(c)'
    BY <1>0, <1>8 DEF BlockMiss, GoTo, CallPart, localVars, Places
  <2>3. LowInv' /\ NodePart'
    BY <1>0, <1>8, LowKept, NodesKept DEF BlockMiss, cacheVars, lowVars
  <2>. QED
    BY <2>1, <2>2, <2>3, OneCallMoves DEF SvcInv
<1>9. CASE ReadBlock(c)
  <2>1. OthersStay(c) /\ version' = version
    BY <1>0, <1>9 DEF ReadBlock, GoTo, OthersStay, CallersOf
  <2>2. CallPart(c)'
    BY <1>0, <1>9 DEF ReadBlock, GoTo, CallPart, Places, Bytes
  <2>3. LowInv'
    <3>1. \A x \in DOMAIN blocksRead' : blocksRead'[x] \in 0..version
      BY <1>0, <1>9, ReadFacts DEF ReadBlock, CacheRead
    <3>. QED
      BY <1>0, <1>9, <3>1 DEF ReadBlock, LowInv, Places, cacheVars
  <2>4. NodePart'
    BY <1>0, <1>9, NodesKept DEF ReadBlock, cacheVars
  <2>. QED
    BY <2>1, <2>2, <2>3, <2>4, OneCallMoves DEF SvcInv
<1>10. CASE ReadFail(c)
  <2>1. LowInv' /\ NodePart'
    BY <1>0, <1>10, LowKept, NodesKept DEF ReadFail, Return, cacheVars, lowVars
  <2>. QED
    BY <1>10, <2>1, ReturnKeeps DEF ReadFail, SvcInv
<1>11. CASE CacheBlock(c)
  <2>1. OthersStay(c) /\ version' = version
    BY <1>0, <1>11 DEF CacheBlock, GoTo, localVars, OthersStay, CallersOf
  <2>2. CallPart(c)'
    BY <1>0, <1>11 DEF CacheBlock, GoTo, CallPart, localVars, Places
  <2>3. \A p \in DOMAIN blockCache' : blockCache'[p].at = p
    BY <1>0, <1>11, PutBlockKeeps DEF CacheBlock, CallPart
  <2>4. nodeCache' = nodeCache
    BY <1>11 DEF CacheBlock, PutBlock, PutBlockAgain, PutBlockNew, nodeVars
  <2>5. LowInv' /\ NodePart'
    BY <1>0, <1>11, <2>3, <2>4, LowKept, NodesKept DEF CacheBlock, lowVars
  <2>. QED
    BY <2>1, <2>2, <2>5, OneCallMoves DEF SvcInv
<1>12. CASE ParseFail(c)
  <2>1. LowInv' /\ NodePart'
    BY <1>0, <1>12, LowKept, NodesKept DEF ParseFail, Return, cacheVars, lowVars
  <2>. QED
    BY <1>12, <2>1, ReturnKeeps DEF ParseFail, SvcInv
<1>13. CASE CacheNode(c)
  <2> DEFINE node == Parsed(blockData[c])
  <2>1. node.at \in Places(want[c][1])
    BY <1>0, <1>13 DEF CacheNode, CallPart, Parsed
  <2> HIDE DEF node
  <2>2. PutNode(want[c][1], node) /\ Return(c, node) /\ UNCHANGED lowVars
    BY <1>13 DEF CacheNode, node
  <2>3. version' = version
    BY <2>2 DEF Return
  <2>4. NodePart'
    BY <1>0, <2>1, <2>2, <2>3, PutNodeKeeps
  <2>5. blockCache' = blockCache
    BY <2>2 DEF PutNode, PutNodeAgain, PutNodeNew, blockVars
  <2>6. LowInv'
    BY <1>0, <2>2, <2>3, <2>5, LowKept DEF lowVars
  <2>. QED
    BY <2>1, <2>2, <2>4, <2>6, ReturnKeeps DEF SvcInv
<1>. QED
  BY <1>1, <1>2, <1>3, <1>4, <1>5, <1>6, <1>7, <1>8, <1>9, <1>10, <1>11, <1>12, <1>13 DEF SvcStep

LEMMA SvcInvStep == SvcInv /\ [SvcNext]_svcVars => SvcInv'
<1> SUFFICES ASSUME SvcInv, [SvcNext]_svcVars PROVE SvcInv'
  OBVIOUS
<1> USE DEF VersionGrows
<1>0. LowInv /\ NodePart /\ \A p \in DOMAIN blockCache : blockCache[p].at = p
  BY DEF SvcInv, LowInv
<1>1. ASSUME NEW c \in Callers, SvcStep(c) \/ \E oid \in OIDs, xid \in XIDs : Get(c, oid, xid)
      PROVE  SvcInv'
  BY <1>1, CallStep
<1>2. ASSUME NEW oid \in OIDs, InvalidateCacheEntry(oid)
      PROVE  SvcInv'
  <2>1. \A o \in DOMAIN nodeCache' : o \in DOMAIN nodeCache /\ nodeCache'[o] = nodeCache[o]
    BY <1>2, OnlyFacts DEF InvalidateCacheEntry, InvalidateNode
  <2>2. LowInv' /\ NodePart'
    BY <1>0, <1>2, <2>1, LowKept, NodesKept DEF InvalidateCacheEntry, InvalidateNode, blockVars, lowVars
  <2>. QED
    BY <1>2, <2>2, NobodyMoves DEF InvalidateCacheEntry, SvcInv
<1>3. CASE ClearCacheNodes
  <2>1. LowInv' /\ NodePart'
    BY <1>0, <1>3, EmptyFacts, LowKept, NodesKept DEF ClearCacheNodes, ClearNodeCache, blockVars, lowVars
  <2>. QED
    BY <1>3, <2>1, NobodyMoves DEF ClearCacheNodes, SvcInv
<1>4. CASE ClearCacheBlocks
  <2>1. LowInv' /\ NodePart'
    BY <1>0, <1>4, EmptyFacts, LowKept, NodesKept DEF ClearCacheBlocks, ClearBlockCache, nodeVars, lowVars
  <2>. QED
    BY <1>4, <2>1, NobodyMoves DEF ClearCacheBlocks, SvcInv
<1>5. CASE ContainerDrops
  <2>1. LowInv'
    BY <1>0, <1>5, EmptyFacts DEF ContainerDrops, LowInv, Places, cacheVars
  <2>2. NodePart'
    BY <1>0, <1>5, NodesKept DEF ContainerDrops, cacheVars
  <2>. QED
    BY <1>5, <2>1, <2>2, NobodyMoves DEF ContainerDrops, SvcInv
<1>6. CASE MediumWrite
  <2>1. LowInv' /\ NodePart'
    BY <1>0, <1>6, LowKept, NodesKept DEF MediumWrite, cacheVars, lowVars
  <2>. QED
    BY <1>6, <2>1, NobodyMoves DEF MediumWrite, SvcInv
<1>7. CASE UNCHANGED svcVars
  <2>1. LowInv' /\ NodePart'
    BY <1>0, <1>7, LowKept, NodesKept DEF svcVars, cacheVars, lowVars
  <2>. QED
    BY <1>7, <2>1, NobodyMoves DEF svcVars, SvcInv
<1>. QED
  BY <1>1, <1>2, <1>3, <1>4, <1>5, <1>6, <1>7 DEF SvcNext

\* However calls, invalidations, ClearCache and writes to the medium interleave,
\* a node that is cached or returned for an object was parsed from a block the
\* object map has put that object in.
THEOREM NodesAreTheirs == SvcSpec => []NodesAreOfTheirObject
<1>1. SvcInv => NodesAreOfTheirObject
  BY DEF SvcInv, NodePart, CallPart, NodesAreOfTheirObject
<1>. QED
  BY <1>1, SvcInvInit, SvcInvStep, PTL DEF SvcSpec

=============================================================================
