---------------------------- MODULE ObjectResolver ----------------------------
(***************************************************************************)
(* services/btree_object_resolver.go: one *BTreeObjectResolver shared by   *)
(* several goroutines that turn a virtual object identifier and a          *)
(* transaction identifier into a physical address.                         *)
(*                                                                         *)
(* The container is an image: the object map's fields, the entries of its  *)
(* manually managed area, and the nodes of its B-tree by block number.  An *)
(* entry is what the decoding of a node's bytes delivers: a key (oid, xid) *)
(* and a value, the address in a leaf and the child's block number in an   *)
(* internal node; ok is FALSE when extractKeyValue refuses the entry.  How *)
(* bytes become entries is the subject of NodeLayout.                      *)
(*                                                                         *)
(* cacheMutex is held for the lookup and for the insertion only, so these  *)
(* are steps of their own; the block reads between them may fail.          *)
(***************************************************************************)
EXTENDS Integers, Sequences

CONSTANTS
  Callers,  \* goroutines
  OIDs,     \* virtual identifiers asked for
  XIDs,     \* transaction identifiers asked for
  Images    \* container images

Entry == [oid : Nat, xid : Nat, val : Nat, ok : BOOLEAN]
Node == [leaf : BOOLEAN, entries : Seq(Entry)]

\* An image: the object map block is readable or not, om_tree_oid (0: none),
\* om_most_recent_snap, the entries from byte 72 of the object map block on,
\* and the blocks that parse as B-tree nodes.
ImageOK(im) ==
  /\ im.readable \in BOOLEAN
  /\ im.tree \in Nat
  /\ im.snap \in Nat
  /\ im.manual \in Seq(Entry)
  /\ DOMAIN im.nodes \subseteq Nat
  /\ \A b \in DOMAIN im.nodes : im.nodes[b] \in Node

ASSUME InputsAssumption ==
  /\ OIDs \subseteq Nat
  /\ XIDs \subseteq Nat
  /\ \A im \in Images : ImageOK(im)

VARIABLES
  image,     \* the container read
  oIDCache,  \* btor.oIDCache: <<oid, xid>> -> address
  pc,        \* per caller
  query,     \* per caller: <<oid, xid>> asked for
  searchXID, \* per caller: the xid the B-tree is searched for
  at,        \* per caller: block number of the node being searched
  paddr,     \* per caller: result
  outcome    \* per caller: how the last call ended

callVars == <<pc, query, searchXID, at, paddr, outcome>>
vars == <<image, oIDCache, pc, query, searchXID, at, paddr, outcome>>

Key == Nat \X Nat
Oid(c) == query[c][1]
Xid(c) == query[c][2]

Init ==
  /\ image \in Images
  /\ oIDCache = [k \in {} |-> 0]
  /\ pc = [c \in Callers |-> "idle"]
  /\ query = [c \in Callers |-> <<0, 0>>]
  /\ searchXID = [c \in Callers |-> 0]
  /\ at = [c \in Callers |-> 0]
  /\ paddr = [c \in Callers |-> 0]
  /\ outcome = [c \in Callers |-> "none"]

-----------------------------------------------------------------------------
(* Searches in one block.                                                  *)

\* searchManuallyManagedObjectMap: entries up to an all-zero key; the first
\* one with the identifier asked for and a transaction not after the asked.
ManualMatches(es, oid, xid) ==
  {i \in 1..Len(es) :
     /\ \A j \in 1..i : ~(es[j].oid = 0 /\ es[j].xid = 0)
     /\ es[i].oid = oid /\ es[i].xid <= xid}

\* The position where a scan that stops at the first member of S stops.
First(S) == {i \in S : \A j \in S : i <= j}

\* Mutant: the transaction is not compared.
LeafMatchesFuture(es, oid, xid) == {i \in 1..Len(es) : es[i].ok /\ es[i].oid = oid}

\* searchLeafNode: the entries that match.
LeafMatches(es, oid, xid) ==
  {i \in 1..Len(es) : es[i].ok /\ es[i].oid = oid /\ es[i].xid <= xid}

\* Mutant: the first match is kept, without comparing bestMatch.xid.
LeafBestFirst(es, oid, xid) == First(LeafMatches(es, oid, xid))

\* bestMatch is replaced only by a strictly greater xid.
LeafBest(es, oid, xid) ==
  LET ms == LeafMatches(es, oid, xid)
  IN  {i \in ms : \A j \in ms :
         es[j].xid < es[i].xid \/ (es[j].xid = es[i].xid /\ i <= j)}

\* compareKeys(<<oid, xid>>, e) <= 0.
NotAfter(oid, xid, e) == oid < e.oid \/ (oid = e.oid /\ xid <= e.xid)

\* findChildNode: the positions whose key is not before the search key.
Followable(es, oid, xid) ==
  {i \in 1..Len(es) : es[i].ok /\ NotAfter(oid, xid, es[i])}

\* The first of them, else the last entry when that one can be decoded.
ChildChoice(es, oid, xid) ==
  LET fs == Followable(es, oid, xid)
  IN  IF fs # {} THEN First(fs)
      ELSE {i \in 1..Len(es) : i = Len(es) /\ es[i].ok}

-----------------------------------------------------------------------------
(* ResolveVirtualObject.                                                   *)

ResolveVirtualObject(c, oid, xid) ==
  /\ pc[c] = "idle"
  /\ pc' = [pc EXCEPT ![c] = "lookup"]
  /\ query' = [query EXCEPT ![c] = <<oid, xid>>]
  /\ outcome' = [outcome EXCEPT ![c] = "none"]
  /\ paddr' = [paddr EXCEPT ![c] = 0]
  /\ UNCHANGED <<image, oIDCache, searchXID, at>>

\* The call returns: its local variables are gone.
Return(c, how) ==
  /\ pc' = [pc EXCEPT ![c] = "idle"]
  /\ outcome' = [outcome EXCEPT ![c] = how]
  /\ searchXID' = [searchXID EXCEPT ![c] = 0]
  /\ at' = [at EXCEPT ![c] = 0]

\* Every error return.
Fail(c, why) ==
  /\ Return(c, why)
  /\ paddr' = [paddr EXCEPT ![c] = 0]
  /\ UNCHANGED <<image, oIDCache, query>>

\* Under RLock.
Hit(c) ==
  /\ pc[c] = "lookup"
  /\ query[c] \in DOMAIN oIDCache
  /\ paddr' = [paddr EXCEPT ![c] = oIDCache[query[c]]]
  /\ Return(c, "ok")
  /\ UNCHANGED <<image, oIDCache, query>>

Miss(c) ==
  /\ pc[c] = "lookup"
  /\ query[c] \notin DOMAIN oIDCache
  /\ pc' = [pc EXCEPT ![c] = "omap"]
  /\ UNCHANGED <<image, oIDCache, query, searchXID, at, paddr, outcome>>

\* Mutant: an object map that cannot be read is tried again without limit.
OmapErrorRetries(c) ==
  /\ pc[c] = "omap"
  /\ pc' = [pc EXCEPT ![c] = "lookup"]
  /\ UNCHANGED <<image, oIDCache, query, searchXID, at, paddr, outcome>>

\* No object map, or it cannot be read (at any time) or parsed.
OmapError(c) == pc[c] = "omap" /\ Fail(c, "ioerr")

\* With or without a B-tree, the manually managed area is searched first.
ManualFound(c) ==
  /\ pc[c] = "omap"
  /\ image.readable
  /\ \E i \in First(ManualMatches(image.manual, Oid(c), Xid(c))) :
       paddr' = [paddr EXCEPT ![c] = image.manual[i].val]
  /\ pc' = [pc EXCEPT ![c] = "store"]
  /\ UNCHANGED <<image, oIDCache, query, searchXID, at, outcome>>

ManualOnlyMissing(c) ==
  /\ pc[c] = "omap"
  /\ image.readable
  /\ ManualMatches(image.manual, Oid(c), Xid(c)) = {}
  /\ image.tree = 0
  /\ Fail(c, "notfound")

\* The B-tree is searched for the most recent snapshot's xid when that is
\* not after the xid asked for.
EnterTree(c) ==
  /\ pc[c] = "omap"
  /\ image.readable
  /\ ManualMatches(image.manual, Oid(c), Xid(c)) = {}
  /\ image.tree # 0
  /\ searchXID' = [searchXID EXCEPT ![c] =
       IF image.snap > 0 /\ image.snap <= Xid(c) THEN image.snap ELSE Xid(c)]
  /\ at' = [at EXCEPT ![c] = image.tree]
  /\ pc' = [pc EXCEPT ![c] = "node"]
  /\ UNCHANGED <<image, oIDCache, query, paddr, outcome>>

\* The node's block cannot be read (at any time) or is not a node.
NodeError(c) == pc[c] = "node" /\ Fail(c, "ioerr")

AtNode(c, leaf) ==
  /\ pc[c] = "node"
  /\ at[c] \in DOMAIN image.nodes
  /\ image.nodes[at[c]].leaf = leaf

Entries(c) == image.nodes[at[c]].entries

LeafFound(c) ==
  /\ AtNode(c, TRUE)
  /\ \E i \in LeafBest(Entries(c), Oid(c), searchXID[c]) :
       paddr' = [paddr EXCEPT ![c] = Entries(c)[i].val]
  /\ pc' = [pc EXCEPT ![c] = "store"]
  /\ UNCHANGED <<image, oIDCache, query, searchXID, at, outcome>>

LeafMissing(c) ==
  /\ AtNode(c, TRUE)
  /\ LeafMatches(Entries(c), Oid(c), searchXID[c]) = {}
  /\ Fail(c, "notfound")

\* searchChildNode: the value is taken as a physical block number.
FollowChild(c) ==
  /\ AtNode(c, FALSE)
  /\ \E i \in ChildChoice(Entries(c), Oid(c), searchXID[c]) :
       at' = [at EXCEPT ![c] = Entries(c)[i].val]
  /\ UNCHANGED <<image, oIDCache, pc, query, searchXID, paddr, outcome>>

NoChild(c) ==
  /\ AtNode(c, FALSE)
  /\ ChildChoice(Entries(c), Oid(c), searchXID[c]) = {}
  /\ Fail(c, "notfound")

\* Mutant: the result is cached under the xid that was searched for.
StoreUnderSearched(c) ==
  /\ pc[c] = "store"
  /\ LET k == <<Oid(c), searchXID[c]>>
     IN  oIDCache' = [x \in DOMAIN oIDCache \cup {k} |->
                        IF x = k THEN paddr[c] ELSE oIDCache[x]]
  /\ Return(c, "ok")
  /\ UNCHANGED <<image, query, paddr>>

\* Under Lock: the result is cached under the key asked for, and returned.
Store(c) ==
  /\ pc[c] = "store"
  /\ oIDCache' = [x \in DOMAIN oIDCache \cup {query[c]} |->
                    IF x = query[c] THEN paddr[c] ELSE oIDCache[x]]
  /\ Return(c, "ok")
  /\ UNCHANGED <<image, query, paddr>>

ClearCache ==
  /\ oIDCache' = [k \in {} |-> 0]
  /\ UNCHANGED <<image, callVars>>

Step(c) ==
  \/ Hit(c) \/ Miss(c)
  \/ OmapError(c) \/ ManualFound(c) \/ ManualOnlyMissing(c) \/ EnterTree(c)
  \/ NodeError(c) \/ LeafFound(c) \/ LeafMissing(c) \/ FollowChild(c) \/ NoChild(c)
  \/ Store(c)

Next ==
  \/ \E c \in Callers :
       \/ \E oid \in OIDs, xid \in XIDs : ResolveVirtualObject(c, oid, xid)
       \/ Step(c)
  \/ ClearCache

Spec == Init /\ [][Next]_vars

\* A goroutine inside a call keeps running: no lock is held while it reads.
FairSpec == Spec /\ \A c \in Callers : WF_vars(Step(c))

-----------------------------------------------------------------------------
(* Properties.                                                             *)

TypeOK ==
  /\ image \in Images
  /\ DOMAIN oIDCache \subseteq Key
  /\ oIDCache \in [DOMAIN oIDCache -> Nat]
  /\ pc \in [Callers -> {"idle", "lookup", "omap", "node", "store"}]
  /\ query \in [Callers -> Key]
  /\ searchXID \in [Callers -> Nat]
  /\ at \in [Callers -> Nat]
  /\ paddr \in [Callers -> Nat]
  /\ outcome \in [Callers -> {"none", "ok", "ioerr", "notfound"}]

\* Entry e maps oid, as of a transaction not after xid, to address a.
Maps(e, oid, xid, a) == e.oid = oid /\ e.xid <= xid /\ e.val = a

\* Address a is recorded in the image for oid at or before xid.
Recorded(oid, xid, a) ==
  \/ \E i \in 1..Len(image.manual) : Maps(image.manual[i], oid, xid, a)
  \/ \E b \in DOMAIN image.nodes :
       /\ image.nodes[b].leaf
       /\ \E i \in 1..Len(image.nodes[b].entries) :
            Maps(image.nodes[b].entries[i], oid, xid, a)

\* No address is invented or comes from the future: whatever goroutine
\* computed it, and although the tree is searched for another xid than the
\* one the cache is keyed by, every address returned or cached belongs to a
\* record of that object made at or before the transaction asked for
\* (88-91, 109-111, 134, 265).
AddressesAreRecorded ==
  /\ \A k \in DOMAIN oIDCache : Recorded(k[1], k[2], oIDCache[k])
  /\ \A c \in Callers :
       outcome[c] = "ok" \/ pc[c] = "store" => Recorded(Oid(c), Xid(c), paddr[c])

\* While the tree is searched, it is never searched past the xid asked for.
SearchNotAfter == \A c \in Callers : pc[c] = "node" => searchXID[c] <= Xid(c)

\* The child chosen in a node, and the blocks a search goes through from block b
\* on when nothing disturbs it: those in every set with b and, with a node, the
\* child chosen there.
Children(b, oid, xid) ==
  IF b \notin DOMAIN image.nodes \/ image.nodes[b].leaf THEN {}
  ELSE LET es == image.nodes[b].entries IN {es[i].val : i \in ChildChoice(es, oid, xid)}

Blocks ==
  {image.tree} \cup UNION {{image.nodes[b].entries[i].val : i \in 1..Len(image.nodes[b].entries)} :
                           b \in {x \in DOMAIN image.nodes : ~image.nodes[x].leaf}}

PathFrom(b, oid, xid) ==
  {y \in Blocks : \A S \in SUBSET Blocks :
     b \in S /\ (\A x \in S : Children(x, oid, xid) \subseteq S) => y \in S}

\* What it would answer: the newest match of the leaf it ends in.
Newest(es, oid, xid) ==
  {i \in LeafMatches(es, oid, xid) : \A j \in LeafMatches(es, oid, xid) : es[j].xid <= es[i].xid}
TreeAnswer(oid, xid) ==
  UNION {{image.nodes[b].entries[i].val : i \in Newest(image.nodes[b].entries, oid, xid)} :
         b \in {x \in PathFrom(image.tree, oid, xid) : x \in DOMAIN image.nodes /\ image.nodes[x].leaf}}

SearchedXID(xid) == IF image.snap > 0 /\ image.snap <= xid THEN image.snap ELSE xid
Uncached(k) ==
  LET ms == ManualMatches(image.manual, k[1], k[2])
  IN  IF ms # {} THEN {image.manual[i].val : i \in First(ms)}
      ELSE IF image.tree = 0 THEN {} ELSE TreeAnswer(k[1], SearchedXID(k[2]))

\* The cache is transparent: whatever calls are in flight and were before, an
\* address cached or returned is one that an undisturbed search for that very
\* key gives, and a call finds nothing only where that search finds nothing
\* (makeCacheKey 541 against the searchXID of 87-91; 117-144, 199-221).
CacheTransparent ==
  /\ \A k \in DOMAIN oIDCache : oIDCache[k] \in Uncached(k)
  /\ \A c \in Callers : /\ outcome[c] = "ok" => paddr[c] \in Uncached(query[c])
                        /\ outcome[c] = "notfound" => Uncached(query[c]) = {}

\* The mappings the image records for oid at or before xid, in tree leaves.
Mappings(oid, xid) ==
  UNION {{image.nodes[b].entries[i] : i \in LeafMatches(image.nodes[b].entries, oid, xid)} :
         b \in {x \in DOMAIN image.nodes : image.nodes[x].leaf}}

\* The caller was told what a scan of every leaf would have told it.
ToldNewest(c) ==
  LET all == Mappings(Oid(c), Xid(c))
  IN  /\ outcome[c] = "notfound" => all = {}
      /\ outcome[c] = "ok" =>
           \E e \in all : e.val = paddr[c] /\ \A f \in all : f.xid <= e.xid

\* Object maps of one leaf, with neither a snapshot nor a manual area.
PlainLeaf ==
  /\ DOMAIN image.nodes = {image.tree} /\ image.nodes[image.tree].leaf
  /\ image.tree # 0 /\ image.snap = 0 /\ image.manual = <<>>

\* Where no child has to be chosen and no snapshot replaces the transaction,
\* the newest mapping is found, from the leaf or from the cache, in whatever
\* order the versions lie and with undecodable entries among them (224-288).
NewestInLeaf == PlainLeaf => \A c \in Callers : ToldNewest(c)

\* Every call returns when the nodes form a tree, whatever else the callers do
\* (searchBTreeNode 199 has no depth limit: a cycle would never end).
CallsReturn == \A c \in Callers : pc[c] # "idle" ~> pc[c] = "idle"

=============================================================================
