------------------------- MODULE ObjectResolverProofs -------------------------
(***************************************************************************)
(* For every set of callers, every query and every container image: the    *)
(* types, that no address returned or cached is made up, that the cache is *)
(* transparent, and that in a leaf the newest mapping is found.            *)
(***************************************************************************)
EXTENDS ObjectResolver, NumberLemmas, TLAPS

\* What an entry of a node of the image is.
LEMMA EntryType ==
  ASSUME TypeOK, NEW b \in DOMAIN image.nodes,
         NEW i \in 1..Len(image.nodes[b].entries)
  PROVE  image.nodes[b].entries[i] \in Entry
<1>1. image.nodes[b] \in Node
  BY InputsAssumption DEF TypeOK, ImageOK
<1>2. image.nodes[b].entries \in Seq(Entry)
  BY <1>1 DEF Node
<1>3. QED BY <1>2

\* The resolver's variables keep their types (fields and locals of
\* ResolveVirtualObject, 15-19 and 30-114).
THEOREM TypeCorrect == Spec => []TypeOK
<1>1. Init => TypeOK
  BY DEF Init, TypeOK, Key
<1>2. TypeOK /\ [Next]_vars => TypeOK'
  <2> SUFFICES ASSUME TypeOK, [Next]_vars PROVE TypeOK'
    OBVIOUS
  <2> USE DEF TypeOK
  <2>1. ASSUME NEW c \in Callers, NEW oid \in OIDs, NEW xid \in XIDs,
               ResolveVirtualObject(c, oid, xid)
        PROVE  TypeOK'
    BY <2>1, InputsAssumption DEF ResolveVirtualObject, Key
  <2>2. ASSUME NEW c \in Callers, Hit(c) PROVE TypeOK'
    <3>1. oIDCache[query[c]] \in Nat
      BY <2>2 DEF Hit
    <3>2. QED BY <2>2, <3>1 DEF Hit, Return
  <2>3. ASSUME NEW c \in Callers, Miss(c) PROVE TypeOK'
    BY <2>3 DEF Miss
  <2>4. ASSUME NEW c \in Callers, OmapError(c) \/ NodeError(c) \/ ManualOnlyMissing(c)
                                    \/ LeafMissing(c) \/ NoChild(c)
        PROVE  TypeOK'
    <3>1. Fail(c, "ioerr") \/ Fail(c, "notfound")
      BY <2>4 DEF OmapError, NodeError, ManualOnlyMissing, LeafMissing, NoChild
    <3>2. QED BY <3>1 DEF Fail, Return
  <2>5. ASSUME NEW c \in Callers, ManualFound(c) PROVE TypeOK'
    <3>1. PICK i \in First(ManualMatches(image.manual, Oid(c), Xid(c))) :
            paddr' = [paddr EXCEPT ![c] = image.manual[i].val]
      BY <2>5 DEF ManualFound
    <3>2. i \in 1..Len(image.manual)
      BY <3>1 DEF First, ManualMatches
    <3>3. image.manual \in Seq(Entry)
      BY InputsAssumption DEF ImageOK
    <3> HIDE DEF TypeOK
    <3>6. image.manual[i] \in Entry
      BY <3>2, <3>3
    <3>4. image.manual[i].val \in Nat
      BY <3>6 DEF Entry
    <3> USE DEF TypeOK
    <3>5. QED BY <2>5, <3>1, <3>4 DEF ManualFound
  <2>6. ASSUME NEW c \in Callers, EnterTree(c) PROVE TypeOK'
    <3>1. image.tree \in Nat /\ image.snap \in Nat
      BY InputsAssumption DEF ImageOK
    <3>2. Xid(c) \in Nat
      BY DEF Xid, Key
    <3>3. QED BY <2>6, <3>1, <3>2 DEF EnterTree
  <2>7. ASSUME NEW c \in Callers, LeafFound(c) PROVE TypeOK'
    <3>1. PICK i \in LeafBest(Entries(c), Oid(c), searchXID[c]) :
            paddr' = [paddr EXCEPT ![c] = Entries(c)[i].val]
      BY <2>7 DEF LeafFound
    <3>2. at[c] \in DOMAIN image.nodes /\ i \in 1..Len(image.nodes[at[c]].entries)
      BY <2>7, <3>1 DEF LeafFound, AtNode, LeafBest, LeafMatches, Entries
    <3>3. Entries(c)[i].val \in Nat
      BY <3>2, EntryType DEF Entries, Entry
    <3>4. QED BY <2>7, <3>1, <3>3 DEF LeafFound
  <2>8. ASSUME NEW c \in Callers, FollowChild(c) PROVE TypeOK'
    <3>1. PICK i \in ChildChoice(Entries(c), Oid(c), searchXID[c]) :
            at' = [at EXCEPT ![c] = Entries(c)[i].val]
      BY <2>8 DEF FollowChild
    <3>2. at[c] \in DOMAIN image.nodes /\ i \in 1..Len(image.nodes[at[c]].entries)
      BY <2>8, <3>1 DEF FollowChild, AtNode, ChildChoice, First, Followable, Entries
    <3>3. Entries(c)[i].val \in Nat
      BY <3>2, EntryType DEF Entries, Entry
    <3>4. QED BY <2>8, <3>1, <3>3 DEF FollowChild
  <2>9. ASSUME NEW c \in Callers, Store(c) PROVE TypeOK'
    BY <2>9 DEF Store, Return
  <2>10. CASE ClearCache
    BY <2>10 DEF ClearCache, callVars
  <2>11. CASE UNCHANGED vars
    BY <2>11 DEF vars
  <2>12. QED
    BY <2>1, <2>2, <2>3, <2>4, <2>5, <2>6, <2>7, <2>8, <2>9, <2>10, <2>11 DEF Next, Step
<1>3. QED BY <1>1, <1>2, PTL DEF Spec

-----------------------------------------------------------------------------

\* Recorded is monotone in the xid: a record made at or before x is one made
\* at or before any later y.
LEMMA RecordedLater ==
  ASSUME TypeOK, NEW o \in Nat, NEW x \in Nat, NEW y \in Nat, x <= y, NEW a \in Nat,
         NEW b \in DOMAIN image.nodes, image.nodes[b].leaf,
         NEW i \in 1..Len(image.nodes[b].entries),
         image.nodes[b].entries[i].oid = o, image.nodes[b].entries[i].xid <= x,
         image.nodes[b].entries[i].val = a
  PROVE  Recorded(o, y, a)
<1>1. image.nodes[b].entries[i].xid \in Nat
  BY EntryType DEF Entry
<1>2. image.nodes[b].entries[i].xid <= y
  BY <1>1
<1>3. QED BY <1>2 DEF Recorded, Maps

\* The inductive invariant: the search never goes past the xid asked for, so
\* what it finds is recorded for the key the cache will use.
IInv == TypeOK /\ AddressesAreRecorded /\ SearchNotAfter

\* Every address the resolver returns or caches belongs to a record of that
\* object made at or before the transaction asked for (117-144, 224-291).
THEOREM AddressesRecorded == Spec => []AddressesAreRecorded
<1>1. Init => AddressesAreRecorded /\ SearchNotAfter
  BY DEF Init, AddressesAreRecorded, SearchNotAfter
<1>2. IInv /\ TypeOK' /\ [Next]_vars => (AddressesAreRecorded /\ SearchNotAfter)'
  <2> SUFFICES ASSUME IInv, TypeOK', [Next]_vars
               PROVE  (AddressesAreRecorded /\ SearchNotAfter)'
    OBVIOUS
  <2>a. TypeOK /\ AddressesAreRecorded /\ SearchNotAfter
    BY DEF IInv
  <2>i. image' = image
    <3>1. CASE UNCHANGED vars
      BY <3>1 DEF vars
    <3>2. CASE Next
      BY <3>2 DEF Next, Step, ResolveVirtualObject, Hit, Miss, OmapError, ManualFound,
           ManualOnlyMissing, EnterTree, NodeError, LeafFound, LeafMissing, FollowChild,
           NoChild, Store, ClearCache, Fail
    <3>3. QED BY <3>1, <3>2
  <2>r. \A o, x, a : Recorded(o, x, a)' <=> Recorded(o, x, a)
    BY <2>i DEF Recorded
  <2>t. /\ pc \in [Callers -> {"idle", "lookup", "omap", "node", "store"}]
        /\ query \in [Callers -> Key]
        /\ searchXID \in [Callers -> Nat]
        /\ paddr \in [Callers -> Nat]
        /\ outcome \in [Callers -> {"none", "ok", "ioerr", "notfound"}]
    BY <2>a DEF TypeOK
  <2>o. \A c \in Callers : Oid(c) \in Nat /\ Xid(c) \in Nat
    BY <2>t DEF Oid, Xid, Key
  \* What a step of caller c has to show: the others and the cache are as before.
  <2>k. ASSUME NEW c \in Callers,
               oIDCache' = oIDCache,
               \A d \in Callers \ {c} :
                 pc'[d] = pc[d] /\ query'[d] = query[d] /\ searchXID'[d] = searchXID[d]
                   /\ paddr'[d] = paddr[d] /\ outcome'[d] = outcome[d],
               pc'[c] = "store" \/ outcome'[c] = "ok" => Recorded(Oid(c)', Xid(c)', paddr'[c]),
               pc'[c] = "node" => searchXID'[c] <= Xid(c)'
        PROVE  (AddressesAreRecorded /\ SearchNotAfter)'
    <3>1. \A k \in DOMAIN oIDCache' : Recorded(k[1], k[2], oIDCache'[k])
      BY <2>k, <2>a DEF AddressesAreRecorded
    <3>2. \A d \in Callers : outcome'[d] = "ok" \/ pc'[d] = "store"
                                 => Recorded(Oid(d)', Xid(d)', paddr'[d])
      BY <2>k, <2>a DEF AddressesAreRecorded, Oid, Xid
    <3>3. \A d \in Callers : pc'[d] = "node" => searchXID'[d] <= Xid(d)'
      BY <2>k, <2>a DEF SearchNotAfter, Xid
    <3>4. QED BY <3>1, <3>2, <3>3, <2>r DEF AddressesAreRecorded, SearchNotAfter
  <2>1. ASSUME NEW c \in Callers, NEW oid \in OIDs, NEW xid \in XIDs,
               ResolveVirtualObject(c, oid, xid)
        PROVE  (AddressesAreRecorded /\ SearchNotAfter)'
    <3>1. pc'[c] = "lookup" /\ outcome'[c] = "none"
      BY <2>1, <2>t DEF ResolveVirtualObject
    <3>2. QED BY <2>1, <2>t, <2>k, <3>1 DEF ResolveVirtualObject
  <2>2. ASSUME NEW c \in Callers, Hit(c)
        PROVE  (AddressesAreRecorded /\ SearchNotAfter)'
    <3>1. Recorded(Oid(c), Xid(c), oIDCache[query[c]])
      BY <2>2, <2>a DEF Hit, AddressesAreRecorded, Oid, Xid
    <3>2. /\ pc'[c] = "idle" /\ paddr'[c] = oIDCache[query[c]]
          /\ Oid(c)' = Oid(c) /\ Xid(c)' = Xid(c)
      BY <2>2, <2>t DEF Hit, Return, Oid, Xid
    <3>3. QED BY <2>2, <2>t, <2>k, <3>1, <3>2 DEF Hit, Return
  <2>3. ASSUME NEW c \in Callers, Miss(c)
        PROVE  (AddressesAreRecorded /\ SearchNotAfter)'
    <3>1. pc'[c] = "omap"
      BY <2>3, <2>t DEF Miss
    <3>2. outcome'[c] = "ok" => Recorded(Oid(c)', Xid(c)', paddr'[c])
      BY <2>3, <2>a DEF Miss, AddressesAreRecorded, Oid, Xid
    <3>3. QED BY <2>3, <2>t, <2>k, <3>1, <3>2 DEF Miss
  <2>4. ASSUME NEW c \in Callers, OmapError(c) \/ NodeError(c) \/ ManualOnlyMissing(c)
                                    \/ LeafMissing(c) \/ NoChild(c)
        PROVE  (AddressesAreRecorded /\ SearchNotAfter)'
    <3>1. Fail(c, "ioerr") \/ Fail(c, "notfound")
      BY <2>4 DEF OmapError, NodeError, ManualOnlyMissing, LeafMissing, NoChild
    <3>2. pc'[c] = "idle" /\ outcome'[c] # "ok"
      BY <3>1, <2>t DEF Fail, Return
    <3>3. QED BY <3>1, <3>2, <2>t, <2>k DEF Fail, Return
  <2>5. ASSUME NEW c \in Callers, ManualFound(c)
        PROVE  (AddressesAreRecorded /\ SearchNotAfter)'
    <3>1. PICK i \in First(ManualMatches(image.manual, Oid(c), Xid(c))) :
            paddr' = [paddr EXCEPT ![c] = image.manual[i].val]
      BY <2>5 DEF ManualFound
    <3>2. /\ i \in 1..Len(image.manual)
          /\ image.manual[i].oid = Oid(c) /\ image.manual[i].xid <= Xid(c)
      BY <3>1 DEF First, ManualMatches
    <3>3. paddr'[c] = image.manual[i].val
      BY <3>1, <2>t
    <3>4. Recorded(Oid(c), Xid(c), paddr'[c])
      BY <3>2, <3>3 DEF Recorded, Maps
    <3>5. pc'[c] = "store" /\ Oid(c)' = Oid(c) /\ Xid(c)' = Xid(c)
      BY <2>5, <2>t DEF ManualFound, Oid, Xid
    <3>6. QED BY <2>5, <2>t, <2>k, <3>1, <3>4, <3>5 DEF ManualFound
  <2>6. ASSUME NEW c \in Callers, EnterTree(c)
        PROVE  (AddressesAreRecorded /\ SearchNotAfter)'
    <3>1. pc'[c] = "node" /\ Xid(c)' = Xid(c)
      BY <2>6, <2>t DEF EnterTree, Xid
    <3>2. searchXID'[c] <= Xid(c)
      BY <2>6, <2>t, <2>o DEF EnterTree
    <3>3. outcome'[c] = "ok" => Recorded(Oid(c)', Xid(c)', paddr'[c])
      BY <2>6, <2>a DEF EnterTree, AddressesAreRecorded, Oid, Xid
    <3>4. QED BY <2>6, <2>t, <2>k, <3>1, <3>2, <3>3 DEF EnterTree
  <2>7. ASSUME NEW c \in Callers, LeafFound(c)
        PROVE  (AddressesAreRecorded /\ SearchNotAfter)'
    <3>1. PICK i \in LeafBest(Entries(c), Oid(c), searchXID[c]) :
            paddr' = [paddr EXCEPT ![c] = Entries(c)[i].val]
      BY <2>7 DEF LeafFound
    <3>2. /\ at[c] \in DOMAIN image.nodes /\ image.nodes[at[c]].leaf
          /\ i \in 1..Len(image.nodes[at[c]].entries)
          /\ image.nodes[at[c]].entries[i].oid = Oid(c)
          /\ image.nodes[at[c]].entries[i].xid <= searchXID[c]
      BY <2>7, <3>1 DEF LeafFound, AtNode, LeafBest, LeafMatches, Entries
    <3>3. paddr'[c] = image.nodes[at[c]].entries[i].val
      BY <3>1, <2>t DEF Entries
    <3>4. searchXID[c] <= Xid(c)
      BY <2>7, <2>a DEF LeafFound, AtNode, SearchNotAfter
    <3>5. paddr'[c] \in Nat
      BY DEF TypeOK
    <3>6. Recorded(Oid(c), Xid(c), paddr'[c])
      BY <3>2, <3>3, <3>4, <3>5, <2>a, <2>o, <2>t, RecordedLater
    <3>7. pc'[c] = "store" /\ Oid(c)' = Oid(c) /\ Xid(c)' = Xid(c)
      BY <2>7, <2>t DEF LeafFound, Oid, Xid
    <3>8. QED BY <2>7, <2>t, <2>k, <3>1, <3>6, <3>7 DEF LeafFound
  <2>8. ASSUME NEW c \in Callers, FollowChild(c)
        PROVE  (AddressesAreRecorded /\ SearchNotAfter)'
    BY <2>8, <2>a, <2>r DEF FollowChild, AddressesAreRecorded, SearchNotAfter, Oid, Xid
  <2>9. ASSUME NEW c \in Callers, Store(c)
        PROVE  (AddressesAreRecorded /\ SearchNotAfter)'
    <3>1. Recorded(Oid(c), Xid(c), paddr[c])
      BY <2>9, <2>a DEF Store, AddressesAreRecorded
    <3>2. \A k \in DOMAIN oIDCache' : Recorded(k[1], k[2], oIDCache'[k])
      BY <2>9, <2>a, <3>1 DEF Store, AddressesAreRecorded, Oid, Xid
    <3>3. \A d \in Callers : outcome'[d] = "ok" \/ pc'[d] = "store"
                                 => Recorded(Oid(d)', Xid(d)', paddr'[d])
      BY <2>9, <2>a, <2>t, <3>1 DEF Store, Return, AddressesAreRecorded, Oid, Xid
    <3>4. \A d \in Callers : pc'[d] = "node" => searchXID'[d] <= Xid(d)'
      BY <2>9, <2>a, <2>t DEF Store, Return, SearchNotAfter, Xid
    <3>5. QED BY <3>2, <3>3, <3>4, <2>r DEF AddressesAreRecorded, SearchNotAfter
  <2>10. CASE ClearCache
    BY <2>10, <2>a, <2>r DEF ClearCache, callVars, AddressesAreRecorded, SearchNotAfter, Oid, Xid
  <2>11. CASE UNCHANGED vars
    BY <2>11, <2>a, <2>r DEF vars, AddressesAreRecorded, SearchNotAfter, Oid, Xid
  <2>12. QED
    BY <2>1, <2>2, <2>3, <2>4, <2>5, <2>6, <2>7, <2>8, <2>9, <2>10, <2>11 DEF Next, Step
<1>3. QED BY <1>1, <1>2, TypeCorrect, PTL DEF Spec, IInv

-----------------------------------------------------------------------------
(* Answers.                                                                *)

\* Of the entries of a node one at most is chosen.
LEMMA OneChosen ==
  ASSUME NEW es, Len(es) \in Nat, NEW oid, NEW xid
  PROVE  \A i, j \in ChildChoice(es, oid, xid) : i = j
BY DEF ChildChoice, First, Followable

\* A path is closed, and the least set that is.
LEMMA PathIsClosed ==
  ASSUME NEW b \in Blocks, NEW oid, NEW xid
  PROVE  /\ b \in PathFrom(b, oid, xid)
         /\ \A x \in Blocks : Children(x, oid, xid) \subseteq Blocks
         /\ \A x \in PathFrom(b, oid, xid) : Children(x, oid, xid) \subseteq PathFrom(b, oid, xid)
<1>1. ASSUME NEW x, NEW y \in Children(x, oid, xid) PROVE y \in Blocks
  <2>1. x \in DOMAIN image.nodes /\ ~image.nodes[x].leaf
    BY <1>1 DEF Children
  <2>2. PICK i \in ChildChoice(image.nodes[x].entries, oid, xid) : y = image.nodes[x].entries[i].val
    BY <1>1, <2>1 DEF Children
  <2>3. i \in 1..Len(image.nodes[x].entries)
    BY <2>2 DEF ChildChoice, First, Followable
  <2> DEFINE vals == {image.nodes[x].entries[k].val : k \in 1..Len(image.nodes[x].entries)}
  <2>4. y \in vals
    BY <2>2, <2>3
  <2> HIDE DEF vals
  <2>5. vals \in {{image.nodes[z].entries[k].val : k \in 1..Len(image.nodes[z].entries)} :
                  z \in {w \in DOMAIN image.nodes : ~image.nodes[w].leaf}}
    BY <2>1 DEF vals
  <2>. QED
    BY <2>4, <2>5, Zenon DEF Blocks
<1>2. ASSUME NEW x \in PathFrom(b, oid, xid), NEW y \in Children(x, oid, xid)
      PROVE  y \in PathFrom(b, oid, xid)
  <2>1. y \in Blocks
    BY <1>1
  <2>2. ASSUME NEW S \in SUBSET Blocks, b \in S, \A z \in S : Children(z, oid, xid) \subseteq S
        PROVE  y \in S
    <3>1. x \in S
      BY <2>2 DEF PathFrom
    <3>. QED
      BY <2>2, <3>1
  <2>. QED
    BY <2>1, <2>2 DEF PathFrom
<1>. QED
  BY <1>1, <1>2 DEF PathFrom

LEMMA PathIsLeast ==
  ASSUME NEW b, NEW oid, NEW xid, NEW S, S \subseteq Blocks, b \in S,
         \A x \in S : Children(x, oid, xid) \subseteq S
  PROVE  PathFrom(b, oid, xid) \subseteq S
BY DEF PathFrom

\* Where no child is chosen the path ends.
LEMMA PathEnds ==
  ASSUME NEW b \in Blocks, NEW oid, NEW xid, Children(b, oid, xid) = {}
  PROVE  PathFrom(b, oid, xid) = {b}
<1> DEFINE S == {b}
<1>1. S \subseteq Blocks /\ b \in S /\ \A x \in S : Children(x, oid, xid) \subseteq S
  OBVIOUS
<1>2. PathFrom(b, oid, xid) \subseteq S
  <2> HIDE DEF S
  <2>. QED
    BY <1>1, PathIsLeast
<1>. QED
  BY <1>2, PathIsClosed

\* A path goes one way: of two blocks where it ends there is one only.
LEMMA OneEnd ==
  ASSUME TypeOK, NEW r \in Blocks, NEW oid, NEW xid,
         NEW e \in PathFrom(r, oid, xid), NEW f \in PathFrom(r, oid, xid),
         Children(e, oid, xid) = {}, Children(f, oid, xid) = {}
  PROVE  e = f
<1> DEFINE S == {x \in Blocks : e \in PathFrom(x, oid, xid)} \cup {e}
<1>1. e \in Blocks /\ f \in Blocks
  BY DEF PathFrom
<1>2. r \in S
  OBVIOUS
<1>3. ASSUME NEW x \in S, NEW y \in Children(x, oid, xid) PROVE y \in S
  <2>1. x \in Blocks /\ x # e /\ e \in PathFrom(x, oid, xid)
    BY <1>3
  <2>2. y \in Blocks
    BY <2>1, PathIsClosed
  <2>3. PathFrom(x, oid, xid) \subseteq {x} \cup PathFrom(y, oid, xid)
    <3> DEFINE T == {x} \cup PathFrom(y, oid, xid)
    <3>1. T \subseteq Blocks /\ x \in T /\ y \in T
      BY <2>1, <2>2, PathIsClosed DEF PathFrom
    <3>2. Children(x, oid, xid) \subseteq {y}
      <4>1. x \in DOMAIN image.nodes /\ ~image.nodes[x].leaf
        BY <1>3 DEF Children
      <4>2. Len(image.nodes[x].entries) \in Nat
        BY <4>1, InputsAssumption DEF TypeOK, ImageOK, Node
      <4>. QED
        BY <1>3, <4>1, <4>2, OneChosen DEF Children
    <3>3. \A z \in T : Children(z, oid, xid) \subseteq T
      BY <2>2, <3>1, <3>2, PathIsClosed
    <3> HIDE DEF T
    <3>4. PathFrom(x, oid, xid) \subseteq T
      BY <3>1, <3>3, PathIsLeast
    <3>. QED
      BY <3>4 DEF T
  <2>. QED
    BY <2>1, <2>2, <2>3
<1>4. PathFrom(r, oid, xid) \subseteq S
  <2>1. S \subseteq Blocks
    BY <1>1
  <2> HIDE DEF S
  <2>. QED
    BY <1>2, <1>3, <2>1, PathIsLeast
<1>5. PathFrom(f, oid, xid) = {f}
  BY <1>1, PathEnds
<1>. QED
  BY <1>1, <1>4, <1>5

LEMMA SameAnswers ==
  ASSUME image' = image
  PROVE  /\ \A k : Uncached(k)' = Uncached(k)
         /\ \A b, o, x : PathFrom(b, o, x)' = PathFrom(b, o, x)
         /\ PlainLeaf' = PlainLeaf
         /\ \A o, x : Mappings(o, x)' = Mappings(o, x)
BY DEF Uncached, SearchedXID, TreeAnswer, Newest, PathFrom, Blocks, Children, PlainLeaf, Mappings

\* While the tree is searched the caller stands on the path an undisturbed
\* search for its key takes; what it is about to store is that search's answer.
GoodCall(c) ==
  /\ pc[c] = "node" =>
       /\ ManualMatches(image.manual, Oid(c), Xid(c)) = {} /\ image.tree # 0
       /\ searchXID[c] = SearchedXID(Xid(c))
       /\ at[c] \in PathFrom(image.tree, Oid(c), searchXID[c])
  /\ pc[c] = "store" \/ outcome[c] = "ok" => paddr[c] \in Uncached(query[c])
  /\ outcome[c] = "notfound" => Uncached(query[c]) = {}

AnswerInv ==
  /\ \A k \in DOMAIN oIDCache : oIDCache[k] \in Uncached(k)
  /\ \A c \in Callers : GoodCall(c)

LEMMA UncachedOf ==
  ASSUME NEW c
  PROVE  Uncached(query[c]) =
           IF ManualMatches(image.manual, Oid(c), Xid(c)) # {}
           THEN {image.manual[i].val : i \in First(ManualMatches(image.manual, Oid(c), Xid(c)))}
           ELSE IF image.tree = 0 THEN {} ELSE TreeAnswer(Oid(c), SearchedXID(Xid(c)))
BY DEF Uncached, Oid, Xid

\* At the end of the path the search gives the leaf's answer, or none.
LEMMA AnswerAtEnd ==
  ASSUME TypeOK, NEW oid, NEW xid, NEW e \in PathFrom(image.tree, oid, xid),
         Children(e, oid, xid) = {}
  PROVE  TreeAnswer(oid, xid) =
           IF e \in DOMAIN image.nodes /\ image.nodes[e].leaf
           THEN {image.nodes[e].entries[i].val : i \in Newest(image.nodes[e].entries, oid, xid)}
           ELSE {}
<1>1. image.tree \in Blocks
  BY DEF Blocks
<1>2. ASSUME NEW b \in PathFrom(image.tree, oid, xid), b \in DOMAIN image.nodes, image.nodes[b].leaf
      PROVE  b = e
  <2>1. Children(b, oid, xid) = {}
    BY <1>2 DEF Children
  <2>. QED
    BY <1>1, <2>1, OneEnd
<1>3. {x \in PathFrom(image.tree, oid, xid) : x \in DOMAIN image.nodes /\ image.nodes[x].leaf} =
        IF e \in DOMAIN image.nodes /\ image.nodes[e].leaf THEN {e} ELSE {}
  BY <1>2
<1>. QED
  BY <1>3 DEF TreeAnswer

\* A call that no step has touched stays good.
LEMMA UntouchedCall ==
  ASSUME image' = image, NEW d, GoodCall(d),
         pc'[d] = pc[d], query'[d] = query[d], searchXID'[d] = searchXID[d],
         at'[d] = at[d], paddr'[d] = paddr[d], outcome'[d] = outcome[d]
  PROVE  GoodCall(d)'
BY SameAnswers DEF GoodCall, Oid, Xid, SearchedXID

\* What a step of caller c has to show: the others and the cache are as before.
LEMMA OneCaller ==
  ASSUME TypeOK, AnswerInv, image' = image, NEW c \in Callers, oIDCache' = oIDCache,
         \A d \in Callers \ {c} :
           /\ pc'[d] = pc[d] /\ query'[d] = query[d] /\ searchXID'[d] = searchXID[d]
           /\ at'[d] = at[d] /\ paddr'[d] = paddr[d] /\ outcome'[d] = outcome[d],
         GoodCall(c)'
  PROVE  AnswerInv'
<1>1. \A k \in DOMAIN oIDCache' : oIDCache'[k] \in Uncached(k)'
  BY SameAnswers DEF AnswerInv
<1>2. ASSUME NEW d \in Callers, d # c PROVE GoodCall(d)'
  BY <1>2, UntouchedCall DEF AnswerInv
<1>. QED
  BY <1>1, <1>2 DEF AnswerInv

LEMMA AnswerInvStep ==
  ASSUME TypeOK, AnswerInv, [Next]_vars
  PROVE  AnswerInv'
<1>1. image' = image
  <2>1. CASE UNCHANGED vars
    BY <2>1 DEF vars
  <2>2. CASE Next
    BY <2>2 DEF Next, Step, ResolveVirtualObject, Hit, Miss, OmapError, ManualFound,
         ManualOnlyMissing, EnterTree, NodeError, LeafFound, LeafMissing, FollowChild,
         NoChild, Store, ClearCache, Fail
  <2>. QED
    BY <2>1, <2>2
<1>2. /\ pc \in [Callers -> {"idle", "lookup", "omap", "node", "store"}]
      /\ query \in [Callers -> Key] /\ searchXID \in [Callers -> Nat] /\ at \in [Callers -> Nat]
      /\ paddr \in [Callers -> Nat]
      /\ outcome \in [Callers -> {"none", "ok", "ioerr", "notfound"}]
  BY DEF TypeOK
<1>3. \A k : Uncached(k)' = Uncached(k)
  BY <1>1, SameAnswers
<1>4. ASSUME NEW c \in Callers, NEW oid \in OIDs, NEW xid \in XIDs, ResolveVirtualObject(c, oid, xid)
      PROVE  AnswerInv'
  <2>1. pc'[c] = "lookup" /\ outcome'[c] = "none"
    BY <1>2, <1>4 DEF ResolveVirtualObject
  <2>2. GoodCall(c)'
    BY <2>1 DEF GoodCall
  <2>. QED
    BY <1>1, <1>2, <1>4, <2>2, OneCaller DEF ResolveVirtualObject
<1>5. ASSUME NEW c \in Callers, Hit(c) PROVE AnswerInv'
  <2>1. /\ pc'[c] = "idle" /\ outcome'[c] = "ok" /\ query'[c] = query[c]
        /\ paddr'[c] = oIDCache[query[c]] /\ query[c] \in DOMAIN oIDCache
    BY <1>2, <1>5 DEF Hit, Return
  <2>2. GoodCall(c)'
    BY <1>3, <2>1 DEF GoodCall, AnswerInv
  <2>. QED
    BY <1>1, <1>2, <1>5, <2>2, OneCaller DEF Hit, Return
<1>6. ASSUME NEW c \in Callers, Miss(c) PROVE AnswerInv'
  <2>1. pc'[c] = "omap" /\ UNCHANGED <<outcome, query, paddr>>
    BY <1>2, <1>6 DEF Miss
  <2>2. GoodCall(c)'
    BY <1>3, <2>1 DEF GoodCall, AnswerInv
  <2>. QED
    BY <1>1, <1>2, <1>6, <2>2, OneCaller DEF Miss
<1>7. ASSUME NEW c \in Callers, NEW why \in {"ioerr", "notfound"}, Fail(c, why),
             why = "notfound" => Uncached(query[c]) = {}
      PROVE  AnswerInv'
  <2>1. pc'[c] = "idle" /\ outcome'[c] = why /\ query'[c] = query[c]
    BY <1>2, <1>7 DEF Fail, Return
  <2>2. GoodCall(c)'
    BY <1>3, <1>7, <2>1 DEF GoodCall
  <2>. QED
    BY <1>1, <1>2, <1>7, <2>2, OneCaller DEF Fail, Return
<1>8. ASSUME NEW c \in Callers, OmapError(c) \/ NodeError(c) PROVE AnswerInv'
  BY <1>7, <1>8 DEF OmapError, NodeError
<1>9. ASSUME NEW c \in Callers, ManualOnlyMissing(c) PROVE AnswerInv'
  <2>1. Uncached(query[c]) = {}
    BY <1>9, UncachedOf DEF ManualOnlyMissing
  <2>. QED
    BY <1>7, <1>9, <2>1 DEF ManualOnlyMissing
<1>10. ASSUME NEW c \in Callers, ManualFound(c) PROVE AnswerInv'
  <2>1. PICK i \in First(ManualMatches(image.manual, Oid(c), Xid(c))) :
          paddr' = [paddr EXCEPT ![c] = image.manual[i].val]
    BY <1>10 DEF ManualFound
  <2>2. pc'[c] = "store" /\ UNCHANGED <<query, outcome>> /\ paddr'[c] = image.manual[i].val
    BY <1>2, <1>10, <2>1 DEF ManualFound
  <2>3. ManualMatches(image.manual, Oid(c), Xid(c)) # {}
    BY <2>1 DEF First
  <2>4. paddr'[c] \in Uncached(query[c])
    BY <2>1, <2>2, <2>3, UncachedOf
  <2>5. GoodCall(c)'
    BY <1>3, <2>2, <2>3, <2>4 DEF GoodCall, AnswerInv
  <2>. QED
    BY <1>1, <1>2, <1>10, <2>1, <2>5, OneCaller DEF ManualFound
<1>11. ASSUME NEW c \in Callers, EnterTree(c) PROVE AnswerInv'
  <2>1. /\ pc'[c] = "node" /\ UNCHANGED <<query, outcome, paddr>>
        /\ searchXID'[c] = SearchedXID(Xid(c)) /\ at'[c] = image.tree /\ image.tree # 0
        /\ ManualMatches(image.manual, Oid(c), Xid(c)) = {}
    BY <1>2, <1>11 DEF EnterTree, SearchedXID
  <2>2. Oid(c)' = Oid(c) /\ Xid(c)' = Xid(c) /\ SearchedXID(Xid(c))' = SearchedXID(Xid(c))
    BY <1>1, <2>1 DEF Oid, Xid, SearchedXID
  <2>3. image.tree \in PathFrom(image.tree, Oid(c), searchXID'[c])
    BY PathIsClosed DEF Blocks
  <2>4. at'[c] \in PathFrom(image.tree, Oid(c), searchXID[c])'
    BY <1>1, <2>1, <2>2, <2>3, SameAnswers
  <2>5. GoodCall(c)'
    BY <1>1, <1>3, <2>1, <2>2, <2>4 DEF GoodCall, AnswerInv
  <2>. QED
    BY <1>1, <1>2, <1>11, <2>5, OneCaller DEF EnterTree
<1>12. ASSUME NEW c \in Callers, pc[c] = "node"
       PROVE  /\ at[c] \in PathFrom(image.tree, Oid(c), searchXID[c])
              /\ Uncached(query[c]) = TreeAnswer(Oid(c), searchXID[c])
  BY <1>12, UncachedOf DEF AnswerInv, GoodCall
<1>13. ASSUME NEW c \in Callers, LeafFound(c) PROVE AnswerInv'
  <2>1. PICK i \in LeafBest(Entries(c), Oid(c), searchXID[c]) :
          paddr' = [paddr EXCEPT ![c] = Entries(c)[i].val]
    BY <1>13 DEF LeafFound
  <2>2. /\ pc'[c] = "store" /\ UNCHANGED <<query, outcome>> /\ paddr'[c] = Entries(c)[i].val
        /\ pc[c] = "node" /\ at[c] \in DOMAIN image.nodes /\ image.nodes[at[c]].leaf
    BY <1>2, <1>13, <2>1 DEF LeafFound, AtNode
  <2>3. i \in Newest(Entries(c), Oid(c), searchXID[c])
    <3>1. \A j \in LeafMatches(Entries(c), Oid(c), searchXID[c]) : Entries(c)[j].xid \in Nat
      BY <2>2, EntryType DEF LeafMatches, Entries, Entry
    <3>. QED
      BY <2>1, <3>1 DEF Newest, LeafBest
  <2>4. paddr'[c] \in TreeAnswer(Oid(c), searchXID[c])
    <3>1. /\ at[c] \in PathFrom(image.tree, Oid(c), searchXID[c])
          /\ at[c] \in DOMAIN image.nodes /\ image.nodes[at[c]].leaf
      BY <1>12, <2>2, Zenon
    <3>2. /\ i \in Newest(image.nodes[at[c]].entries, Oid(c), searchXID[c])
          /\ paddr'[c] = image.nodes[at[c]].entries[i].val
      BY <2>2, <2>3, Zenon DEF Entries
    <3> DEFINE vals(b) == {image.nodes[b].entries[k].val :
                             k \in Newest(image.nodes[b].entries, Oid(c), searchXID[c])}
               leaves == {x \in PathFrom(image.tree, Oid(c), searchXID[c]) :
                             x \in DOMAIN image.nodes /\ image.nodes[x].leaf}
    <3>3. paddr'[c] \in vals(at[c]) /\ at[c] \in leaves
      BY <3>1, <3>2, Zenon
    <3>4. TreeAnswer(Oid(c), searchXID[c]) = UNION {vals(b) : b \in leaves}
      BY Zenon DEF TreeAnswer
    <3> HIDE DEF vals, leaves
    <3>. QED
      BY <3>3, <3>4, Zenon
  <2>5. GoodCall(c)'
    BY <1>3, <1>12, <2>2, <2>4 DEF GoodCall, AnswerInv
  <2>. QED
    BY <1>1, <1>2, <1>13, <2>1, <2>5, OneCaller DEF LeafFound
<1>14. ASSUME NEW c \in Callers, LeafMissing(c) PROVE AnswerInv'
  <2>1. /\ pc[c] = "node" /\ at[c] \in DOMAIN image.nodes /\ image.nodes[at[c]].leaf
        /\ Newest(image.nodes[at[c]].entries, Oid(c), searchXID[c]) = {} /\ Fail(c, "notfound")
    BY <1>14 DEF LeafMissing, AtNode, Newest, Entries
  <2>2. Children(at[c], Oid(c), searchXID[c]) = {}
    BY <2>1 DEF Children
  <2>3. TreeAnswer(Oid(c), searchXID[c]) = {}
    BY <1>12, <2>1, <2>2, AnswerAtEnd
  <2>. QED
    BY <1>7, <1>12, <2>1, <2>3
<1>15. ASSUME NEW c \in Callers, NoChild(c) PROVE AnswerInv'
  <2>1. /\ pc[c] = "node" /\ at[c] \in DOMAIN image.nodes /\ ~image.nodes[at[c]].leaf
        /\ ChildChoice(image.nodes[at[c]].entries, Oid(c), searchXID[c]) = {} /\ Fail(c, "notfound")
    BY <1>15 DEF NoChild, AtNode, Entries
  <2>2. Children(at[c], Oid(c), searchXID[c]) = {}
    BY <2>1 DEF Children
  <2>3. TreeAnswer(Oid(c), searchXID[c]) = {}
    BY <1>12, <2>1, <2>2, AnswerAtEnd
  <2>. QED
    BY <1>7, <1>12, <2>1, <2>3
<1>16. ASSUME NEW c \in Callers, FollowChild(c) PROVE AnswerInv'
  <2>1. PICK i \in ChildChoice(Entries(c), Oid(c), searchXID[c]) :
          at' = [at EXCEPT ![c] = Entries(c)[i].val]
    BY <1>16 DEF FollowChild
  <2>2. /\ UNCHANGED <<pc, query, searchXID, outcome, paddr>> /\ at'[c] = Entries(c)[i].val
        /\ pc[c] = "node" /\ at[c] \in DOMAIN image.nodes /\ ~image.nodes[at[c]].leaf
    BY <1>2, <1>16, <2>1 DEF FollowChild, AtNode
  <2>3. at'[c] \in Children(at[c], Oid(c), searchXID[c])
    BY <2>1, <2>2 DEF Children, Entries
  <2>4. at'[c] \in PathFrom(image.tree, Oid(c), searchXID[c])
    BY <1>12, <2>2, <2>3, PathIsClosed DEF Blocks
  <2>5. /\ Oid(c)' = Oid(c) /\ Xid(c)' = Xid(c) /\ searchXID'[c] = searchXID[c]
        /\ SearchedXID(Xid(c))' = SearchedXID(Xid(c))
    BY <1>1, <2>2 DEF Oid, Xid, SearchedXID
  <2>6. at'[c] \in PathFrom(image.tree, Oid(c), searchXID[c])'
    BY <1>1, <2>4, <2>5, SameAnswers
  <2>7. GoodCall(c)'
    BY <1>1, <1>3, <2>2, <2>5, <2>6 DEF GoodCall, AnswerInv
  <2>. QED
    BY <1>1, <1>2, <1>16, <2>1, <2>2, <2>7, OneCaller DEF FollowChild
<1>17. ASSUME NEW c \in Callers, Store(c) PROVE AnswerInv'
  <2>1. /\ pc[c] = "store" /\ pc'[c] = "idle" /\ outcome'[c] = "ok" /\ UNCHANGED <<query, paddr>>
        /\ oIDCache' = [x \in DOMAIN oIDCache \cup {query[c]} |->
                          IF x = query[c] THEN paddr[c] ELSE oIDCache[x]]
        /\ \A d \in Callers \ {c} : /\ pc'[d] = pc[d] /\ searchXID'[d] = searchXID[d]
                                    /\ at'[d] = at[d] /\ outcome'[d] = outcome[d]
    BY <1>2, <1>17 DEF Store, Return
  <2>2. paddr[c] \in Uncached(query[c])
    BY <2>1 DEF AnswerInv, GoodCall
  <2>3. \A k \in DOMAIN oIDCache' : oIDCache'[k] \in Uncached(k)'
    BY <1>3, <2>1, <2>2 DEF AnswerInv
  <2>4. GoodCall(c)'
    BY <1>3, <2>1, <2>2 DEF GoodCall
  <2>5. ASSUME NEW d \in Callers, d # c PROVE GoodCall(d)'
    <3>1. /\ pc'[d] = pc[d] /\ searchXID'[d] = searchXID[d] /\ at'[d] = at[d]
          /\ outcome'[d] = outcome[d] /\ paddr'[d] = paddr[d] /\ query'[d] = query[d]
      BY <2>1, <2>5
    <3>. QED
      BY <1>1, <3>1, UntouchedCall DEF AnswerInv
  <2>. QED
    BY <2>3, <2>4, <2>5 DEF AnswerInv
<1>18. CASE ClearCache \/ UNCHANGED vars
  <2>1. UNCHANGED callVars /\ (oIDCache' = oIDCache \/ oIDCache' = [k \in {} |-> 0])
    BY <1>18 DEF ClearCache, vars, callVars
  <2>2. \A k \in DOMAIN oIDCache' : oIDCache'[k] \in Uncached(k)'
    BY <1>3, <2>1 DEF AnswerInv
  <2>3. ASSUME NEW d \in Callers PROVE GoodCall(d)'
    BY <1>1, <2>1, UntouchedCall DEF AnswerInv, callVars
  <2>. QED
    BY <2>2, <2>3 DEF AnswerInv
<1>. QED
  BY <1>4, <1>5, <1>6, <1>8, <1>9, <1>10, <1>11, <1>13, <1>14, <1>15, <1>16, <1>17, <1>18 DEF Next, Step

LEMMA AnswerInvInit == Init => AnswerInv
BY DEF Init, AnswerInv, GoodCall

\* For every image, cycles and damaged nodes included, and any number of
\* goroutines: an address cached or returned is one that a search for its key
\* gives that nothing disturbs, and a call finds nothing only where that search
\* finds nothing (ResolveVirtualObject, makeCacheKey).
THEOREM CacheIsTransparent == Spec => []CacheTransparent
<1>1. AnswerInv => CacheTransparent
  BY DEF AnswerInv, GoodCall, CacheTransparent
<1>2. TypeOK /\ AnswerInv /\ [Next]_vars => AnswerInv'
  BY AnswerInvStep
<1>. QED
  BY <1>1, <1>2, AnswerInvInit, TypeCorrect, PTL DEF Spec

\* Where anything matches there is a newest match.
LEMMA NewestExists ==
  ASSUME TypeOK, NEW b \in DOMAIN image.nodes, NEW oid, NEW xid \in Nat,
         Newest(image.nodes[b].entries, oid, xid) = {}
  PROVE  LeafMatches(image.nodes[b].entries, oid, xid) = {}
<1> DEFINE es == image.nodes[b].entries
           ms == LeafMatches(es, oid, xid)
           T == {xid - es[i].xid : i \in ms}
<1> SUFFICES ASSUME ms # {} PROVE FALSE
  OBVIOUS
<1>1. \A i \in ms : es[i].xid \in Nat /\ es[i].xid <= xid
  BY EntryType DEF LeafMatches, Entry
<1>2. Newest(es, oid, xid) = {i \in ms : \A j \in ms : es[j].xid <= es[i].xid}
  BY DEF Newest
<1> HIDE DEF ms, es
<1>3. T \subseteq Nat /\ T # {}
  BY <1>1
<1>4. PICK m \in T : \A k \in T : m <= k
  <2> HIDE DEF T
  <2>. QED
    BY <1>3, NatHasMin
<1>5. PICK i \in ms : m = xid - es[i].xid
  OBVIOUS
<1>6. ASSUME NEW j \in ms PROVE es[j].xid <= es[i].xid
  <2>1. m <= xid - es[j].xid
    BY <1>4
  <2>. QED
    BY <1>1, <1>5, <2>1
<1>7. i \in Newest(es, oid, xid)
  BY <1>2, <1>6
<1>. QED
  BY <1>7 DEF es

\* For leaves with any number of versions in any order: the answer, from the
\* leaf or from the cache, is the newest mapping not after the transaction asked
\* for, and a mapping that exists is found (searchLeafNode).
THEOREM NewestIsFound == Spec => []NewestInLeaf
<1>1. TypeOK /\ AnswerInv => NewestInLeaf
  <2> SUFFICES ASSUME TypeOK, AnswerInv, PlainLeaf, NEW c \in Callers
               PROVE  ToldNewest(c)
    BY DEF NewestInLeaf
  <2> DEFINE es == image.nodes[image.tree].entries
             all == {es[i] : i \in LeafMatches(es, Oid(c), Xid(c))}
  <2>1. Mappings(Oid(c), Xid(c)) = all
    <3>1. {x \in DOMAIN image.nodes : image.nodes[x].leaf} = {image.tree}
      BY DEF PlainLeaf
    <3>. QED
      BY <3>1 DEF Mappings
  <2>2. Uncached(query[c]) = TreeAnswer(Oid(c), Xid(c))
    <3>1. ManualMatches(image.manual, Oid(c), Xid(c)) = {}
      BY DEF ManualMatches, PlainLeaf
    <3>2. SearchedXID(Xid(c)) = Xid(c)
      BY DEF SearchedXID, PlainLeaf
    <3>. QED
      BY <3>1, <3>2, UncachedOf DEF PlainLeaf
  <2>3. TreeAnswer(Oid(c), Xid(c)) = {es[i].val : i \in Newest(es, Oid(c), Xid(c))}
    <3>1. Children(image.tree, Oid(c), Xid(c)) = {}
      BY DEF Children, PlainLeaf
    <3>2. image.tree \in PathFrom(image.tree, Oid(c), Xid(c))
      BY PathIsClosed DEF Blocks
    <3>. QED
      BY <3>1, <3>2, AnswerAtEnd DEF PlainLeaf
  <2>4. ASSUME outcome[c] = "ok"
        PROVE  \E e \in all : e.val = paddr[c] /\ \A f \in all : f.xid <= e.xid
    <3>1. paddr[c] \in {es[i].val : i \in Newest(es, Oid(c), Xid(c))}
      BY <2>2, <2>3, <2>4 DEF AnswerInv, GoodCall
    <3>. QED
      BY <3>1 DEF Newest
  <2>5. ASSUME outcome[c] = "notfound" PROVE all = {}
    <3>1. {es[i].val : i \in Newest(es, Oid(c), Xid(c))} = {}
      BY <2>2, <2>3, <2>5 DEF AnswerInv, GoodCall
    <3>2. Xid(c) \in Nat
      BY DEF TypeOK, Key, Xid
    <3>3. Newest(es, Oid(c), Xid(c)) = {}
      BY <3>1
    <3>. QED
      BY <3>2, <3>3, NewestExists DEF PlainLeaf
  <2>. QED
    BY <2>1, <2>4, <2>5 DEF ToldNewest
<1>2. TypeOK /\ AnswerInv /\ [Next]_vars => AnswerInv'
  BY AnswerInvStep
<1>. QED
  BY <1>1, <1>2, AnswerInvInit, TypeCorrect, PTL DEF Spec

===============================================================================
