----------------------------- MODULE ParsersProofs -----------------------------
(***************************************************************************)
(* Proofs about the parsers, which read values out of bytes: NodeLayout,   *)
(* BTreeSearch, BTreeValidator, GeneralBitmap, ItemLists,                  *)
(* ObjectChecksum and RecordReaders, for nodes, bitmaps, lists, payloads   *)
(* and records of every size and content.                                  *)
(***************************************************************************)
EXTENDS NodeLayout, BTreeSearch, BTreeValidator, GeneralBitmap, ItemLists, ObjectChecksum,
        RecordReaders, FiniteSetTheorems, SequenceTheorems, NumberLemmas, TLAPS

-----------------------------------------------------------------------------
(* NodeLayout.                                                             *)

LayoutTypeOK ==
  /\ node \in Nodes
  /\ phase \in {"table", "extract", "done", "err", "panic"}
  /\ entries \in Seq(TocEntry)
  /\ taken \in Seq([key : Slice, value : Slice, ok : BOOLEAN])

Inside(s) == 0 <= s.from /\ s.from <= s.to /\ s.to <= DataLen

\* Slices are taken once the table is read, and fewer entries than keys are
\* read only where the table is cut off by the end of the data.
LayoutInv ==
  /\ LayoutTypeOK
  /\ Len(taken) <= Len(entries) /\ Len(entries) <= node.nkeys
  /\ phase = "table" => taken = <<>>
  /\ phase \in {"extract", "panic"} => Len(entries) = node.nkeys \/ NextOffset + EntrySize > DataLen
  /\ phase = "panic" => Len(entries) < node.nkeys
  /\ \A j \in 1..Len(taken) : Inside(taken[j].key) /\ Inside(taken[j].value)

LEMMA LayoutNumbers ==
  ASSUME LayoutInv
  PROVE  /\ DataLen \in Nat /\ tableOffset \in Nat
         /\ node.nkeys \in Nat /\ Len(entries) \in Nat /\ Len(taken) \in Nat
         /\ EntrySize \in {4, 8}
         /\ node.fixed \in BOOLEAN
BY LayoutAssumption DEF LayoutInv, LayoutTypeOK, DataLen, tableOffset, EntrySize

\* The table's entries and the junk that stands for one.
LEMMA DecodedType ==
  ASSUME LayoutInv, NEW x, NEW e \in Decoded(x)
  PROVE  e \in TocEntry
<1>1. node.toc \in Seq(TocEntry) /\ Junk \subseteq TocEntry
  BY LayoutAssumption DEF LayoutInv, LayoutTypeOK
<1>2. \A j \in 1..Len(node.toc) : node.toc[j] \in TocEntry
  BY <1>1, ElementOfSeq
<1>. QED
  BY <1>1, <1>2 DEF Decoded

\* What Extract takes of an entry lies inside the node's data.
LEMMA ExtractedInside ==
  ASSUME LayoutInv, NEW e \in TocEntry, Extractable(e)
  PROVE  /\ KeySlice(e) \in Slice /\ ValueSlice(e) \in Slice
         /\ Inside(KeySlice(e)) /\ Inside(ValueSlice(e))
<1>1. /\ DataLen \in Nat /\ Header \in Nat /\ KVSize \in Nat
      /\ e.k \in Nat /\ e.klen \in Nat /\ e.v \in Nat /\ e.vlen \in Nat
  BY LayoutAssumption, LayoutNumbers DEF TocEntry
<1>2. KeySlice(e) \in Slice /\ ValueSlice(e) \in Slice
  BY <1>1 DEF KeySlice, ValueSlice, Slice
<1>3. Inside(KeySlice(e))
  BY <1>1 DEF KeySlice, Extractable, Inside
<1>4. Inside(ValueSlice(e))
  BY <1>1 DEF ValueSlice, Extractable, Inside
<1>. QED
  BY <1>2, <1>3, <1>4

LEMMA LayoutInvInit == Init => LayoutInv
<1> SUFFICES ASSUME Init PROVE LayoutInv
  OBVIOUS
<1>1. Len(entries) = 0 /\ Len(taken) = 0
  BY DEF Init
<1>2. node.nkeys \in Nat
  BY LayoutAssumption DEF Init
<1>. QED
  BY <1>1, <1>2 DEF Init, LayoutInv, LayoutTypeOK

LEMMA LayoutInvStep == LayoutInv /\ [Next]_vars => LayoutInv'
<1> SUFFICES ASSUME LayoutInv, [Next]_vars PROVE LayoutInv'
  OBVIOUS
<1>1. CASE TableBeyond
  BY <1>1 DEF TableBeyond, LayoutInv, LayoutTypeOK, Inside, DataLen
<1>2. CASE ReadEntry
  <2>1. PICK e \in Decoded(NextOffset) : entries' = Append(entries, e)
    BY <1>2 DEF ReadEntry
  <2>2. e \in TocEntry
    BY <2>1, DecodedType
  <2>3. entries' \in Seq(TocEntry) /\ Len(entries') = Len(entries) + 1
    BY <2>1, <2>2 DEF LayoutInv, LayoutTypeOK
  <2>4. /\ UNCHANGED <<node, phase, taken>> /\ phase = "table" /\ taken = <<>>
        /\ Len(entries) < node.nkeys
    BY <1>2 DEF ReadEntry, EntryFits, LayoutInv
  <2>5. Len(taken') <= Len(entries') /\ Len(entries') <= node'.nkeys
    BY <2>3, <2>4, LayoutNumbers
  <2>6. Len(taken') = 0
    BY <2>4
  <2>. QED
    BY <2>3, <2>4, <2>5, <2>6 DEF LayoutInv, LayoutTypeOK
<1>3. CASE TableEnds
  <2>1. /\ UNCHANGED <<node, entries, taken>> /\ phase' = "extract"
        /\ Len(entries) = node.nkeys \/ NextOffset + EntrySize > DataLen
    BY <1>3, LayoutNumbers DEF TableEnds, EntryFits, LayoutInv, NextOffset
  <2>. QED
    BY <2>1 DEF LayoutInv, LayoutTypeOK, Inside, DataLen, NextOffset, EntrySize, tableOffset
<1>4. CASE Extract
  <2> DEFINE e == entries[Len(taken) + 1]
             t == IF Extractable(e) THEN [key |-> KeySlice(e), value |-> ValueSlice(e), ok |-> TRUE]
                  ELSE Skipped
  <2>1. /\ UNCHANGED <<node, phase, entries>> /\ phase = "extract"
        /\ Len(taken) < Len(entries) /\ taken' = Append(taken, t)
    BY <1>4 DEF Extract
  <2>2. e \in TocEntry
    <3>1. Len(taken) + 1 \in 1..Len(entries)
      BY <2>1, LayoutNumbers
    <3>. QED
      BY <3>1, ElementOfSeq DEF LayoutInv, LayoutTypeOK
  <2>3. t \in [key : Slice, value : Slice, ok : BOOLEAN] /\ Inside(t.key) /\ Inside(t.value)
    <3>1. CASE Extractable(e)
      BY <2>2, <3>1, ExtractedInside
    <3>2. CASE ~Extractable(e)
      BY <3>2, LayoutNumbers DEF Skipped, Slice, Inside
    <3>. QED
      BY <3>1, <3>2
  <2> HIDE DEF t
  <2>4. /\ taken' \in Seq([key : Slice, value : Slice, ok : BOOLEAN])
        /\ Len(taken') = Len(taken) + 1
        /\ \A j \in 1..Len(taken') : (j \in 1..Len(taken) /\ taken'[j] = taken[j]) \/ taken'[j] = t
    BY <2>1, <2>3 DEF LayoutInv, LayoutTypeOK
  <2>5. \A j \in 1..Len(taken') : Inside(taken'[j].key) /\ Inside(taken'[j].value)
    BY <2>3, <2>4 DEF LayoutInv
  <2>6. Len(taken') <= Len(entries')
    BY <2>1, <2>4, LayoutNumbers
  <2>. QED
    BY <2>1, <2>4, <2>5, <2>6 DEF LayoutInv, LayoutTypeOK, Inside, DataLen, NextOffset, EntrySize, tableOffset
<1>5. CASE AllExtracted \/ NoSuitableChild
  BY <1>5 DEF AllExtracted, NoSuitableChild, LayoutInv, LayoutTypeOK, Inside, DataLen
<1>6. CASE RightmostChild
  <2>1. /\ UNCHANGED <<node, entries, taken>> /\ phase = "extract"
        /\ (phase' = "panic" /\ node.nkeys > Len(entries)) \/ phase' \in {"done", "err"}
    BY <1>6 DEF RightmostChild, AtRightmost, lastEntry
  <2>2. phase' = "panic" => Len(entries) < node.nkeys
    BY <2>1, LayoutNumbers
  <2>. QED
    BY <2>1, <2>2 DEF LayoutInv, LayoutTypeOK, Inside, DataLen, NextOffset, EntrySize, tableOffset
<1>7. CASE UNCHANGED vars
  BY <1>7 DEF vars, LayoutInv, LayoutTypeOK, Inside, DataLen, NextOffset, EntrySize, tableOffset
<1>. QED
  BY <1>1, <1>2, <1>3, <1>4, <1>5, <1>6, <1>7 DEF Next, LayoutStep, Ended

\* Whatever the offsets and lengths of a node, no slice taken reaches outside
\* its data, no more entries are read than it has keys, and the index of the
\* rightmost child is out of range only where the table is cut off.
THEOREM SlicesStayInData == Spec => []SlicesInData
<1>1. LayoutInv => SlicesInData
  <2> SUFFICES ASSUME LayoutInv PROVE SlicesInData
    OBVIOUS
  <2>1. phase = "panic" => tableOffset + node.nkeys * EntrySize > DataLen
    <3> SUFFICES ASSUME phase = "panic" PROVE tableOffset + node.nkeys * EntrySize > DataLen
      OBVIOUS
    <3>1. tableOffset + Len(entries) * EntrySize + EntrySize > DataLen /\ Len(entries) + 1 <= node.nkeys
      BY LayoutNumbers DEF LayoutInv, NextOffset
    <3>2. CASE EntrySize = 4
      BY <3>1, <3>2, LayoutNumbers
    <3>3. CASE EntrySize = 8
      BY <3>1, <3>3, LayoutNumbers
    <3>. QED
      BY <3>2, <3>3, LayoutNumbers
  <2>. QED
    BY <2>1 DEF LayoutInv, SlicesInData, Inside
<1>. QED
  BY <1>1, LayoutInvInit, LayoutInvStep, PTL DEF Spec

-----------------------------------------------------------------------------
(* BTreeSearch.                                                            *)

\* The range that is left, and what is known of the entries outside it: to its
\* left they are below the OID, or the best match is the last visible one; to
\* its right they are above it or too new.
CompositeRange ==
  /\ best >= 0 => Visible(best)
  /\ \A j \in Indices : j < low /\ Visible(j) => j <= best
  /\ \A j \in Indices : j > high => ~Visible(j)

OIDRange ==
  /\ \A j \in Indices : j < low => snode.oid[j] < tOID
  /\ \A j \in Indices : j > high => snode.oid[j] > tOID

SearchInv ==
  /\ SearchTypeOK
  /\ answer = "called" => low = 0 /\ high = -1 /\ best = -1
  /\ answer # "called" => low <= high + 1
  /\ answer = "searching" =>
       /\ snode.n > 0
       /\ composite /\ snode.fixed => low <= high
       /\ Ordered => IF composite THEN CompositeRange ELSE OIDRange
  /\ SearchIsRight

LEMMA SearchNumbers ==
  ASSUME SearchTypeOK
  PROVE  /\ snode.n \in Nat /\ snode.fit \in Nat
         /\ low \in Nat /\ high \in Int /\ best \in Int /\ found \in Int
         /\ tOID \in Nat /\ tXID \in Nat
         /\ composite \in BOOLEAN /\ snode.fixed \in BOOLEAN
         /\ \A j \in Indices : snode.oid[j] \in Nat /\ snode.xid[j] \in Nat
<1>1. snode \in SearchNodes
  BY DEF SearchTypeOK
<1>2. /\ snode.n \in Nat /\ snode.fit \in Nat /\ snode.fixed \in BOOLEAN
      /\ snode.oid \in [0..(snode.n - 1) -> Nat] /\ snode.xid \in [0..(snode.n - 1) -> Nat]
  BY <1>1, SearchAssumption
<1>3. tOID \in Nat /\ tXID \in Nat
  BY SearchAssumption DEF SearchTypeOK
<1>4. low \in Nat /\ high \in Int /\ best \in Int /\ found \in Int /\ composite \in BOOLEAN
  BY <1>2 DEF SearchTypeOK
<1>5. \A j \in Indices : snode.oid[j] \in Nat /\ snode.xid[j] \in Nat
  BY <1>2 DEF Indices
<1>. QED
  BY <1>2, <1>3, <1>4, <1>5

\* The middle entry lies in the range.
LEMMA MidInRange ==
  ASSUME SearchInv, Searching
  PROVE  mid \in Int /\ low <= mid /\ mid <= high /\ mid \in Indices
<1>1. low \in Nat /\ high \in Int /\ low <= high /\ high <= snode.n - 1 /\ snode.n \in Nat
  BY SearchNumbers DEF SearchInv, Searching, SearchTypeOK
<1>2. mid \in Int /\ low <= mid /\ mid <= high
  BY <1>1 DEF mid
<1>. QED
  BY <1>1, <1>2 DEF Indices

\* Keys of fixed-size entries are too short for a search by OID and XID.
LEMMA FixedNotComparable ==
  ASSUME NEW i, composite, snode.fixed
  PROVE  ~Comparable(i)
BY DEF Comparable, extractOIDXIDFromKey, KeyLen, extractFixedSizeEntry

LEMMA SearchTypeStep ==
  ASSUME SearchInv, SearchNext
  PROVE  SearchTypeOK'
<1> USE SearchNumbers DEF SearchTypeOK
<1>0. SearchTypeOK
  BY DEF SearchInv
<1>1. CASE FindEntryRefused
  BY <1>0, <1>1 DEF FindEntryRefused, Stop
<1>2. CASE FindEntry
  BY <1>0, <1>2 DEF FindEntry
<1>3. CASE ExtractFails
  BY <1>0, <1>3 DEF ExtractFails, Stop
<1>4. CASE GoRight
  BY <1>0, <1>4, MidInRange DEF GoRight, Indices
<1>5. CASE GoLeft
  BY <1>0, <1>5, MidInRange DEF GoLeft, Indices
<1>6. CASE Match
  BY <1>0, <1>6, MidInRange DEF Match, Stop, Indices
<1>7. CASE FallBack
  BY <1>0, <1>7 DEF FallBack, Stop, fallback
<1>8. CASE NotFound
  BY <1>0, <1>8 DEF NotFound, Stop
<1>9. CASE BestMatch
  BY <1>0, <1>9 DEF BestMatch, Stop
<1>10. CASE NoMatch
  BY <1>0, <1>10 DEF NoMatch, Stop
<1>. QED
  BY <1>1, <1>2, <1>3, <1>4, <1>5, <1>6, <1>7, <1>8, <1>9, <1>10 DEF SearchNext

\* A search that has not returned yet has answered nothing, and an error says
\* nothing of the entries.
LEMMA UnansweredIsRight ==
  ASSUME answer \in {"called", "searching", "error"}
  PROVE  SearchIsRight
BY DEF SearchIsRight, CompositeFindsNewest, OIDFindsLastBelow

LEMMA SearchInvInit == SearchInit => SearchInv
<1> SUFFICES ASSUME SearchInit PROVE SearchInv
  OBVIOUS
<1>1. snode.n \in Nat
  BY SearchAssumption DEF SearchInit
<1>2. SearchTypeOK
  BY <1>1 DEF SearchInit, SearchTypeOK
<1>3. SearchIsRight
  BY UnansweredIsRight DEF SearchInit
<1>. QED
  BY <1>2, <1>3 DEF SearchInit, SearchInv

\* What the middle entry of an ordered node says of the entries before and
\* behind it.
LEMMA OrderedFromMid ==
  ASSUME SearchInv, Searching, Ordered
  PROVE  /\ \A j \in Indices : j <= mid => snode.oid[j] <= snode.oid[mid]
         /\ \A j \in Indices : j >= mid =>
              \/ snode.oid[j] > snode.oid[mid]
              \/ snode.oid[j] = snode.oid[mid] /\ snode.xid[j] >= snode.xid[mid]
<1>1. mid \in Indices /\ \A j \in Indices : j \in Int /\ snode.oid[j] \in Nat /\ snode.xid[j] \in Nat
  BY MidInRange, SearchNumbers DEF SearchInv, Indices
<1>2. mid \in Int
  BY MidInRange
<1> HIDE DEF Indices
<1> DEFINE m == mid
<1> HIDE DEF m
<1>3. m \in Indices /\ m \in Int
  BY <1>1, <1>2 DEF m
<1>4. \A j \in Indices : j <= m => snode.oid[j] <= snode.oid[m]
  BY <1>1, <1>3 DEF Ordered
<1>5. ASSUME NEW j \in Indices, j >= m
      PROVE  \/ snode.oid[j] > snode.oid[m]
             \/ snode.oid[j] = snode.oid[m] /\ snode.xid[j] >= snode.xid[m]
  <2>1. CASE j = m
    BY <1>1, <2>1
  <2>2. CASE m < j
    BY <1>1, <1>3, <2>2 DEF Ordered
  <2>3. j \in Int /\ m \in Int
    BY <1>1, <1>3
  <2>4. j = m \/ m < j
    BY <1>5, <2>3
  <2>. QED
    BY <2>1, <2>2, <2>4, Zenon
<1>. QED
  BY <1>4, <1>5 DEF m

\* GoRight leaves out entries that are below the OID, or no later than the one
\* it takes for the best match.
LEMMA RightKeepsRange ==
  ASSUME SearchInv, GoRight, Ordered
  PROVE  (IF composite THEN CompositeRange ELSE OIDRange)'
<1> USE SearchNumbers
<1>1. Searching /\ SearchTypeOK /\ mid \in Indices /\ mid \in Int
  BY MidInRange DEF GoRight, SearchInv
<1>2. PICK m \in Indices : m = mid
  BY <1>1
<1>3. /\ UNCHANGED <<snode, composite, tOID, tXID, high>>
      /\ low' = m + 1 /\ best' = IF Candidate(m) THEN m ELSE best
      /\ snode.oid[m] < tOID \/ Candidate(m)
  BY <1>2 DEF GoRight
<1>4. \A j \in Indices : j <= m => snode.oid[j] <= snode.oid[m]
  BY <1>1, <1>2, OrderedFromMid
<1>5. \A j \in Indices : j \in Int /\ snode.oid[j] \in Nat /\ snode.xid[j] \in Nat
  BY <1>1 DEF Indices
<1>6. Indices' = Indices /\ \A j : Visible(j)' <=> Visible(j)
  BY <1>3 DEF Indices, Visible
<1>7. IF composite THEN CompositeRange ELSE OIDRange
  BY <1>1 DEF SearchInv, Searching
<1>8. CASE composite
  <2>1. \A j \in Indices : j > high' => ~Visible(j)
    BY <1>3, <1>7, <1>8 DEF CompositeRange
  <2>2. CASE Candidate(m)
    <3>1. best' = m /\ Visible(m)
      BY <1>3, <2>2 DEF Candidate, Visible
    <3>2. \A j \in Indices : j < low' /\ Visible(j) => j <= best'
      BY <1>3, <1>5, <3>1
    <3>. QED
      BY <1>3, <1>6, <1>8, <2>1, <3>1, <3>2 DEF CompositeRange
  <2>3. CASE ~Candidate(m)
    <3>1. best' = best /\ snode.oid[m] < tOID
      BY <1>3, <2>3
    <3>2. \A j \in Indices : j < low' => ~Visible(j)
      BY <1>1, <1>3, <1>4, <1>5, <3>1 DEF Visible
    <3>3. best >= 0 => Visible(best)
      BY <1>7, <1>8 DEF CompositeRange
    <3>. QED
      BY <1>3, <1>6, <1>8, <2>1, <3>1, <3>2, <3>3 DEF CompositeRange, Visible
  <2>. QED
    BY <2>2, <2>3
<1>9. CASE ~composite
  <2>1. snode.oid[m] < tOID
    BY <1>3, <1>9 DEF Candidate
  <2>2. \A j \in Indices : j < low' => snode.oid[j] < tOID
    BY <1>1, <1>3, <1>4, <1>5, <2>1
  <2>3. \A j \in Indices : j > high' => snode.oid[j] > tOID
    BY <1>3, <1>7, <1>9 DEF OIDRange
  <2>. QED
    BY <1>3, <1>6, <1>9, <2>2, <2>3 DEF OIDRange
<1>. QED
  BY <1>8, <1>9

\* GoLeft leaves out entries above the OID, or of the object and too new.
LEMMA LeftKeepsRange ==
  ASSUME SearchInv, GoLeft, Ordered
  PROVE  (IF composite THEN CompositeRange ELSE OIDRange)'
<1> USE SearchNumbers
<1>1. Searching /\ SearchTypeOK /\ mid \in Indices /\ mid \in Int
  BY MidInRange DEF GoLeft, SearchInv
<1>2. PICK m \in Indices : m = mid
  BY <1>1
<1>3. /\ UNCHANGED <<snode, composite, tOID, tXID, low, best>>
      /\ high' = m - 1
      /\ snode.oid[m] > tOID \/ (composite /\ snode.oid[m] = tOID /\ ~Candidate(m))
  BY <1>2 DEF GoLeft
<1>4. \A j \in Indices : j >= m =>
        \/ snode.oid[j] > snode.oid[m]
        \/ snode.oid[j] = snode.oid[m] /\ snode.xid[j] >= snode.xid[m]
  BY <1>1, <1>2, OrderedFromMid
<1>5. \A j \in Indices : j \in Int /\ snode.oid[j] \in Nat /\ snode.xid[j] \in Nat
  BY <1>1 DEF Indices
<1>6. Indices' = Indices /\ \A j : Visible(j)' <=> Visible(j)
  BY <1>3 DEF Indices, Visible
<1>7. IF composite THEN CompositeRange ELSE OIDRange
  BY <1>1 DEF SearchInv, Searching
<1>8. CASE composite
  <2>1. \A j \in Indices : j > high' => ~Visible(j)
    BY <1>1, <1>3, <1>4, <1>5 DEF Visible, Candidate
  <2>2. /\ best >= 0 => Visible(best)
        /\ \A j \in Indices : j < low /\ Visible(j) => j <= best
    BY <1>7, <1>8 DEF CompositeRange
  <2>. QED
    BY <1>3, <1>6, <1>8, <2>1, <2>2 DEF CompositeRange, Visible
<1>9. CASE ~composite
  <2>1. \A j \in Indices : j > high' => snode.oid[j] > tOID
    <3>1. snode.oid[m] > tOID
      BY <1>3, <1>9
    <3>2. tOID \in Int /\ snode.oid[m] \in Int
      BY <1>1, <1>5
    <3>3. \A j \in Indices : j > m - 1 => j >= m
      BY <1>5
    <3>. QED
      BY <1>3, <1>4, <1>5, <3>1, <3>2, <3>3
  <2>2. \A j \in Indices : j < low => snode.oid[j] < tOID
    BY <1>7, <1>9 DEF OIDRange
  <2>. QED
    BY <1>3, <1>6, <1>9, <2>1, <2>2 DEF OIDRange
<1>. QED
  BY <1>8, <1>9

\* When nothing is left of the range, what lies outside it is the whole node.
LEMMA SearchEndsRight ==
  ASSUME SearchInv, Exhausted, FallBack \/ NotFound \/ BestMatch \/ NoMatch
  PROVE  SearchIsRight'
<1> USE SearchNumbers
<1>1. /\ SearchTypeOK /\ low = high + 1
      /\ ~(composite /\ snode.fixed)
      /\ Ordered => IF composite THEN CompositeRange ELSE OIDRange
  <2>1. SearchTypeOK /\ low > high /\ low <= high + 1
    BY DEF SearchInv, Exhausted
  <2>2. low \in Int /\ high \in Int
    BY <2>1
  <2>. QED
    BY <2>1, <2>2 DEF SearchInv, Exhausted
<1>2. UNCHANGED <<snode, composite, tOID, tXID, low, high, best>>
  BY DEF FallBack, NotFound, BestMatch, NoMatch, Stop
<1>3. \A j \in Indices : j \in Int /\ snode.oid[j] \in Nat /\ snode.xid[j] \in Nat
  BY <1>1 DEF Indices
<1>4. /\ Indices' = Indices
      /\ Ordered' <=> Ordered
      /\ \A j : Visible(j)' <=> Visible(j)
  BY <1>2 DEF Indices, Visible, Ordered
<1>5. CASE composite
  <2>1. /\ Ordered => (best >= 0 => Visible(best))
        /\ Ordered => \A j \in Indices : Visible(j) => j <= best
    BY <1>1, <1>3, <1>5 DEF CompositeRange
  <2>2. CASE BestMatch
    <3>1. answer' = "found" /\ found' = best /\ best >= 0
      BY <2>2 DEF BestMatch, Stop
    <3>2. ~snode'.fixed /\ composite'
      BY <1>1, <1>2, <1>5
    <3>3. Ordered' => Visible(found)'
      BY <1>2, <1>4, <2>1, <3>1 DEF Visible
    <3>4. Ordered' => \A j \in Indices' : Visible(j)' => j <= found'
      BY <1>4, <2>1, <3>1
    <3>. QED
      BY <3>1, <3>2, <3>3, <3>4 DEF SearchIsRight, CompositeFindsNewest, OIDFindsLastBelow
  <2>3. CASE NoMatch
    <3>1. answer' = "absent" /\ best < 0
      BY <2>3 DEF NoMatch, Stop
    <3>2. Ordered => \A j \in Indices : ~Visible(j)
      <4>1. \A j \in Indices : j >= 0
        BY <1>1 DEF Indices
      <4>. QED
        BY <1>1, <1>3, <2>1, <3>1, <4>1
    <3>3. ~snode'.fixed /\ composite'
      BY <1>1, <1>2, <1>5
    <3>4. Ordered' => \A j \in Indices' : ~Visible(j)'
      BY <1>4, <3>2
    <3>. QED
      BY <3>1, <3>3, <3>4 DEF SearchIsRight, CompositeFindsNewest, OIDFindsLastBelow
  <2>. QED
    BY <1>5, <2>2, <2>3 DEF FallBack, NotFound
<1>6. CASE ~composite
  <2>1. /\ Ordered => \A j \in Indices : j <= high => snode.oid[j] < tOID
        /\ Ordered => \A j \in Indices : j > high => snode.oid[j] > tOID
    BY <1>1, <1>3, <1>6 DEF OIDRange
  <2>2. CASE FallBack
    <3>1. answer' = "found" /\ found' = high /\ high \in Indices
      BY <1>1, <2>2 DEF FallBack, fallback, Stop, Indices
    <3>2. Ordered => snode.oid[high] < tOID
      BY <1>1, <2>1, <3>1
    <3>3. ~composite' /\ UNCHANGED <<snode, tOID>>
      BY <1>2, <1>6
    <3>4. Ordered' => snode'.oid[found'] < tOID'
      BY <1>4, <3>1, <3>2, <3>3
    <3>5. Ordered' => \A j \in Indices' : j > found' => snode'.oid[j] > tOID'
      BY <1>4, <2>1, <3>1, <3>3
    <3>. QED
      BY <3>1, <3>3, <3>4, <3>5 DEF SearchIsRight, CompositeFindsNewest, OIDFindsLastBelow
  <2>3. CASE NotFound
    <3>1. answer' = "absent" /\ (high \in Indices => ~Extracted(high))
      BY <1>1, <2>3 DEF NotFound, fallback, Stop, Indices
    <3>2. high \notin Indices => \A j \in Indices : j > high
      BY <1>1 DEF SearchTypeOK, Indices
    <3>4. Ordered => \A j \in Indices :
            snode.oid[j] > tOID \/ (snode.oid[j] < tOID /\ j <= high /\ ~Extracted(high))
      BY <1>1, <1>3, <2>1, <3>1, <3>2
    <3>5. ~composite' /\ UNCHANGED <<snode, tOID, high>>
      BY <1>2, <1>6
    <3>6. Ordered' => \A j \in Indices' : snode'.oid[j] > tOID'
            \/ (snode'.oid[j] < tOID' /\ j <= high' /\ ~Extracted(high)')
      <4>1. Extracted(high)' <=> Extracted(high)
        BY <3>5 DEF Extracted
      <4>. QED
        BY <1>4, <3>4, <3>5, <4>1
    <3>. QED
      BY <3>1, <3>5, <3>6 DEF SearchIsRight, CompositeFindsNewest, OIDFindsLastBelow
  <2>. QED
    BY <1>6, <2>2, <2>3 DEF BestMatch, NoMatch
<1>. QED
  BY <1>5, <1>6

LEMMA SearchInvStep == SearchInv /\ [SearchNext]_searchVars => SearchInv'
<1> USE SearchNumbers
<1> SUFFICES ASSUME SearchInv, [SearchNext]_searchVars PROVE SearchInv'
  OBVIOUS
<1>0. CASE UNCHANGED searchVars
  BY <1>0 DEF searchVars, SearchInv, SearchTypeOK, SearchIsRight, CompositeFindsNewest, OIDFindsLastBelow,
     Ordered, Indices, Visible, Extracted, CompositeRange, OIDRange
<1> SUFFICES ASSUME SearchNext PROVE SearchInv'
  BY <1>0
<1>1. SearchTypeOK /\ SearchTypeOK'
  BY SearchTypeStep DEF SearchInv
<1>2. CASE FindEntryRefused \/ ExtractFails
  <2>1. answer' = "error" /\ UNCHANGED <<low, high>> /\ low <= high + 1
    BY <1>1, <1>2 DEF FindEntryRefused, ExtractFails, Stop, SearchInv, Searching
  <2>2. SearchIsRight'
    BY <2>1 DEF SearchIsRight, CompositeFindsNewest, OIDFindsLastBelow
  <2>. QED
    BY <1>1, <2>1, <2>2 DEF SearchInv
<1>3. CASE FindEntry
  <2>1. /\ answer' = "searching" /\ low' = 0 /\ high' = snode.n - 1 /\ best' = -1
        /\ snode.n > 0 /\ UNCHANGED <<snode, composite, tOID, tXID>>
    BY <1>3 DEF FindEntry, SearchInv
  <2>2. SearchIsRight'
    BY <2>1 DEF SearchIsRight, CompositeFindsNewest, OIDFindsLastBelow
  <2>3. CompositeRange' /\ OIDRange'
    BY <1>1, <2>1 DEF CompositeRange, OIDRange, Indices
  <2>4. low' <= high' + 1 /\ low' <= high'
    BY <1>1, <2>1
  <2>. QED
    BY <1>1, <2>1, <2>2, <2>3, <2>4 DEF SearchInv
<1>4. CASE GoRight \/ GoLeft
  <2>1. /\ answer' = "searching" /\ answer = "searching" /\ UNCHANGED <<snode, composite, tOID, tXID>>
        /\ Comparable(mid) /\ Searching
    BY <1>4 DEF GoRight, GoLeft, Searching
  <2>2. low' <= high' + 1
    BY <1>1, <1>4, <2>1, MidInRange DEF GoRight, GoLeft
  <2>3. ~(composite /\ snode.fixed)
    BY <2>1, FixedNotComparable
  <2>4. SearchIsRight'
    BY <2>1 DEF SearchIsRight, CompositeFindsNewest, OIDFindsLastBelow
  <2>5. Ordered' <=> Ordered
    BY <2>1 DEF Ordered, Indices
  <2>6. Ordered => (IF composite THEN CompositeRange ELSE OIDRange)'
    BY <1>4, RightKeepsRange, LeftKeepsRange
  <2>7. snode'.n > 0
    BY <2>1 DEF SearchInv
  <2>. QED
    BY <1>1, <2>1, <2>2, <2>3, <2>4, <2>5, <2>6, <2>7 DEF SearchInv
<1>5. CASE Match
  <2>1. /\ answer' = "found" /\ found' = mid /\ ~composite /\ snode.oid[mid] = tOID
        /\ UNCHANGED <<snode, composite, tOID, low, high>> /\ answer = "searching"
    BY <1>5 DEF Match, Stop, Searching
  <2>2. SearchIsRight'
    BY <2>1 DEF SearchIsRight, CompositeFindsNewest, OIDFindsLastBelow
  <2>. QED
    BY <1>1, <2>1, <2>2 DEF SearchInv
<1>6. CASE FallBack \/ NotFound \/ BestMatch \/ NoMatch
  <2>1. /\ answer' \in {"found", "absent"} /\ UNCHANGED <<low, high>> /\ answer = "searching" /\ Exhausted
    BY <1>6 DEF FallBack, NotFound, BestMatch, NoMatch, Stop, Exhausted
  <2>2. SearchIsRight'
    BY <1>6, <2>1, SearchEndsRight
  <2>. QED
    BY <1>1, <2>1, <2>2 DEF SearchInv
<1>. QED
  BY <1>2, <1>3, <1>4, <1>5, <1>6 DEF SearchNext

\* Whatever the order, the number and the size of a node's keys, both searches
\* return what a linear search of an ordered node finds.
THEOREM SearchesFind == SearchSpec => []SearchIsRight
<1>1. SearchInv => SearchIsRight
  BY DEF SearchInv
<1>. QED
  BY <1>1, SearchInvInit, SearchInvStep, PTL DEF SearchSpec

\* The middle of a range divides it into halves of which neither, the middle
\* left out, has more than half of its entries.
LEMMA MidHalves ==
  ASSUME SearchInv, Searching
  PROVE  2 * (high - mid) <= Remaining /\ 2 * (mid - low) <= Remaining
<1>1. low \in Int /\ high \in Int /\ low <= high
  BY SearchNumbers DEF SearchInv, Searching
<1>. QED
  BY <1>1 DEF mid, Remaining

\* Whatever node and key, and whether or not the node is ordered, every round
\* of a search leaves at most half of the range it began with, so that the range
\* of a node of n keys is used up after as many rounds as n has binary digits.
THEOREM SearchesHalve == SearchSpec => RangeHalves
<1>1. ASSUME SearchInv, [SearchNext]_searchVars
      PROVE  [answer = "searching" /\ answer' = "searching" => 2 * Remaining' <= Remaining]_searchVars
  <2> SUFFICES ASSUME SearchNext, answer = "searching", answer' = "searching"
               PROVE  2 * Remaining' <= Remaining
    BY <1>1
  <2>1. CASE GoRight
    <3>1. mid \in Int /\ high \in Int /\ 2 * (high - mid) <= Remaining
      BY <1>1, <2>1, MidInRange, MidHalves, SearchNumbers DEF GoRight, SearchInv
    <3>2. Remaining' = high - mid
      BY <2>1, <3>1 DEF GoRight, Remaining
    <3>. QED
      BY <3>1, <3>2
  <2>2. CASE GoLeft
    <3>1. mid \in Int /\ low \in Int /\ 2 * (mid - low) <= Remaining
      BY <1>1, <2>2, MidInRange, MidHalves, SearchNumbers DEF GoLeft, SearchInv
    <3>2. Remaining' = mid - low
      BY <2>2, <3>1 DEF GoLeft, Remaining
    <3>. QED
      BY <3>1, <3>2
  <2>3. GoRight \/ GoLeft
    BY DEF SearchNext, FindEntryRefused, FindEntry, ExtractFails, Match, FallBack, NotFound,
           BestMatch, NoMatch, Stop
  <2>. QED
    BY <2>1, <2>2, <2>3
<1>. QED
  BY <1>1, SearchInvInit, SearchInvStep, PTL DEF SearchSpec, RangeHalves

-----------------------------------------------------------------------------
(* BTreeValidator.                                                         *)

\* What is checked of one entry, before sums wrap around.
EntryInBounds(nd, i) ==
  /\ nd.toc.off + (i + 1) * entrySize(nd) <= nd.data
  /\ LET e == nd.entry[i]
         ends == IF nd.fixed THEN {e.k, e.v} ELSE {e.k + e.klen, e.v + e.vlen}
     IN  \A x \in ends : x < Word16 => x <= NodeSize

\* A node with nothing wrong in its key count, its table and its entries.
Intact(nd) ==
  /\ nd.keys \in 1..ManyKeys /\ nd.toc.off + nd.toc.len <= nd.data
  /\ nd.toc.len >= nd.keys * entrySize(nd)
  /\ \A i \in 0..(nd.keys - 1) :
       nd.entry[i].k + nd.entry[i].klen <= NodeSize /\ nd.entry[i].v + nd.entry[i].vlen <= NodeSize

\* Every entry checked is within bounds or has left an error, and the check
\* ends with entries left over only after errors.
ValInv ==
  /\ vnode \in VNodes /\ entry \in Nat /\ errorCount \in Nat /\ judged \in BOOLEAN
  /\ errorCount <= MaxReported + 1
  /\ errorCount > 0 => errors # {}
  /\ errors = {} => \A i \in 0..(vnode.keys - 1) : i < entry => EntryInBounds(vnode, i)
  /\ judged => vnode.data = 0 \/ entry >= vnode.keys \/ errorCount >= MaxReported
  /\ Intact(vnode) => errors = {} /\ errorCount = 0

LEMMA Remainders ==
  ASSUME NEW x \in Nat, NEW w \in Nat \ {0}
  PROVE  x % w \in Nat /\ x % w <= x /\ (x < w => x % w = x)
<1> DEFINE q == x \div w
           r == x % w
<1>1. /\ q \in Int /\ r \in Int /\ 0 <= r /\ r < w
      /\ x = q * w + r
  OBVIOUS
<1> HIDE DEF q, r
<1>2. q >= 0
  <2> SUFFICES ASSUME q <= -1 PROVE FALSE
    BY <1>1
  <2>1. q * w <= -w
    BY <1>1
  <2>. QED
    BY <1>1, <2>1
<1>3. q * w >= 0
  BY <1>1, <1>2
<1>4. r <= x
  BY <1>1, <1>3
<1>5. x < w => r = x
  <2> SUFFICES ASSUME x < w, q >= 1 PROVE FALSE
    BY <1>1, <1>2
  <2>1. q * w >= w
    BY <1>1
  <2>. QED
    BY <1>1, <2>1
<1>. QED
  BY <1>1, <1>4, <1>5 DEF r

LEMMA ValNumbers ==
  ASSUME NEW nd \in VNodes
  PROVE  /\ nd.keys \in Nat /\ nd.data \in Nat /\ nd.toc.off \in Nat /\ nd.toc.len \in Nat
         /\ nd.fixed \in BOOLEAN /\ entrySize(nd) \in {4, 8}
         /\ NodeSize \in Nat \ {0} /\ MaxReported \in Nat \ {0} /\ Word16 \in Nat \ {0}
         /\ ManyKeys \in Nat \ {0} /\ TooManyKeys \in Nat \ {0} /\ ManyKeys <= TooManyKeys
         /\ \A i \in 0..(nd.keys - 1) :
              /\ nd.entry[i].k \in Nat /\ nd.entry[i].klen \in Nat
              /\ nd.entry[i].v \in Nat /\ nd.entry[i].vlen \in Nat
BY ValidatorAssumption DEF entrySize

LEMMA BadBoundsCount ==
  ASSUME NEW nd, NEW e
  PROVE  /\ Cardinality(BadBounds(nd, e)) \in 0..2
         /\ Cardinality(BadBounds(nd, e)) > 0 <=> BadBounds(nd, e) # {}
<1>1. IsFiniteSet(1..2) /\ Cardinality(1..2) = 2
  <2>1. PICK a, b \in Int : a = 1 /\ b = 2
    OBVIOUS
  <2>2. IsFiniteSet(a..b) /\ Cardinality(a..b) = IF a > b THEN 0 ELSE b - a + 1
    BY FS_Interval
  <2>. QED
    BY <2>1, <2>2
<1>2. BadBounds(nd, e) \subseteq 1..2
  BY DEF BadBounds
<1>3. /\ IsFiniteSet(BadBounds(nd, e))
      /\ Cardinality(BadBounds(nd, e)) \in Nat
      /\ Cardinality(BadBounds(nd, e)) <= 2
  BY <1>1, <1>2, FS_Subset, FS_CardinalityType
<1>4. Cardinality(BadBounds(nd, e)) = 0 <=> BadBounds(nd, e) = {}
  BY <1>3, FS_EmptySet
<1>. QED
  BY <1>3, <1>4

\* An entry that passes both checks is within bounds.
LEMMA PassedInBounds ==
  ASSUME NEW nd \in VNodes, NEW i \in 0..(nd.keys - 1),
         ~OutOfTable(nd, i), BadBounds(nd, nd.entry[i]) = {}
  PROVE  EntryInBounds(nd, i)
<1> DEFINE e == nd.entry[i]
<1>1. /\ e.k \in Nat /\ e.klen \in Nat /\ e.v \in Nat /\ e.vlen \in Nat
      /\ nd.toc.off \in Nat /\ nd.data \in Nat /\ nd.fixed \in BOOLEAN /\ i \in Nat
      /\ NodeSize \in Nat /\ Word16 \in Nat \ {0}
  BY ValNumbers
<1> HIDE DEF e
<1>2. nd.toc.off + (i + 1) * entrySize(nd) <= nd.data
  <2>1. CASE entrySize(nd) = 4
    BY <1>1, <2>1 DEF OutOfTable
  <2>2. CASE entrySize(nd) = 8
    BY <1>1, <2>2 DEF OutOfTable
  <2>. QED
    BY <2>1, <2>2, ValNumbers
<1>3. ~(Bounds(nd, e)[1] > NodeSize) /\ ~(Bounds(nd, e)[2] > NodeSize)
  BY DEF BadBounds, e
<1>4. CASE nd.fixed
  BY <1>1, <1>2, <1>3, <1>4 DEF Bounds, EntryInBounds, e
<1>5. CASE ~nd.fixed
  <2>1. ~((e.k + e.klen) % Word16 > NodeSize) /\ ~((e.v + e.vlen) % Word16 > NodeSize)
    BY <1>3, <1>5 DEF Bounds
  <2>2. ASSUME NEW x \in {e.k + e.klen, e.v + e.vlen}, x < Word16 PROVE x <= NodeSize
    <3>1. x \in Nat
      BY <1>1
    <3>2. x % Word16 = x
      BY <1>1, <2>2, <3>1, Remainders
    <3>. QED
      BY <1>1, <2>1, <3>1, <3>2
  <2>. QED
    BY <1>2, <1>5, <2>2 DEF EntryInBounds, e
<1>. QED
  BY <1>1, <1>4, <1>5

\* An entry of an intact node passes both checks.
LEMMA IntactPasses ==
  ASSUME NEW nd \in VNodes, NEW i \in 0..(nd.keys - 1), Intact(nd)
  PROVE  ~OutOfTable(nd, i) /\ BadBounds(nd, nd.entry[i]) = {}
<1> DEFINE e == nd.entry[i]
<1>1. /\ e.k \in Nat /\ e.klen \in Nat /\ e.v \in Nat /\ e.vlen \in Nat
      /\ nd.toc.off \in Nat /\ nd.toc.len \in Nat /\ nd.data \in Nat /\ nd.keys \in Nat
      /\ nd.fixed \in BOOLEAN /\ i \in Nat /\ i + 1 <= nd.keys
      /\ NodeSize \in Nat /\ Word16 \in Nat \ {0}
  BY ValNumbers
<1>2. e.k + e.klen <= NodeSize /\ e.v + e.vlen <= NodeSize
  BY DEF Intact
<1> HIDE DEF e
<1>3. ~OutOfTable(nd, i)
  <2>0. nd.toc.off + nd.toc.len <= nd.data /\ nd.toc.len >= nd.keys * entrySize(nd)
    BY DEF Intact
  <2>1. CASE entrySize(nd) = 4
    BY <1>1, <2>0, <2>1 DEF OutOfTable
  <2>2. CASE entrySize(nd) = 8
    BY <1>1, <2>0, <2>2 DEF OutOfTable
  <2>. QED
    BY <2>1, <2>2, ValNumbers
<1>4. ~(Bounds(nd, e)[1] > NodeSize) /\ ~(Bounds(nd, e)[2] > NodeSize)
  <2>1. CASE nd.fixed
    BY <1>1, <1>2, <2>1 DEF Bounds
  <2>2. CASE ~nd.fixed
    <3>0. e.k + e.klen \in Nat /\ e.v + e.vlen \in Nat
      BY <1>1
    <3>1. /\ (e.k + e.klen) % Word16 \in Nat /\ (e.k + e.klen) % Word16 <= e.k + e.klen
          /\ (e.v + e.vlen) % Word16 \in Nat /\ (e.v + e.vlen) % Word16 <= e.v + e.vlen
      BY <1>1, <3>0, Remainders, Zenon
    <3>. QED
      BY <1>1, <1>2, <2>2, <3>1 DEF Bounds
  <2>. QED
    BY <1>1, <2>1, <2>2
<1>. QED
  BY <1>3, <1>4 DEF BadBounds, e

LEMMA ValInvInit == ValInit => ValInv
<1> SUFFICES ASSUME ValInit PROVE ValInv
  OBVIOUS
<1>1. vnode \in VNodes /\ entry = 0 /\ errorCount = 0 /\ judged = FALSE
  BY DEF ValInit
<1>2. ~(\E i \in 0..(vnode.keys - 1) : i < entry)
  BY <1>1, ValNumbers
<1>3. Intact(vnode) => errors = {}
  <2> SUFFICES ASSUME Intact(vnode) PROVE errors = {}
    OBVIOUS
  <2>1. /\ vnode.keys # 0 /\ ~(vnode.keys > TooManyKeys)
        /\ ~(vnode.toc.off + vnode.toc.len > vnode.data)
    BY <1>1, ValNumbers DEF Intact
  <2>2. checkKeyCount(vnode).e = {} /\ checkTableOfContents(vnode).e = {}
    BY <2>1 DEF checkKeyCount, checkTableOfContents, About
  <2>. QED
    BY <2>2 DEF ValInit
<1>4. MaxReported \in Nat
  BY <1>1, ValNumbers
<1>5. judged = FALSE /\ judged \in BOOLEAN
  BY Zenon DEF ValInit
<1>. QED
  BY <1>1, <1>2, <1>3, <1>4, <1>5 DEF ValInv

LEMMA ValInvStep == ValInv /\ [ValNext \/ ValEnded]_valVars => ValInv'
<1> SUFFICES ASSUME ValInv, [ValNext \/ ValEnded]_valVars PROVE ValInv'
  OBVIOUS
<1>1. /\ vnode \in VNodes /\ entry \in Nat /\ errorCount \in Nat
      /\ vnode.keys \in Nat /\ MaxReported \in Nat \ {0}
  BY ValNumbers DEF ValInv
<1>2. CASE EntryOutOfTable
  <2>1. /\ Checking /\ OutOfTable(vnode, entry) /\ entry \in 0..(vnode.keys - 1)
        /\ errors' # {} /\ errorCount' = errorCount + 1 /\ entry' = entry + 1
        /\ UNCHANGED <<vnode, judged>> /\ ~judged /\ errorCount < MaxReported
    BY <1>1, <1>2 DEF EntryOutOfTable, Checking
  <2>2. ~Intact(vnode)
    BY <1>1, <2>1, IntactPasses
  <2>. QED
    BY <1>1, <2>1, <2>2 DEF ValInv
<1>3. CASE CheckEntry
  <2> DEFINE bad == BadBounds(vnode, vnode.entry[entry])
  <2>1. /\ Checking /\ ~OutOfTable(vnode, entry) /\ entry \in 0..(vnode.keys - 1)
        /\ errors' = errors \cup About(bad # {}, "bounds")
        /\ errorCount' = errorCount + Cardinality(bad) /\ entry' = entry + 1
        /\ UNCHANGED <<vnode, judged>> /\ ~judged /\ errorCount < MaxReported
    BY <1>1, <1>3 DEF CheckEntry, Checking
  <2>2. /\ Cardinality(bad) \in 0..2
        /\ Cardinality(bad) > 0 <=> bad # {}
    BY BadBoundsCount
  <2>3. bad = {} => EntryInBounds(vnode, entry)
    BY <1>1, <2>1, PassedInBounds
  <2>4. Intact(vnode) => bad = {}
    BY <1>1, <2>1, IntactPasses
  <2> HIDE DEF bad
  <2>5. /\ bad = {} => errors' = errors
        /\ bad # {} => errors' # {}
    BY <2>1 DEF About
  <2>6. errors' = {} => \A i \in 0..(vnode.keys - 1) : i < entry' => EntryInBounds(vnode, i)
    <3> SUFFICES ASSUME errors' = {}, NEW i \in 0..(vnode.keys - 1), i < entry'
                 PROVE  EntryInBounds(vnode, i)
      OBVIOUS
    <3>1. i = entry \/ i < entry
      BY <1>1, <2>1
    <3>. QED
      BY <2>3, <2>5, <3>1 DEF ValInv
  <2>7. /\ errorCount' \in Nat /\ errorCount' <= MaxReported + 1
        /\ errorCount' > 0 => errors' # {}
    BY <1>1, <2>1, <2>2, <2>5 DEF ValInv
  <2>8. Intact(vnode) => errors' = {} /\ errorCount' = 0
    BY <1>1, <2>1, <2>2, <2>4, <2>5 DEF ValInv
  <2>. QED
    BY <1>1, <2>1, <2>6, <2>7, <2>8 DEF ValInv
<1>4. CASE Judge
  <2>1. /\ UNCHANGED <<vnode, entry, errorCount>> /\ judged' = TRUE
        /\ errors' = errors \cup About(errorCount >= MaxReported, "more")
        /\ vnode.data = 0 \/ entry >= vnode.keys \/ errorCount >= MaxReported
    BY <1>1, <1>4 DEF Judge, Checking
  <2>2. /\ errors # {} => errors' # {}
        /\ errorCount < MaxReported => errors' = errors
    BY <1>1, <2>1 DEF About
  <2>. QED
    BY <1>1, <2>1, <2>2 DEF ValInv
<1>5. CASE UNCHANGED valVars
  BY <1>5 DEF valVars, ValInv
<1>. QED
  BY <1>2, <1>3, <1>4, <1>5 DEF ValNext, ValEnded

\* The validator accepts the nodes whose table and entries are within bounds
\* and only those, as far as its uint16 sums see, for every limit on the keys
\* and on the errors reported, and counts at most one error more than that.
THEOREM ValidatorJudgesExactly == ValSpec => []ValidatorIsExact
<1>1. ValInv => ValidatorIsExact
  <2> SUFFICES ASSUME ValInv PROVE ValidatorIsExact
    OBVIOUS
  <2>0. /\ vnode \in VNodes /\ vnode.keys \in Nat /\ MaxReported \in Nat \ {0}
        /\ entry \in Nat /\ errorCount \in Nat
    BY ValNumbers DEF ValInv
  <2>1. NodeIsValid /\ vnode.data # 0 => \A i \in 0..(vnode.keys - 1) : EntryInBounds(vnode, i)
    <3> SUFFICES ASSUME NodeIsValid, vnode.data # 0, NEW i \in 0..(vnode.keys - 1)
                 PROVE  EntryInBounds(vnode, i)
      OBVIOUS
    <3>1. errors = {} /\ errorCount = 0 /\ entry >= vnode.keys
      BY <2>0 DEF NodeIsValid, ValInv
    <3>2. i < entry
      BY <2>0, <3>1
    <3>. QED
      BY <3>1, <3>2 DEF ValInv
  <2>2. ValidNodesAreWithinBounds
    BY <2>1 DEF ValidNodesAreWithinBounds, EntryInBounds
  <2>3. IntactNodesAreValid
    <3>1. judged /\ Intact(vnode) => NodeIsValid
      BY DEF NodeIsValid, ValInv
    <3>. QED
      BY <3>1 DEF IntactNodesAreValid, Intact, ValInv
  <2>. QED
    BY <2>2, <2>3 DEF ValidatorIsExact
<1>. QED
  BY <1>1, ValInvInit, ValInvStep, PTL DEF ValSpec

-----------------------------------------------------------------------------
(* GeneralBitmap.                                                          *)

\* The word and the offset of a bit: they lie within their bounds, give the bit
\* back, and belong to no other bit.
LEMMA Places ==
  ASSUME NEW w \in Nat \ {0}, NEW x \in Nat
  PROVE  /\ x \div w \in Nat /\ x % w \in 0..(w - 1)
         /\ x = (x \div w) * w + (x % w)
         /\ \A c \in Nat : x \div w < c <=> x < c * w
<1> DEFINE q == x \div w
           r == x % w
<1>1. /\ q \in Int /\ r \in Int /\ 0 <= r /\ r < w
      /\ x = q * w + r
  OBVIOUS
<1> HIDE DEF q, r
<1>2. q >= 0
  <2> SUFFICES ASSUME q <= -1 PROVE FALSE
    BY <1>1
  <2>1. q * w <= -w
    BY <1>1
  <2>. QED
    BY <1>1, <2>1
<1>3. ASSUME NEW c \in Nat PROVE q < c <=> x < c * w
  <2>1. CASE q < c
    <3>1. PICK d \in Nat : c = q + 1 + d
      <4>1. c - q - 1 \in Nat /\ c = q + 1 + (c - q - 1)
        BY <1>1, <1>2, <2>1
      <4>. QED
        BY <4>1
    <3>2. (q + 1 + d) * w = q * w + w + d * w
      BY <1>1
    <3>3. d * w >= 0
      OBVIOUS
    <3>4. q * w \in Int /\ d * w \in Int
      BY <1>1
    <3>5. c * w = q * w + w + d * w
      BY <3>1, <3>2, Zenon
    <3>. QED
      BY <1>1, <2>1, <3>3, <3>4, <3>5
  <2>2. CASE ~(q < c)
    <3>1. PICK d \in Nat : q = c + d
      <4>1. q - c \in Nat /\ q = c + (q - c)
        BY <1>1, <1>2, <2>2
      <4>. QED
        BY <4>1
    <3>2. (c + d) * w = c * w + d * w
      OBVIOUS
    <3>3. d * w >= 0 /\ c * w \in Int /\ d * w \in Int
      OBVIOUS
    <3>4. q * w = c * w + d * w
      BY <3>1, <3>2, Zenon
    <3>. QED
      BY <1>1, <2>2, <3>3, <3>4
  <2>. QED
    BY <2>1, <2>2
<1>. QED
  BY <1>1, <1>2, <1>3 DEF q, r

BitmapInv ==
  /\ bytes \in Nat
  /\ bmbField \in [0..(fieldCount - 1) -> SUBSET WordOffsets]

\* There are words enough for all bytes.
LEMMA WordsSuffice ==
  ASSUME bytes \in Nat
  PROVE  /\ fieldCount \in Nat /\ WordBits \in Nat \ {0}
         /\ bytes * ByteBits <= fieldCount * WordBits
<1>1. WordBytes \in Nat \ {0} /\ ByteBits \in Nat \ {0}
  BY BitmapAssumption
<1>2. /\ bytes \div WordBytes \in Nat /\ bytes % WordBytes \in 0..(WordBytes - 1)
      /\ bytes = (bytes \div WordBytes) * WordBytes + (bytes % WordBytes)
  BY <1>1, Places
<1>3. PICK q \in Nat : q = bytes \div WordBytes
  BY <1>2
<1>4. PICK r \in 0..(WordBytes - 1) : r = bytes % WordBytes
  BY <1>2
<1>5. bytes = q * WordBytes + r /\ fieldCount = q + (IF r # 0 THEN 1 ELSE 0)
  BY <1>2, <1>3, <1>4, Zenon DEF fieldCount
<1>6. PICK c \in Nat : c = fieldCount
  BY <1>5
<1>7. bytes <= c * WordBytes
  <2>1. CASE r = 0
    <3>1. c = q
      BY <1>5, <1>6, <2>1
    <3>2. q * WordBytes \in Int
      BY <1>1
    <3>. QED
      BY <1>5, <2>1, <3>1, <3>2
  <2>2. CASE r # 0
    <3>1. c = q + 1
      BY <1>5, <1>6, <2>2
    <3>2. (q + 1) * WordBytes = q * WordBytes + WordBytes /\ q * WordBytes \in Int
      BY <1>1
    <3>. QED
      BY <1>1, <1>4, <1>5, <3>1, <3>2
  <2>. QED
    BY <2>1, <2>2
<1>8. PICK d \in Nat : c * WordBytes = bytes + d
  <2>1. c * WordBytes \in Nat
    BY <1>1
  <2>2. c * WordBytes - bytes \in Nat /\ c * WordBytes = bytes + (c * WordBytes - bytes)
    BY <1>7, <2>1
  <2>. QED
    BY <2>2
<1>9. (bytes + d) * ByteBits = bytes * ByteBits + d * ByteBits /\ d * ByteBits \in Nat /\ bytes * ByteBits \in Nat
  BY <1>1
<1>10. c * (WordBytes * ByteBits) = (c * WordBytes) * ByteBits
  BY <1>1
<1>11. c * WordBits = bytes * ByteBits + d * ByteBits
  BY <1>8, <1>9, <1>10, Zenon DEF WordBits
<1>12. bytes * ByteBits <= c * WordBits
  BY <1>9, <1>11
<1>13. WordBits \in Nat \ {0}
  BY <1>1 DEF WordBits
<1>. QED
  BY <1>6, <1>12, <1>13

LEMMA BitPlaces ==
  ASSUME bytes \in Nat, NEW i \in Nat
  PROVE  /\ fieldIndex(i) \in Nat /\ bitOffset(i) \in WordOffsets
         /\ i = fieldIndex(i) * WordBits + bitOffset(i)
         /\ InField(i) <=> i < fieldCount * WordBits
         /\ InField(i) <=> fieldIndex(i) \in 0..(fieldCount - 1)
<1>1. fieldCount \in Nat /\ WordBits \in Nat \ {0}
  BY WordsSuffice
<1>2. /\ fieldIndex(i) \in Nat /\ bitOffset(i) \in WordOffsets
      /\ i = fieldIndex(i) * WordBits + bitOffset(i)
      /\ fieldIndex(i) < fieldCount <=> i < fieldCount * WordBits
  BY <1>1, Places DEF fieldIndex, bitOffset, WordOffsets
<1>. QED
  BY <1>1, <1>2 DEF InField

\* The words hold the bits of the block.
LEMMA BitmapInvInit ==
  ASSUME BitmapInit
  PROVE  BitmapInv /\ BitSetView!BitInit
<1>1. bytes \in Nat /\ content \subseteq 0..(bytes * ByteBits - 1)
  BY BitmapAssumption DEF BitmapInit
<1>2. bmbField = [k \in 0..(fieldCount - 1) |-> ParsedWord(k)]
  BY DEF BitmapInit, parseBitmapField
<1>3. BitmapInv
  BY <1>1, <1>2 DEF BitmapInv, ParsedWord
<1>4. fieldCount \in Nat /\ WordBits \in Nat \ {0} /\ bytes * ByteBits <= fieldCount * WordBits
  BY <1>1, WordsSuffice
<1>5. PICK all \in Nat : all = fieldCount * WordBits
  BY <1>4
<1>6. PICK have \in Nat : have = bytes * ByteBits
  BY <1>1, BitmapAssumption
<1>7. content \subseteq 0..(all - 1)
  BY <1>1, <1>4, <1>5, <1>6
<1>8. ASSUME NEW i \in 0..(all - 1) PROVE IsBitSet(i) <=> i \in content
  <2>1. /\ bitOffset(i) \in WordOffsets /\ i = fieldIndex(i) * WordBits + bitOffset(i)
        /\ InField(i) /\ fieldIndex(i) \in 0..(fieldCount - 1)
    BY <1>1, <1>5, BitPlaces
  <2>2. bmbField[fieldIndex(i)] = ParsedWord(fieldIndex(i))
    BY <1>2, <2>1
  <2>3. bitOffset(i) \in ParsedWord(fieldIndex(i)) <=> i \in content
    BY <2>1, Zenon DEF ParsedWord
  <2>. QED
    BY <2>1, <2>2, <2>3, Zenon DEF IsBitSet
<1>9. Bits = content
  BY <1>5, <1>7, <1>8 DEF Bits
<1>. QED
  BY <1>3, <1>5, <1>9 DEF BitSetView!BitInit

\* One bit of one word changes.
LEMMA BitChanges ==
  ASSUME BitmapInv, NEW i \in BitIndices, NEW W \in SUBSET WordOffsets,
         UNCHANGED <<bytes, content>>,
         bmbField' = IF InField(i) THEN [bmbField EXCEPT ![fieldIndex(i)] = W] ELSE bmbField,
         InField(i) => \A b \in WordOffsets : b # bitOffset(i) => (b \in W <=> b \in bmbField[fieldIndex(i)])
  PROVE  /\ BitmapInv'
         /\ fieldCount' = fieldCount
         /\ \A j \in 0..(fieldCount * WordBits - 1) :
              IsBitSet(j)' <=> IF j = i THEN bitOffset(i) \in W ELSE IsBitSet(j)
<1>1. i \in Nat /\ bytes \in Nat /\ bmbField \in [0..(fieldCount - 1) -> SUBSET WordOffsets]
  BY BitmapAssumption DEF BitmapInv
<1>2. fieldCount' = fieldCount
  BY DEF fieldCount
<1>3. bmbField' \in [0..(fieldCount - 1) -> SUBSET WordOffsets]
  BY <1>1
<1>4. BitmapInv'
  BY <1>1, <1>2, <1>3 DEF BitmapInv
<1>5. /\ bitOffset(i) \in WordOffsets /\ i = fieldIndex(i) * WordBits + bitOffset(i)
      /\ InField(i) <=> fieldIndex(i) \in 0..(fieldCount - 1)
  BY <1>1, BitPlaces
<1>6. PICK all \in Nat : all = fieldCount * WordBits
  BY <1>1, WordsSuffice
<1>7. ASSUME NEW j \in 0..(all - 1)
      PROVE  IsBitSet(j)' <=> IF j = i THEN bitOffset(i) \in W ELSE IsBitSet(j)
  <2>1. /\ bitOffset(j) \in WordOffsets /\ j = fieldIndex(j) * WordBits + bitOffset(j)
        /\ InField(j) /\ fieldIndex(j) \in 0..(fieldCount - 1)
    BY <1>1, <1>6, BitPlaces
  <2>2. IsBitSet(j)' <=> bitOffset(j) \in bmbField'[fieldIndex(j)]
    BY <1>2, <2>1 DEF IsBitSet, InField
  <2>3. IsBitSet(j) <=> bitOffset(j) \in bmbField[fieldIndex(j)]
    BY <2>1 DEF IsBitSet
  <2>4. CASE j = i
    <3>1. bmbField'[fieldIndex(i)] = W
      BY <1>1, <1>5, <2>1, <2>4
    <3>. QED
      BY <2>2, <2>4, <3>1, Zenon
  <2>5. CASE j # i /\ fieldIndex(j) = fieldIndex(i)
    <3>1. bmbField'[fieldIndex(i)] = W /\ InField(i)
      BY <1>1, <1>5, <2>1, <2>5
    <3>2. bitOffset(j) # bitOffset(i)
      BY <1>5, <2>1, <2>5, Zenon
    <3>. QED
      BY <2>1, <2>2, <2>3, <2>5, <3>1, <3>2, Zenon
  <2>6. CASE j # i /\ fieldIndex(j) # fieldIndex(i)
    <3>1. bmbField'[fieldIndex(j)] = bmbField[fieldIndex(j)]
      BY <1>1, <2>1, <2>6
    <3>. QED
      BY <2>2, <2>3, <2>6, <3>1, Zenon
  <2>. QED
    BY <2>4, <2>5, <2>6
<1>. QED
  BY <1>2, <1>4, <1>6, <1>7

LEMMA BitSetIs ==
  ASSUME BitmapInv, NEW i \in BitIndices, SetBit(i)
  PROVE  /\ BitmapInv' /\ fieldCount' = fieldCount
         /\ Bits' = IF i < fieldCount * WordBits THEN Bits \cup {i} ELSE Bits
<1> DEFINE W == IF InField(i) THEN bmbField[fieldIndex(i)] \cup {bitOffset(i)} ELSE WordOffsets
<1>1. /\ i \in Nat /\ bytes \in Nat /\ bmbField \in [0..(fieldCount - 1) -> SUBSET WordOffsets]
      /\ UNCHANGED <<bytes, content>>
      /\ bmbField' = IF InField(i) THEN [bmbField EXCEPT ![fieldIndex(i)] = W] ELSE bmbField
  BY BitmapAssumption DEF BitmapInv, SetBit
<1>2. /\ bitOffset(i) \in WordOffsets
      /\ InField(i) <=> i < fieldCount * WordBits
      /\ InField(i) <=> fieldIndex(i) \in 0..(fieldCount - 1)
  BY <1>1, BitPlaces
<1>3. /\ W \in SUBSET WordOffsets /\ bitOffset(i) \in W
      /\ InField(i) => \A b \in WordOffsets : b # bitOffset(i) => (b \in W <=> b \in bmbField[fieldIndex(i)])
  BY <1>1, <1>2
<1> HIDE DEF W
<1>4. /\ BitmapInv' /\ fieldCount' = fieldCount
      /\ \A j \in 0..(fieldCount * WordBits - 1) :
           IsBitSet(j)' <=> IF j = i THEN bitOffset(i) \in W ELSE IsBitSet(j)
  BY <1>1, <1>3, BitChanges
<1>5. PICK all \in Nat : all = fieldCount * WordBits
  BY <1>1, WordsSuffice
<1>6. WordBits' = WordBits /\ Bits = {j \in 0..(all - 1) : IsBitSet(j)} /\ Bits' = {j \in 0..(all - 1) : IsBitSet(j)'}
  BY <1>4, <1>5 DEF Bits, WordBits
<1>. QED
  BY <1>1, <1>3, <1>4, <1>5, <1>6

LEMMA BitClearIs ==
  ASSUME BitmapInv, NEW i \in BitIndices, ClearBit(i)
  PROVE  BitmapInv' /\ fieldCount' = fieldCount /\ Bits' = Bits \ {i}
<1> DEFINE W == IF InField(i) THEN bmbField[fieldIndex(i)] \ {bitOffset(i)} ELSE {}
<1>1. /\ i \in Nat /\ bytes \in Nat /\ bmbField \in [0..(fieldCount - 1) -> SUBSET WordOffsets]
      /\ UNCHANGED <<bytes, content>>
      /\ bmbField' = IF InField(i) THEN [bmbField EXCEPT ![fieldIndex(i)] = W] ELSE bmbField
  BY BitmapAssumption DEF BitmapInv, ClearBit
<1>2. InField(i) <=> fieldIndex(i) \in 0..(fieldCount - 1)
  BY <1>1, BitPlaces
<1>3. /\ W \in SUBSET WordOffsets /\ bitOffset(i) \notin W
      /\ InField(i) => \A b \in WordOffsets : b # bitOffset(i) => (b \in W <=> b \in bmbField[fieldIndex(i)])
  BY <1>1, <1>2
<1> HIDE DEF W
<1>4. /\ BitmapInv' /\ fieldCount' = fieldCount
      /\ \A j \in 0..(fieldCount * WordBits - 1) :
           IsBitSet(j)' <=> IF j = i THEN bitOffset(i) \in W ELSE IsBitSet(j)
  BY <1>1, <1>3, BitChanges
<1>5. PICK all \in Nat : all = fieldCount * WordBits
  BY <1>1, WordsSuffice
<1>6. WordBits' = WordBits /\ Bits = {j \in 0..(all - 1) : IsBitSet(j)} /\ Bits' = {j \in 0..(all - 1) : IsBitSet(j)'}
  BY <1>4, <1>5 DEF Bits, WordBits
<1>. QED
  BY <1>3, <1>4, <1>5, <1>6

\* Words of any width, read from any number of bytes, are the set of the bits
\* stored in the block, and a bit set or cleared changes that bit and no other:
\* the bitmap implements the set.
THEOREM BitmapImplementsSet == BitmapSpec => BitmapIsASet
<1>1. BitmapInv /\ [BitmapNext]_bitmapVars
        => BitmapInv' /\ [BitSetView!BitNext]_<<Bits, fieldCount, content>>
  <2> SUFFICES ASSUME BitmapInv, [BitmapNext]_bitmapVars
               PROVE  BitmapInv' /\ [BitSetView!BitNext]_<<Bits, fieldCount, content>>
    OBVIOUS
  <2>1. ASSUME NEW i \in BitIndices, SetBit(i)
        PROVE  BitmapInv' /\ BitSetView!BitNext
    <3>1. BitmapInv' /\ fieldCount' = fieldCount /\ content' = content
      BY <2>1, BitSetIs DEF SetBit
    <3>2. WordBits' = WordBits
      BY DEF WordBits
    <3>3. BitSetView!Set(i)
      BY <2>1, BitSetIs DEF BitSetView!Set
    <3>. QED
      BY <3>1, <3>2, <3>3 DEF BitSetView!BitNext
  <2>2. ASSUME NEW i \in BitIndices, ClearBit(i)
        PROVE  BitmapInv' /\ BitSetView!BitNext
    <3>1. BitmapInv' /\ fieldCount' = fieldCount /\ content' = content
      BY <2>2, BitClearIs DEF ClearBit
    <3>2. WordBits' = WordBits
      BY DEF WordBits
    <3>3. BitSetView!Clear(i)
      BY <2>2, BitClearIs DEF BitSetView!Clear
    <3>. QED
      BY <3>1, <3>2, <3>3 DEF BitSetView!BitNext
  <2>3. CASE UNCHANGED bitmapVars
    <3>1. BitmapInv'
      BY <2>3 DEF bitmapVars, BitmapInv, fieldCount
    <3>2. UNCHANGED <<Bits, fieldCount, content>>
      BY <2>3 DEF bitmapVars, Bits, IsBitSet, InField, fieldCount, fieldIndex, bitOffset, WordBits
    <3>. QED
      BY <3>1, <3>2
  <2>. QED
    BY <2>1, <2>2, <2>3 DEF BitmapNext
<1>. QED
  BY <1>1, BitmapInvInit, PTL DEF BitmapSpec, BitmapIsASet

-----------------------------------------------------------------------------
(* ItemLists.                                                              *)

Item == [header : Nat, from : Nat, size : Nat, kept : BOOLEAN]

ItemEnd(t) == t.from + (IF t.kept THEN t.size ELSE 0)

ListTypeOK ==
  /\ list \in Lists /\ place \in Nat /\ items \in Seq(Item)
  /\ listed \in {"walking", "ok", "error"}

\* The items follow each other, and the reader stands behind the last one.
InSequence ==
  /\ Len(items) <= list.count
  /\ ~ListLookedAt => items = <<>>
  /\ \A k \in 1..Len(items) :
       /\ items[k].kept => items[k].from + items[k].size <= list.room
       /\ k > 1 => items[k].header >= ItemEnd(items[k - 1])
       /\ k = Len(items) => place >= ItemEnd(items[k])

\* A keybag all of which is there.
Good ==
  /\ list.kind = "keybag" /\ Whole /\ list.used <= list.room
  /\ \A p \in DOMAIN list.headers : list.headers[p] <= MaxKeyLen

\* Of such a keybag every item is an entry, and each begins where the one
\* before it ends.
Retraced ==
  /\ listed # "error"
  /\ \A k \in 1..Len(items) :
       /\ items[k].header \in DOMAIN list.headers /\ items[k].kept
       /\ items[k].from = list.at[items[k].header]
       /\ items[k].size = list.headers[items[k].header]
       /\ items[k].header = IF k = 1 THEN 0 ELSE items[k - 1].from + items[k - 1].size
  /\ place = IF items = <<>> THEN 0 ELSE items[Len(items)].from + items[Len(items)].size

ListInv == ListTypeOK /\ InSequence /\ (Good => Retraced)

LEMMA ListNumbers ==
  ASSUME ListTypeOK
  PROVE  /\ list.kind \in {"keybag", "xfields"}
         /\ list.count \in Nat /\ list.used \in Nat /\ list.room \in Nat
         /\ HeaderSize \in Nat /\ Payload \in Nat /\ Payload = place + HeaderSize
         /\ list.kind = "keybag" => HeaderSize = 24
         /\ Lengths \subseteq Nat /\ Len(items) \in Nat
         /\ \A s \in Nat : NextPlace(s) \in Nat /\ NextPlace(s) >= Payload + s
         /\ \A s \in Nat : list.kind = "keybag" => NextPlace(s) = Payload + s
<1>1. /\ list.kind \in {"keybag", "xfields"}
      /\ list.count \in Nat /\ list.used \in Nat /\ list.room \in Nat
  BY ListAssumption DEF ListTypeOK
<1>2. /\ HeaderSize \in Nat /\ Payload \in Nat /\ Payload = place + HeaderSize
      /\ list.kind = "keybag" => HeaderSize = 24
  BY DEF ListTypeOK, HeaderSize, KeybagHeader, XFieldHeader, Payload
<1>3. Lengths \subseteq Nat
  BY ListAssumption DEF Lengths, ListTypeOK
<1>4. Len(items) \in Nat
  BY DEF ListTypeOK
<1>5. ASSUME NEW s \in Nat
      PROVE  /\ NextPlace(s) \in Nat /\ NextPlace(s) >= Payload + s
             /\ list.kind = "keybag" => NextPlace(s) = Payload + s
  <2>1. PICK x \in Nat : x = Payload + s
    BY <1>2
  <2>2. ((x + 7) \div 8) * 8 \in Nat /\ ((x + 7) \div 8) * 8 >= x
    OBVIOUS
  <2>. QED
    BY <2>1, <2>2 DEF NextPlace
<1>. QED
  BY <1>1, <1>2, <1>3, <1>4, <1>5

\* As long as entries are left the reader stands at the header of one: the
\* first of those that were not read follows on the last that was.
LEMMA StandsAtHeader ==
  ASSUME ListTypeOK, Good, Retraced, Len(items) < list.count
  PROVE  place \in DOMAIN list.headers
<1> DEFINE D == DOMAIN list.headers
           V == {items[k].header : k \in 1..Len(items)}
<1>1. /\ IsFiniteSet(D) /\ Cardinality(D) = list.count /\ D \subseteq Nat
      /\ \A p \in D : list.headers[p] \in Nat /\ list.at[p] = p + 24
      /\ \A q \in D : q = 0 \/ \E p \in D : q = list.at[p] + list.headers[p]
  BY ListAssumption DEF ListTypeOK, Good, Whole, EntryByEntry, KeybagHeader
<1>2. Len(items) \in Nat /\ list.count \in Nat
  BY ListNumbers
<1>3. IsFiniteSet(V) /\ Cardinality(V) <= Len(items) /\ Cardinality(V) \in Nat
  <2> DEFINE f == [k \in 1..Len(items) |-> items[k].header]
  <2>1. IsFiniteSet(1..Len(items)) /\ Cardinality(1..Len(items)) = Len(items)
    <3>1. PICK a, b \in Int : a = 1 /\ b = Len(items)
      BY <1>2
    <3>2. IsFiniteSet(a..b) /\ Cardinality(a..b) = IF a > b THEN 0 ELSE b - a + 1
      BY FS_Interval
    <3>3. (IF a > b THEN 0 ELSE b - a + 1) = b
      BY <1>2, <3>1
    <3>. QED
      BY <3>1, <3>2, <3>3, Zenon
  <2>2. f \in Surjection(1..Len(items), V)
    BY DEF Surjection
  <2>. QED
    BY <2>1, <2>2, FS_Surjection, FS_CardinalityType
<1>4. D \ V # {}
  <2> SUFFICES ASSUME D \subseteq V PROVE FALSE
    OBVIOUS
  <2>1. Cardinality(D) <= Cardinality(V)
    BY <1>3, FS_Subset
  <2>. QED
    BY <1>1, <1>2, <1>3, <2>1
<1>5. PICK q \in D \ V : \A p \in D \ V : q <= p
  BY <1>1, <1>4, NatHasMin
<1>6. CASE q = 0
  <2>1. items = <<>>
    <3> SUFFICES ASSUME items # <<>> PROVE FALSE
      OBVIOUS
    <3>1. 1 \in 1..Len(items)
      BY DEF ListTypeOK
    <3>. QED
      BY <1>5, <1>6, <3>1 DEF Retraced
  <2>. QED
    BY <1>5, <1>6, <2>1 DEF Retraced
<1>7. CASE q # 0
  <2>1. PICK p \in D : q = list.at[p] + list.headers[p]
    BY <1>1, <1>5, <1>7
  <2>2. p \in Nat /\ q \in Nat /\ ~ (q <= p)
    BY <1>1, <1>5, <2>1
  <2>3. PICK k \in 1..Len(items) : p = items[k].header
    BY <1>5, <2>2
  <2>4. q = items[k].from + items[k].size
    BY <2>1, <2>3 DEF Retraced
  <2>5. k = Len(items)
    <3> SUFFICES ASSUME k # Len(items) PROVE FALSE
      OBVIOUS
    <3>1. k + 1 \in 1..Len(items) /\ k + 1 # 1 /\ (k + 1) - 1 = k
      BY <1>2
    <3>2. items[k + 1].header = q
      BY <2>4, <3>1 DEF Retraced
    <3>. QED
      BY <1>5, <3>1, <3>2
  <2>6. items # <<>>
    BY <2>3
  <2>7. place = q
    BY <2>4, <2>5, <2>6 DEF Retraced
  <2>. QED
    BY <1>5, <2>7
<1>. QED
  BY <1>6, <1>7

LEMMA ListInvInit == ListInit => ListInv
<1> SUFFICES ASSUME ListInit PROVE ListInv
  OBVIOUS
<1>1. ListTypeOK
  BY DEF ListInit, ListTypeOK
<1>2. items = <<>> /\ Len(items) = 0 /\ place = 0 /\ listed = "walking"
  BY DEF ListInit
<1>3. list.count \in Nat
  BY <1>1, ListNumbers
<1>. QED
  BY <1>1, <1>2, <1>3 DEF ListInv, InSequence, Retraced

\* One item more, behind which the reader stands.
LEMMA OneMore ==
  ASSUME ListInv, HeaderRead, NEW s \in Nat, NEW t \in Item, NEW at \in Nat,
         t.header = place, t.from = Payload, t.size = s,
         t.kept => Payload + s <= list.room, at >= ItemEnd(t),
         items' = Append(items, t), place' = at, UNCHANGED <<list, listed>>
  PROVE  ListTypeOK' /\ InSequence'
<1>1. /\ items \in Seq(Item) /\ Len(items) \in Nat /\ list.count \in Nat /\ Len(items) < list.count
      /\ listed = "walking" /\ ListLookedAt
  BY ListNumbers DEF ListInv, ListTypeOK, HeaderRead, Walking
<1>2. /\ items' \in Seq(Item) /\ Len(items') = Len(items) + 1 /\ items'[Len(items) + 1] = t
      /\ \A k \in 1..Len(items) : items'[k] = items[k]
  BY <1>1
<1>3. ListTypeOK'
  BY <1>2 DEF ListInv, ListTypeOK
<1>4. Len(items') <= list'.count /\ ListLookedAt'
  BY <1>1, <1>2 DEF ListLookedAt
<1>5. ASSUME NEW k \in 1..Len(items')
      PROVE  /\ items'[k].kept => items'[k].from + items'[k].size <= list'.room
             /\ k > 1 => items'[k].header >= ItemEnd(items'[k - 1])
             /\ k = Len(items') => place' >= ItemEnd(items'[k])
  <2>1. CASE k \in 1..Len(items)
    <3>1. items'[k] = items[k] /\ k # Len(items')
      BY <1>1, <1>2, <2>1
    <3>2. k > 1 => k - 1 \in 1..Len(items)
      BY <1>1, <2>1
    <3>3. k > 1 => items'[k - 1] = items[k - 1]
      BY <1>2, <3>2
    <3>. QED
      BY <2>1, <3>1, <3>3 DEF ListInv, InSequence
  <2>2. CASE k = Len(items) + 1
    <3>1. items'[k] = t
      BY <1>2, <2>2
    <3>2. k > 1 => items'[k - 1] = items[k - 1] /\ k - 1 = Len(items) /\ k - 1 \in 1..Len(items)
      BY <1>1, <1>2, <2>2
    <3>3. k > 1 => place >= ItemEnd(items[k - 1])
      BY <3>2 DEF ListInv, InSequence
    <3>. QED
      BY <3>1, <3>2, <3>3
  <2>. QED
    BY <1>1, <1>2, <2>1, <2>2
<1>. QED
  BY <1>3, <1>4, <1>5 DEF InSequence

\* Of a keybag that is there, one entry more is taken, with its key.
LEMMA OneMoreEntry ==
  ASSUME ListInv, Good, HeaderRead, NEW s \in Lengths, NEW t, t.header = place, t.from = Payload, t.size = s
  PROVE  /\ Payload + s <= list.room /\ s <= MaxKeyLen
         /\ t.kept /\ items' = Append(items, t) /\ place' = Payload + s /\ UNCHANGED <<list, listed>>
              => Retraced'
<1>1. /\ items \in Seq(Item) /\ Len(items) \in Nat /\ list.count \in Nat /\ Len(items) < list.count
      /\ place \in Nat /\ Payload = place + 24 /\ Retraced /\ listed = "walking"
  BY ListNumbers DEF ListInv, ListTypeOK, HeaderRead, Walking, Good
<1>2. place \in DOMAIN list.headers
  BY <1>1, StandsAtHeader DEF ListInv
<1>3. s = list.headers[place] /\ Payload = list.at[place]
  BY <1>1, <1>2, ListAssumption DEF Lengths, ListInv, ListTypeOK, Good, EntryByEntry, KeybagHeader
<1>4. Payload + s <= list.room /\ s <= MaxKeyLen
  BY <1>2, <1>3 DEF Good, Whole
<1>5. ASSUME t.kept, items' = Append(items, t), place' = Payload + s, UNCHANGED <<list, listed>>
      PROVE  Retraced'
  <2>1. /\ Len(items') = Len(items) + 1 /\ items'[Len(items) + 1] = t /\ items' # <<>>
        /\ \A k \in 1..Len(items) : items'[k] = items[k]
    BY <1>1, <1>5
  <2>2. place' = items'[Len(items')].from + items'[Len(items')].size
    BY <1>5, <2>1
  <2>3. ASSUME NEW k \in 1..Len(items')
        PROVE  /\ items'[k].header \in DOMAIN list.headers /\ items'[k].kept
               /\ items'[k].from = list.at[items'[k].header]
               /\ items'[k].size = list.headers[items'[k].header]
               /\ items'[k].header = IF k = 1 THEN 0 ELSE items'[k - 1].from + items'[k - 1].size
    <3>1. CASE k \in 1..Len(items)
      <4>1. k # 1 => k - 1 \in 1..Len(items)
        BY <1>1, <3>1
      <4>2. items'[k] = items[k] /\ (k # 1 => items'[k - 1] = items[k - 1])
        BY <2>1, <3>1, <4>1
      <4>. QED
        BY <1>1, <3>1, <4>2 DEF Retraced
    <3>2. CASE k = Len(items) + 1
      <4>1. items'[k] = t
        BY <2>1, <3>2
      <4>2. k = 1 => items = <<>>
        BY <1>1, <3>2
      <4>3. k # 1 => items # <<>> /\ k - 1 = Len(items) /\ items'[k - 1] = items[Len(items)]
        BY <1>1, <2>1, <3>2
      <4>4. place = IF k = 1 THEN 0 ELSE items'[k - 1].from + items'[k - 1].size
        BY <1>1, <4>2, <4>3 DEF Retraced
      <4>. QED
        BY <1>2, <1>3, <1>5, <4>1, <4>4
    <3>. QED
      BY <1>1, <2>1, <3>1, <3>2
  <2>. QED
    BY <1>1, <1>5, <2>1, <2>2, <2>3 DEF Retraced
<1>. QED
  BY <1>4, <1>5

LEMMA ListInvStep == ListInv /\ [ListNext \/ ListEnded]_listVars => ListInv'
<1> SUFFICES ASSUME ListInv, [ListNext \/ ListEnded]_listVars PROVE ListInv'
  OBVIOUS
<1>1. ASSUME UNCHANGED <<list, place, items>>, listed' \in {"walking", "ok", "error"},
             Good => listed' # "error"
      PROVE  ListInv'
  <2>1. ListTypeOK' /\ InSequence'
    BY <1>1 DEF ListInv, ListTypeOK, InSequence, ListLookedAt
  <2>2. Good' => Good
    BY <1>1 DEF Good, Whole
  <2>3. Good => Retraced'
    BY <1>1 DEF ListInv, Retraced
  <2>. QED
    BY <2>1, <2>2, <2>3 DEF ListInv
<1>2. UNCHANGED list => (Good' => Good)
  BY DEF Good, Whole
<1>3. CASE NothingListed
  BY <1>1, <1>3 DEF NothingListed
<1>4. CASE HeaderBeyond
  <2>1. ~Good
    <3> SUFFICES ASSUME Good PROVE FALSE
      OBVIOUS
    <3>1. place \in DOMAIN list.headers
      BY <1>4, StandsAtHeader DEF HeaderBeyond, Walking, ListInv
    <3>2. /\ list.at[place] = place + HeaderSize /\ list.headers[place] \in Nat
          /\ HeaderSize \in Nat /\ place \in Nat /\ list.room \in Nat
      BY <3>1, ListNumbers, ListAssumption DEF ListInv, ListTypeOK, Good, EntryByEntry, KeybagHeader
    <3>3. list.at[place] + list.headers[place] <= list.room
      BY <3>1 DEF Good, Whole
    <3>4. place + HeaderSize > list.room
      BY <1>4 DEF HeaderBeyond
    <3>. QED
      BY <3>2, <3>3, <3>4
  <2>. QED
    BY <1>1, <1>4, <2>1 DEF HeaderBeyond
<1>5. CASE ItemRefused
  <2>1. ~Good
    <3> SUFFICES ASSUME Good PROVE FALSE
      OBVIOUS
    <3>1. PICK s \in Lengths : s > MaxKeyLen
      BY <1>5 DEF ItemRefused, Good
    <3>2. s <= MaxKeyLen /\ s \in Nat /\ MaxKeyLen \in Nat
      <4> DEFINE t == [header |-> place, from |-> Payload, size |-> s]
      <4>1. t.header = place /\ t.from = Payload /\ t.size = s
        OBVIOUS
      <4>2. s <= MaxKeyLen
        BY <1>5, <4>1, OneMoreEntry DEF ItemRefused
      <4>. QED
        BY <4>2, ListNumbers, ListAssumption DEF ListInv
    <3>. QED
      BY <3>1, <3>2
  <2>. QED
    BY <1>1, <1>5, <2>1 DEF ItemRefused
<1>6. CASE TakeItem
  <2>1. PICK s \in Lengths :
          /\ Payload + s <= list.room
          /\ items' = Append(items, [header |-> place, from |-> Payload, size |-> s, kept |-> TRUE])
          /\ place' = NextPlace(s)
    BY <1>6 DEF TakeItem
  <2> DEFINE t == [header |-> place, from |-> Payload, size |-> s, kept |-> TRUE]
  <2>2. /\ HeaderRead /\ UNCHANGED <<list, listed>> /\ s \in Nat /\ Payload \in Nat /\ place \in Nat
        /\ NextPlace(s) \in Nat /\ NextPlace(s) >= Payload + s
        /\ Good => NextPlace(s) = Payload + s
    BY <1>6, <2>1, ListNumbers DEF TakeItem, ListInv, ListTypeOK, Good
  <2>3. /\ t \in Item /\ t.header = place /\ t.from = Payload /\ t.size = s /\ t.kept
        /\ ItemEnd(t) = Payload + s /\ items' = Append(items, t)
    BY <2>1, <2>2 DEF Item, ItemEnd
  <2> HIDE DEF t
  <2>4. ListTypeOK' /\ InSequence'
    BY <2>1, <2>2, <2>3, OneMore
  <2>5. Good => Retraced'
    BY <2>1, <2>2, <2>3, OneMoreEntry
  <2>. QED
    BY <1>2, <2>2, <2>4, <2>5 DEF ListInv
<1>7. CASE TakeWithoutKey
  <2>1. PICK s \in Lengths :
          /\ s <= MaxKeyLen /\ Payload + s > list.room
          /\ items' = Append(items, [header |-> place, from |-> Payload, size |-> s, kept |-> FALSE])
          /\ place' = Payload
    BY <1>7 DEF TakeWithoutKey
  <2> DEFINE t == [header |-> place, from |-> Payload, size |-> s, kept |-> FALSE]
  <2>2. /\ HeaderRead /\ UNCHANGED <<list, listed>> /\ s \in Nat /\ Payload \in Nat /\ place \in Nat
        /\ list.room \in Nat
    BY <1>7, <2>1, ListNumbers DEF TakeWithoutKey, ListInv, ListTypeOK
  <2>3. /\ t \in Item /\ t.header = place /\ t.from = Payload /\ t.size = s /\ ~t.kept
        /\ ItemEnd(t) = Payload /\ items' = Append(items, t)
    BY <2>1, <2>2 DEF Item, ItemEnd
  <2> HIDE DEF t
  <2>4. ListTypeOK' /\ InSequence'
    BY <2>1, <2>2, <2>3, OneMore
  <2>5. ~Good
    BY <2>1, <2>2, <2>3, OneMoreEntry
  <2>. QED
    BY <1>2, <2>2, <2>4, <2>5 DEF ListInv
<1>8. CASE AllListed
  BY <1>1, <1>8 DEF AllListed
<1>9. CASE ListEnded \/ UNCHANGED listVars
  BY <1>1, <1>9 DEF ListEnded, listVars, ListInv, ListTypeOK, Retraced
<1>. QED
  BY <1>3, <1>4, <1>5, <1>6, <1>7, <1>8, <1>9 DEF ListNext

\* For lists of any length, whatever lengths their bytes decode to: the
\* payloads kept lie inside the data, one behind the other, and a keybag that is
\* whole is read back entry by entry (parseKeybagEntries, ListExtendedFields).
THEOREM ListsAreReadBack == ListSpec => []ItemsAreReadBack
<1>1. ListInv => ItemsAreReadBack
  <2> SUFFICES ASSUME ListInv PROVE ItemsAreReadBack
    OBVIOUS
  <2>1. PayloadsApart
    BY DEF ListInv, InSequence, PayloadsApart, ItemEnd
  <2>2. ASSUME Good
        PROVE  /\ listed # "error"
               /\ \A k \in 1..Len(items) : /\ items[k].header \in DOMAIN list.headers
                                           /\ items[k].from = list.at[items[k].header]
    BY <2>2 DEF ListInv, Retraced
  <2>3. IsValid => \A k \in 1..Len(items) : items[k].from + items[k].size <= list.room
    BY <2>1 DEF IsValid, PayloadsApart
  <2>4. list.kind = "keybag" /\ list.count > 0 /\ list.used > list.room => ~IsValid
    <3> SUFFICES ASSUME list.kind = "keybag", list.count > 0, list.used > list.room
                 PROVE  ~IsValid
      OBVIOUS
    <3>1. list.count \in Nat /\ list.used \in Nat /\ list.room \in Nat
      BY ListNumbers DEF ListInv
    <3>2. ~(list.room >= list.used)
      BY <3>1
    <3>3. ~ListLookedAt
      BY <3>2 DEF ListLookedAt
    <3>4. Len(items) = 0
      BY <3>3 DEF ListInv, InSequence
    <3>. QED
      BY <3>1, <3>4 DEF IsValid
  <2>5. KeybagIsReadBack
    BY <2>2, <2>3, <2>4 DEF KeybagIsReadBack, Good
  <2>. QED
    BY <2>1, <2>5 DEF ItemsAreReadBack
<1>. QED
  BY <1>1, ListInvInit, ListInvStep, PTL DEF ListSpec

-----------------------------------------------------------------------------
(* ObjectChecksum.                                                         *)

\* Numbers that leave the same remainder.
Same(a, b) == \E q \in Int : a = b + q * MaxWord

LEMMA SameAsRemainder ==
  ASSUME NEW a \in Int
  PROVE  a % MaxWord \in Int /\ Same(a % MaxWord, a)
<1>1. PICK w \in Nat \ {0} : w = MaxWord
  BY ChecksumAssumption
<1>2. /\ a \div w \in Int /\ a % w \in Int
      /\ a = (a \div w) * w + (a % w)
  OBVIOUS
<1>3. PICK q \in Int, r \in Int : q = a \div w /\ r = a % w
  BY <1>2
<1>4. r = a + (-q) * w
  <2>1. a = q * w + r
    BY <1>2, <1>3, Zenon
  <2>. QED
    BY <2>1
<1>5. -q \in Int
  OBVIOUS
<1>. QED
  BY <1>1, <1>3, <1>4, <1>5, Zenon DEF Same

LEMMA SameRemainder ==
  ASSUME NEW a \in Int, NEW b \in Int, Same(a, b)
  PROVE  a % MaxWord = b % MaxWord
<1>1. PICK w \in Nat \ {0} : w = MaxWord
  BY ChecksumAssumption
<1>2. PICK q \in Int : a = b + q * w
  BY <1>1 DEF Same
<1>3. /\ b \div w \in Int /\ b % w \in Int /\ 0 <= b % w /\ b % w < w
      /\ b = (b \div w) * w + (b % w)
  OBVIOUS
<1>4. PICK k \in Int, r \in Int : k = b \div w /\ r = b % w
  BY <1>3
<1>5. b = k * w + r /\ 0 <= r /\ r < w
  BY <1>3, <1>4, Zenon
<1>6. r \in Nat
  BY <1>5
<1>7. k + q \in Int /\ a = (k + q) * w + r
  BY <1>2, <1>5
<1>8. a % w = r
  BY <1>5, <1>6, <1>7, RemainderIs
<1>. QED
  BY <1>1, <1>4, <1>8, Zenon

LEMMA RemainderSame ==
  ASSUME NEW a \in Int, NEW b \in Int, a % MaxWord = b % MaxWord
  PROVE  Same(a, b)
<1>1. PICK w \in Nat \ {0} : w = MaxWord
  BY ChecksumAssumption
<1>2. PICK r \in Int : r = a % MaxWord
  BY SameAsRemainder
<1>3. PICK q \in Int : r = a + q * w
  BY <1>1, <1>2, SameAsRemainder DEF Same
<1>4. PICK k \in Int : r = b + k * w
  BY <1>1, <1>2, SameAsRemainder DEF Same
<1>5. a = b + (k - q) * w
  BY <1>3, <1>4
<1>6. k - q \in Int
  OBVIOUS
<1>. QED
  BY <1>1, <1>5, <1>6, Zenon DEF Same

\* Sums, differences and multiples of such numbers are such numbers.
LEMMA SameSums ==
  ASSUME NEW a \in Int, NEW b \in Int, NEW c \in Int, NEW d \in Int, Same(a, b), Same(c, d)
  PROVE  Same(a + c, b + d) /\ Same(a - c, b - d)
<1>1. PICK w \in Nat \ {0} : w = MaxWord
  BY ChecksumAssumption
<1>2. PICK q \in Int : a = b + q * w
  BY <1>1 DEF Same
<1>3. PICK k \in Int : c = d + k * w
  BY <1>1 DEF Same
<1>4. a + c = (b + d) + (q + k) * w /\ a - c = (b - d) + (q - k) * w
  BY <1>2, <1>3
<1>5. q + k \in Int /\ q - k \in Int
  OBVIOUS
<1>. QED
  BY <1>1, <1>4, <1>5, Zenon DEF Same

LEMMA SameMultiples ==
  ASSUME NEW a \in Int, NEW b \in Int, NEW c \in Int, Same(a, b)
  PROVE  Same(c * a, c * b)
<1>1. PICK w \in Nat \ {0} : w = MaxWord
  BY ChecksumAssumption
<1>2. PICK q \in Int : a = b + q * w
  BY <1>1 DEF Same
<1>3. c * q \in Int
  OBVIOUS
<1>4. c * a = c * b + (c * q) * w
  <2>1. c * (b + q * w) = c * b + (c * q) * w
    OBVIOUS
  <2>. QED
    BY <1>2, <2>1
<1>. QED
  BY <1>1, <1>3, <1>4, Zenon DEF Same

LEMMA SameSteps ==
  /\ \A a \in Int : Same(a, a)
  /\ \A a, b \in Int : Same(a, b) => Same(b, a)
  /\ \A a, b, c \in Int : Same(a, b) /\ Same(b, c) => Same(a, c)
<1>1. PICK w \in Nat \ {0} : w = MaxWord
  BY ChecksumAssumption
<1>2. ASSUME NEW a \in Int PROVE Same(a, a)
  <2>1. a = a + 0 * w
    OBVIOUS
  <2>. QED
    BY <1>1, <2>1 DEF Same
<1>3. ASSUME NEW a \in Int, NEW b \in Int, Same(a, b) PROVE Same(b, a)
  <2>1. PICK q \in Int : a = b + q * w
    BY <1>1, <1>3 DEF Same
  <2>2. -q \in Int /\ b = a + (-q) * w
    BY <2>1
  <2>. QED
    BY <1>1, <2>2, Zenon DEF Same
<1>4. ASSUME NEW a \in Int, NEW b \in Int, NEW c \in Int, Same(a, b), Same(b, c) PROVE Same(a, c)
  <2>1. PICK q \in Int : a = b + q * w
    BY <1>1, <1>4 DEF Same
  <2>2. PICK k \in Int : b = c + k * w
    BY <1>1, <1>4 DEF Same
  <2>3. q + k \in Int /\ a = c + (q + k) * w
    BY <2>1, <2>2
  <2>. QED
    BY <1>1, <2>3, Zenon DEF Same
<1>. QED
  BY <1>2, <1>3, <1>4

-----------------------------------------------------------------------------
\* Sums over a sequence.
LEMMA SumsAddUp ==
  ASSUME NEW m \in Nat, NEW v \in [1..m -> Int]
  PROVE  /\ Len(v) = m
         /\ SumUpTo(v) \in [0..m -> Int]
         /\ SumUpTo(v)[0] = 0
         /\ \A i \in 1..m : SumUpTo(v)[i] = SumUpTo(v)[i - 1] + v[i]
<1> DEFINE next == [x \in (1..m) \X Int |-> x[2] + v[x[1]]]
           sum[k \in 0..Len(v)] == IF k = 0 THEN 0 ELSE sum[k - 1] + v[k]
<1>0. Len(v) = m
  OBVIOUS
<1>1. next \in [(1..m) \X Int -> Int]
  OBVIOUS
<1>2. ASSUME NEW i \in 1..m, NEW x \in Int PROVE next[<<i, x>>] = x + v[i]
  OBVIOUS
<1>3. \E r : IsRecursion(r, m, Int, 0, next)
  <2>1. 0 \in Int
    OBVIOUS
  <2> HIDE DEF next
  <2>. QED
    BY <1>1, <2>1, RecursionExists
<1>4. PICK r : IsRecursion(r, m, Int, 0, next)
  BY <1>3
<1> HIDE DEF next
<1>5. r = [k \in 0..Len(v) |-> IF k = 0 THEN 0 ELSE r[k - 1] + v[k]]
  <2>1. ASSUME NEW i \in 0..m, i # 0 PROVE r[i] = r[i - 1] + v[i]
    <3>1. i \in 1..m /\ i - 1 \in 0..m
      BY <2>1
    <3>2. r[i] = next[<<i, r[i - 1]>>] /\ r[i - 1] \in Int
      BY <1>4, <3>1 DEF IsRecursion
    <3>. QED
      BY <1>2, <3>1, <3>2
  <2>. QED
    BY <1>0, <1>4, <2>1 DEF IsRecursion
<1>6. SumUpTo(v) = sum
  BY DEF SumUpTo
<1>7. sum = [k \in 0..Len(v) |-> IF k = 0 THEN 0 ELSE sum[k - 1] + v[k]]
  BY <1>5
<1> HIDE DEF sum
<1>8. sum[0] = 0 /\ \A i \in 1..m : sum[i] = sum[i - 1] + v[i]
  BY <1>0, <1>7
<1>9. \A i \in 0..m : i \in {x \in 0..m : sum[x] \in Int}
  <2> DEFINE T == {x \in 0..m : sum[x] \in Int}
  <2>1. 0 \in T /\ \A i \in 1..m : i - 1 \in T => i \in T
    BY <1>8
  <2> HIDE DEF T
  <2>2. \A i \in 0..m : i \in T
    BY <2>1, UpTo
  <2>. QED
    BY <2>2 DEF T
<1>10. DOMAIN sum = 0..m /\ sum = [i \in 0..m |-> sum[i]]
  BY <1>0, <1>7
<1>. QED
  BY <1>0, <1>6, <1>8, <1>9, <1>10

\* Where two sequences differ in one place, so do their sums.
LEMMA SumsDiffer ==
  ASSUME NEW m \in Nat, NEW v \in [1..m -> Int], NEW w \in [1..m -> Int], NEW k \in 1..m,
         \A i \in 1..m : i # k => w[i] = v[i]
  PROVE  SumOf(v) \in Int /\ SumOf(w) \in Int /\ SumOf(w) = SumOf(v) + w[k] - v[k]
<1> DEFINE s == SumUpTo(v)
           t == SumUpTo(w)
           T == {x \in 0..m : t[x] = IF x < k THEN s[x] ELSE s[x] + w[k] - v[k]}
<1>1. /\ Len(v) = m /\ s \in [0..m -> Int] /\ s[0] = 0
      /\ \A i \in 1..m : s[i] = s[i - 1] + v[i]
  BY SumsAddUp
<1>2. /\ Len(w) = m /\ t \in [0..m -> Int] /\ t[0] = 0
      /\ \A i \in 1..m : t[i] = t[i - 1] + w[i]
  BY SumsAddUp
<1>3. SumOf(v) = s[m] /\ SumOf(w) = t[m]
  BY <1>1, <1>2 DEF SumOf
<1> HIDE DEF s, t
<1>4. 0 \in T
  BY <1>1, <1>2
<1>5. ASSUME NEW i \in 1..m, i - 1 \in T PROVE i \in T
  <2>1. /\ i - 1 \in 0..m /\ s[i - 1] \in Int /\ t[i - 1] \in Int
        /\ v[i] \in Int /\ w[i] \in Int /\ v[k] \in Int /\ w[k] \in Int
    <3>1. i - 1 \in 0..m
      OBVIOUS
    <3>2. s[i - 1] \in Int
      BY <1>1, <3>1
    <3>3. t[i - 1] \in Int
      BY <1>2, <3>1
    <3>4. v[i] \in Int /\ w[i] \in Int /\ v[k] \in Int /\ w[k] \in Int
      OBVIOUS
    <3>. QED
      BY <3>1, <3>2, <3>3, <3>4
  <2>2. s[i] = s[i - 1] + v[i] /\ t[i] = t[i - 1] + w[i]
    BY <1>1, <1>2
  <2>3. t[i - 1] = IF i - 1 < k THEN s[i - 1] ELSE s[i - 1] + w[k] - v[k]
    BY <1>5
  <2>4. CASE i < k
    BY <2>1, <2>2, <2>3, <2>4
  <2>5. CASE i = k
    BY <2>1, <2>2, <2>3, <2>5
  <2>6. CASE i > k
    <3>1. w[i] = v[i]
      BY <2>6
    <3>. QED
      BY <2>1, <2>2, <2>3, <2>6, <3>1
  <2>. QED
    BY <2>4, <2>5, <2>6
<1>6. \A i \in 0..m : i \in T
  <2> HIDE DEF T
  <2>. QED
    BY <1>4, <1>5, UpTo
<1>7. m \in T
  BY <1>6
<1>. QED
  BY <1>1, <1>2, <1>3, <1>7

-----------------------------------------------------------------------------
Words == Seq(0..MaxWord)

LEMMA BodyIs ==
  ASSUME NEW w \in Words
  PROVE  /\ Len(w) \in Nat /\ w \in [1..Len(w) -> 0..MaxWord]
         /\ Body(w) \in [1..Len(w) -> Int] /\ Weighted(w) \in [1..Len(w) -> Int]
         /\ \A k \in 1..Len(w) : Body(w)[k] = IF k <= 2 THEN 0 ELSE w[k]
         /\ \A k \in 1..Len(w) : Weighted(w)[k] = (Len(w) - k + 1) * Body(w)[k]
<1>1. PICK m \in Nat : m = Len(w) /\ w \in [1..m -> 0..MaxWord]
  <2>1. Len(w) \in Nat /\ w \in [1..Len(w) -> 0..MaxWord]
    BY LenProperties DEF Words
  <2>. QED
    BY <2>1
<1>2. \A x \in 0..MaxWord : x \in Int
  OBVIOUS
<1>3. ASSUME NEW k \in 1..m PROVE (IF k <= 2 THEN 0 ELSE w[k]) \in Int
  BY <1>1, <1>2
<1>4. Body(w) = [k \in 1..m |-> IF k <= 2 THEN 0 ELSE w[k]]
  BY <1>1 DEF Body
<1>5. Body(w) \in [1..m -> Int] /\ \A k \in 1..m : Body(w)[k] = IF k <= 2 THEN 0 ELSE w[k]
  BY <1>3, <1>4
<1>6. Weighted(w) = [k \in 1..m |-> (m - k + 1) * Body(w)[k]]
  BY <1>1 DEF Weighted
<1>7. ASSUME NEW k \in 1..m PROVE (m - k + 1) * Body(w)[k] \in Int
  <2>1. Body(w)[k] \in Int /\ m - k + 1 \in Int
    BY <1>5
  <2>. QED
    BY <2>1
<1>8. Weighted(w) \in [1..m -> Int] /\ \A k \in 1..m : Weighted(w)[k] = (m - k + 1) * Body(w)[k]
  BY <1>6, <1>7
<1>. QED
  BY <1>1, <1>5, <1>8

LEMMA SumsAre ==
  ASSUME NEW w \in Words
  PROVE  SumOf(Body(w)) \in Int /\ SumOf(Weighted(w)) \in Int
<1>1. Len(w) \in Nat /\ Len(w) \in 0..Len(w)
  BY BodyIs
<1>2. Len(Body(w)) = Len(w) /\ SumUpTo(Body(w)) \in [0..Len(w) -> Int]
  BY <1>1, BodyIs, SumsAddUp
<1>3. Len(Weighted(w)) = Len(w) /\ SumUpTo(Weighted(w)) \in [0..Len(w) -> Int]
  BY <1>1, BodyIs, SumsAddUp
<1>. QED
  BY <1>1, <1>2, <1>3 DEF SumOf

\* The checksum of two sums.
ChecksumOf(s1, s2) ==
  <<MaxWord - ((s1 + s2) % MaxWord), MaxWord - ((s1 + (MaxWord - ((s1 + s2) % MaxWord))) % MaxWord)>>

\* The checksum depends on the sums only by their remainders.
LEMMA SameChecksum ==
  ASSUME NEW a \in Int, NEW b \in Int, NEW c \in Int, NEW d \in Int, Same(a, c), Same(b, d)
  PROVE  ChecksumOf(a, b) = ChecksumOf(c, d)
<1>1. (a + b) % MaxWord = (c + d) % MaxWord
  <2>1. Same(a + b, c + d) /\ a + b \in Int /\ c + d \in Int
    BY SameSums
  <2>. QED
    BY <2>1, SameRemainder
<1>2. PICK l \in Int : l = MaxWord - ((a + b) % MaxWord) /\ l = MaxWord - ((c + d) % MaxWord)
  <2>1. (a + b) % MaxWord \in Int /\ MaxWord \in Int
    BY SameAsRemainder, ChecksumAssumption
  <2>. QED
    BY <1>1, <2>1
<1>3. (a + l) % MaxWord = (c + l) % MaxWord
  <2>1. Same(a + l, c + l) /\ a + l \in Int /\ c + l \in Int
    BY SameSums, SameSteps
  <2>. QED
    BY <2>1, SameRemainder
<1>. QED
  BY <1>2, <1>3, Zenon DEF ChecksumOf

\* Nor do other sums have it.
LEMMA ChecksumTells ==
  ASSUME NEW a \in Int, NEW b \in Int, NEW c \in Int, NEW d \in Int,
         ChecksumOf(a, b) = ChecksumOf(c, d)
  PROVE  Same(a, c) /\ Same(b, d)
<1>1. PICK x \in Int : x = (a + b) % MaxWord
  BY SameAsRemainder
<1>2. PICK y \in Int : y = (c + d) % MaxWord
  BY SameAsRemainder
<1>3. PICK w \in Int : w = MaxWord
  BY ChecksumAssumption
<1>4. PICK u \in Int : u = (a + (w - x)) % MaxWord
  BY SameAsRemainder
<1>5. PICK v \in Int : v = (c + (w - y)) % MaxWord
  BY SameAsRemainder
<1>6. <<w - x, w - u>> = <<w - y, w - v>>
  BY <1>1, <1>2, <1>3, <1>4, <1>5, Zenon DEF ChecksumOf
<1>7. w - x = w - y /\ w - u = w - v
  BY <1>6
<1>8. x = y /\ u = v
  BY <1>7
<1>9. Same(a + b, c + d)
  <2>1. a + b \in Int /\ c + d \in Int
    OBVIOUS
  <2>. QED
    BY <1>1, <1>2, <1>8, <2>1, RemainderSame
<1>10. Same(a + (w - x), c + (w - x))
  <2>1. a + (w - x) \in Int /\ c + (w - x) \in Int
    OBVIOUS
  <2>. QED
    BY <1>4, <1>5, <1>8, <2>1, RemainderSame
<1>11. Same(a, c)
  <2>1. Same((a + (w - x)) - (w - x), (c + (w - x)) - (w - x))
    <3>1. a + (w - x) \in Int /\ c + (w - x) \in Int /\ w - x \in Int /\ Same(w - x, w - x)
      BY SameSteps
    <3>. QED
      BY <1>10, <3>1, SameSums
  <2>2. (a + (w - x)) - (w - x) = a /\ (c + (w - x)) - (w - x) = c
    OBVIOUS
  <2>. QED
    BY <2>1, <2>2
<1>12. Same(b, d)
  <2>1. Same((a + b) - a, (c + d) - c)
    <3>1. a + b \in Int /\ c + d \in Int
      OBVIOUS
    <3>. QED
      BY <1>9, <1>11, <3>1, SameSums
  <2>2. (a + b) - a = b /\ (c + d) - c = d
    OBVIOUS
  <2>. QED
    BY <2>1, <2>2
<1>. QED
  BY <1>11, <1>12

LEMMA DefinitionIs ==
  ASSUME NEW w \in Words
  PROVE  Definition(w) = ChecksumOf(SumOf(Body(w)), SumOf(Weighted(w)))
<1>1. PICK a \in Int, b \in Int : a = SumOf(Body(w)) /\ b = SumOf(Weighted(w))
  BY SumsAre
<1>2. a % MaxWord \in Int /\ b % MaxWord \in Int /\ Same(a % MaxWord, a) /\ Same(b % MaxWord, b)
  BY SameAsRemainder
<1>3. ChecksumOf(a % MaxWord, b % MaxWord) = ChecksumOf(a, b)
  BY <1>2, SameChecksum
<1>4. Definition(w) = ChecksumOf(a % MaxWord, b % MaxWord)
  BY <1>1, Zenon DEF Definition, ChecksumOf
<1>. QED
  BY <1>1, <1>3, <1>4, Zenon

LEMMA DefinitionTells ==
  ASSUME NEW w \in Words, NEW x \in Words, Definition(w) = Definition(x)
  PROVE  /\ Same(SumOf(Body(w)), SumOf(Body(x)))
         /\ Same(SumOf(Weighted(w)), SumOf(Weighted(x)))
BY DefinitionIs, SumsAre, ChecksumTells

\* One word is changed: the sum of the words changes by as much, the other by
\* a multiple.
LEMMA OneWordChanged ==
  ASSUME NEW w \in Words, NEW k \in 3..Len(w), NEW v \in 0..MaxWord
  PROVE  LET x == [w EXCEPT ![k] = v] IN
         /\ x \in Words /\ Len(x) = Len(w)
         /\ SumOf(Body(x)) = SumOf(Body(w)) + (v - w[k])
         /\ SumOf(Weighted(x)) = SumOf(Weighted(w)) + (Len(w) - k + 1) * (v - w[k])
<1> DEFINE x == [w EXCEPT ![k] = v]
<1>1. PICK m \in Nat : m = Len(w) /\ k \in 1..m /\ ~ (k <= 2)
  BY BodyIs
<1>2. w \in [1..m -> 0..MaxWord]
  BY <1>1, BodyIs
<1>3. /\ x \in [1..m -> 0..MaxWord] /\ x[k] = v
      /\ \A i \in 1..m : i # k => x[i] = w[i]
  BY <1>1, <1>2
<1> HIDE DEF x
<1>4. x \in Words /\ Len(x) = m
  <2>1. \A S : x \in [1..m -> S] => x \in Seq(S) /\ Len(x) = m
    OBVIOUS
  <2>. QED
    BY <1>3, <2>1, Zenon DEF Words
<1>5. /\ Body(w) \in [1..m -> Int] /\ Weighted(w) \in [1..m -> Int]
      /\ \A i \in 1..m : Body(w)[i] = IF i <= 2 THEN 0 ELSE w[i]
      /\ \A i \in 1..m : Weighted(w)[i] = (m - i + 1) * Body(w)[i]
  BY <1>1, BodyIs
<1>6. /\ Body(x) \in [1..m -> Int] /\ Weighted(x) \in [1..m -> Int]
      /\ \A i \in 1..m : Body(x)[i] = IF i <= 2 THEN 0 ELSE x[i]
      /\ \A i \in 1..m : Weighted(x)[i] = (m - i + 1) * Body(x)[i]
  <2>1. Len(x) = m /\ x \in Words
    BY <1>4
  <2>. QED
    BY <2>1, BodyIs
<1>7. \A i \in 1..m : i # k => Body(x)[i] = Body(w)[i]
  BY <1>3, <1>5, <1>6
<1>8. Body(x)[k] = v /\ Body(w)[k] = w[k]
  BY <1>1, <1>3, <1>5, <1>6
<1>9. \A i \in 1..m : i # k => Weighted(x)[i] = Weighted(w)[i]
  BY <1>5, <1>6, <1>7
<1>10. PICK a \in Int : a = w[k]
  BY <1>1, <1>2
<1>11. v \in Int
  OBVIOUS
<1>12. /\ SumOf(Body(w)) \in Int
       /\ SumOf(Body(x)) = SumOf(Body(w)) + Body(x)[k] - Body(w)[k]
  BY <1>1, <1>5, <1>6, <1>7, SumsDiffer
<1>13. /\ SumOf(Weighted(w)) \in Int
       /\ SumOf(Weighted(x)) = SumOf(Weighted(w)) + Weighted(x)[k] - Weighted(w)[k]
  BY <1>1, <1>5, <1>6, <1>9, SumsDiffer
<1>14. PICK c \in Int : c = m - k + 1
  BY <1>1
<1>15. Weighted(x)[k] = c * v /\ Weighted(w)[k] = c * a
  BY <1>1, <1>5, <1>6, <1>8, <1>10, <1>14
<1>16. c * v \in Int /\ c * a \in Int /\ c * (v - a) = c * v - c * a
  BY <1>11
<1>17. SumOf(Weighted(x)) = SumOf(Weighted(w)) + c * (v - a)
  BY <1>13, <1>15, <1>16
<1>18. SumOf(Body(x)) = SumOf(Body(w)) + (v - a)
  BY <1>8, <1>10, <1>11, <1>12
<1>19. /\ x \in Words /\ Len(x) = Len(w)
       /\ SumOf(Body(x)) = SumOf(Body(w)) + (v - w[k])
       /\ SumOf(Weighted(x)) = SumOf(Weighted(w)) + (Len(w) - k + 1) * (v - w[k])
  BY <1>1, <1>4, <1>10, <1>14, <1>17, <1>18, Zenon
<1>. QED
  BY <1>19 DEF x

LEMMA OneWordTells ==
  ASSUME NEW w \in Words, NEW k \in 3..Len(w), NEW v \in 0..MaxWord,
         Definition([w EXCEPT ![k] = v]) = Definition(w)
  PROVE  v % MaxWord = w[k] % MaxWord
<1> DEFINE x == [w EXCEPT ![k] = v]
<1>1. x \in Words /\ SumOf(Body(x)) = SumOf(Body(w)) + (v - w[k])
  BY OneWordChanged
<1>2. Definition(x) = Definition(w)
  OBVIOUS
<1> HIDE DEF x
<1>3. PICK s \in Int : s = SumOf(Body(w))
  BY SumsAre
<1>4. w[k] \in Int /\ v \in Int
  <2>1. Len(w) \in Nat /\ w \in [1..Len(w) -> 0..MaxWord]
    BY BodyIs
  <2>2. k \in 1..Len(w)
    BY <2>1
  <2>. QED
    BY <2>1, <2>2
<1>5. Same(s + (v - w[k]), s)
  BY <1>1, <1>2, <1>3, DefinitionTells
<1>6. PICK a \in Int : a = w[k]
  BY <1>4
<1>7. Same((s + (v - a)) - (s - a), s - (s - a))
  <2>1. s + (v - a) \in Int /\ s - a \in Int /\ Same(s - a, s - a)
    BY <1>4, SameSteps
  <2>. QED
    BY <1>5, <1>6, <2>1, SameSums
<1>8. (s + (v - a)) - (s - a) = v /\ s - (s - a) = a
  BY <1>4
<1>9. Same(v, a)
  BY <1>7, <1>8
<1>. QED
  BY <1>4, <1>6, <1>9, SameRemainder

LEMMA ExchangeTells ==
  ASSUME NEW w \in Words, NEW k \in 3..Len(w), k > 3,
         Definition([w EXCEPT ![k] = w[k - 1], ![k - 1] = w[k]]) = Definition(w)
  PROVE  w[k] % MaxWord = w[k - 1] % MaxWord
<1> DEFINE x == [w EXCEPT ![k] = w[k - 1]]
           y == [x EXCEPT ![k - 1] = w[k]]
<1>1. /\ Len(w) \in Nat /\ w \in [1..Len(w) -> 0..MaxWord] /\ k \in 1..Len(w)
      /\ k - 1 \in 1..Len(w) /\ k - 1 \in 3..Len(w)
  <2>1. Len(w) \in Nat /\ w \in [1..Len(w) -> 0..MaxWord]
    BY BodyIs
  <2>. QED
    BY <2>1
<1>2. w[k] \in 0..MaxWord /\ w[k - 1] \in 0..MaxWord
  BY <1>1
<1>3. PICK a \in Int, b \in Int : a = w[k] /\ b = w[k - 1]
  BY <1>2
<1>4. PICK m \in Nat : m = Len(w)
  BY <1>1
<1>5. PICK s \in Int, t \in Int : s = SumOf(Body(w)) /\ t = SumOf(Weighted(w))
  BY SumsAre
<1>6. /\ x \in Words /\ Len(x) = m
      /\ SumOf(Weighted(x)) = t + (m - k + 1) * (b - a)
  BY <1>2, <1>3, <1>4, <1>5, OneWordChanged
<1>7. x[k - 1] = b
  BY <1>1, <1>3
<1>8. y = [w EXCEPT ![k] = w[k - 1], ![k - 1] = w[k]]
  OBVIOUS
<1> HIDE DEF x
<1>9. /\ y \in Words
      /\ SumOf(Weighted(y)) = SumOf(Weighted(x)) + (m - (k - 1) + 1) * (a - b)
  <2>1. k - 1 \in 3..Len(x)
    BY <1>1, <1>4, <1>6
  <2>2. /\ y \in Words
        /\ SumOf(Weighted(y)) = SumOf(Weighted(x)) + (Len(x) - (k - 1) + 1) * (w[k] - x[k - 1])
    BY <1>2, <1>6, <2>1, OneWordChanged
  <2>. QED
    BY <1>3, <1>6, <1>7, <2>2, Zenon
<1> HIDE DEF y
<1>10. PICK c \in Int : c = m - k + 1
  OBVIOUS
<1>11. m - (k - 1) + 1 = c + 1
  BY <1>10
<1>12. SumOf(Weighted(y)) = t + (a - b)
  <2>1. SumOf(Weighted(y)) = (t + c * (b - a)) + (c + 1) * (a - b)
    BY <1>6, <1>9, <1>10, <1>11, Zenon
  <2>2. (t + c * (b - a)) + (c + 1) * (a - b) = t + (a - b)
    OBVIOUS
  <2>. QED
    BY <2>1, <2>2, Zenon
<1>13. Same(t + (a - b), t)
  <2>1. Definition(y) = Definition(w)
    BY <1>8
  <2>. QED
    BY <1>5, <1>9, <1>12, <2>1, DefinitionTells
<1>14. Same((t + (a - b)) - (t - b), t - (t - b))
  <2>1. t + (a - b) \in Int /\ t - b \in Int /\ Same(t - b, t - b)
    BY SameSteps
  <2>. QED
    BY <1>13, <2>1, SameSums
<1>15. (t + (a - b)) - (t - b) = a /\ t - (t - b) = b
  OBVIOUS
<1>16. Same(a, b)
  BY <1>14, <1>15
<1>. QED
  BY <1>3, <1>16, SameRemainder

-----------------------------------------------------------------------------
\* After the first words, sum1 is their sum, and sum2 is the second sum but for
\* what the words summed will count for with the words to come.
SumInv ==
  /\ payload \in Payloads
  /\ summed \in 0..WordCount
  /\ sum1 \in Int /\ sum2 \in Int
  /\ LET w == payload.words
     IN  /\ Same(sum1, SumUpTo(Body(w))[summed])
         /\ Same(sum2 + (WordCount - summed) * sum1, SumUpTo(Weighted(w))[summed])
  /\ verdict = "match" => computed # <<>>
  /\ computed # <<>> => computed = Definition(payload.words)
  /\ verdict = "panic" => WordCount < 2

LEMMA PayloadIs ==
  ASSUME payload \in Payloads
  PROVE  /\ payload.words \in Words /\ WordCount \in Nat
         /\ LET w == payload.words
                s == SumUpTo(Body(w))
                t == SumUpTo(Weighted(w))
            IN  /\ s \in [0..WordCount -> Int] /\ s[0] = 0 /\ t \in [0..WordCount -> Int] /\ t[0] = 0
                /\ \A i \in 1..WordCount :
                     /\ payloadCopy(i) \in Int
                     /\ s[i] = s[i - 1] + payloadCopy(i)
                     /\ t[i] = t[i - 1] + (WordCount - i + 1) * payloadCopy(i)
                /\ SumOf(Body(w)) = s[WordCount] /\ SumOf(Weighted(w)) = t[WordCount]
<1> DEFINE w == payload.words
<1>1. w \in Words
  BY ChecksumAssumption DEF Words
<1>2. PICK m \in Nat : m = Len(w)
  BY <1>1, BodyIs
<1>3. WordCount = m
  BY <1>2 DEF WordCount
<1>4. /\ Body(w) \in [1..m -> Int] /\ Weighted(w) \in [1..m -> Int]
      /\ \A k \in 1..m : Body(w)[k] = IF k <= 2 THEN 0 ELSE w[k]
      /\ \A k \in 1..m : Weighted(w)[k] = (m - k + 1) * Body(w)[k]
  BY <1>1, <1>2, BodyIs
<1>5. \A k \in 1..m : Body(w)[k] = payloadCopy(k) /\ payloadCopy(k) \in Int
  BY <1>4 DEF payloadCopy
<1>6. /\ Len(Body(w)) = m
      /\ SumUpTo(Body(w)) \in [0..m -> Int] /\ SumUpTo(Body(w))[0] = 0
      /\ \A i \in 1..m : SumUpTo(Body(w))[i] = SumUpTo(Body(w))[i - 1] + Body(w)[i]
  BY <1>4, SumsAddUp
<1>7. /\ Len(Weighted(w)) = m
      /\ SumUpTo(Weighted(w)) \in [0..m -> Int] /\ SumUpTo(Weighted(w))[0] = 0
      /\ \A i \in 1..m : SumUpTo(Weighted(w))[i] = SumUpTo(Weighted(w))[i - 1] + Weighted(w)[i]
  BY <1>4, SumsAddUp
<1>8. SumOf(Body(w)) = SumUpTo(Body(w))[m] /\ SumOf(Weighted(w)) = SumUpTo(Weighted(w))[m]
  BY <1>6, <1>7 DEF SumOf
<1> HIDE DEF w
<1>9. ASSUME NEW i \in 1..m
      PROVE  /\ payloadCopy(i) \in Int
             /\ SumUpTo(Body(w))[i] = SumUpTo(Body(w))[i - 1] + payloadCopy(i)
             /\ SumUpTo(Weighted(w))[i] = SumUpTo(Weighted(w))[i - 1] + (m - i + 1) * payloadCopy(i)
  BY <1>4, <1>5, <1>6, <1>7
<1>. QED
  BY <1>1, <1>3, <1>6, <1>7, <1>8, <1>9 DEF w

LEMMA SumInvInit == SumInit => SumInv
<1> SUFFICES ASSUME SumInit PROVE SumInv
  OBVIOUS
<1> DEFINE w == payload.words
<1>1. payload \in Payloads /\ summed = 0 /\ sum1 = 0 /\ sum2 = 0 /\ computed = <<>> /\ verdict = "summing"
  BY DEF SumInit
<1>2. WordCount \in Nat /\ SumUpTo(Body(w))[0] = 0 /\ SumUpTo(Weighted(w))[0] = 0
  BY <1>1, PayloadIs
<1>3. 0 + (WordCount - 0) * 0 = 0 /\ 0 \in Int
  BY <1>2
<1>4. Same(0, 0)
  BY <1>3, SameSteps
<1>5. Same(sum1, SumUpTo(Body(w))[summed])
  BY <1>1, <1>2, <1>4, Zenon
<1>6. Same(sum2 + (WordCount - summed) * sum1, SumUpTo(Weighted(w))[summed])
  BY <1>1, <1>2, <1>3, <1>4, Zenon
<1> HIDE DEF w
<1>7. summed \in 0..WordCount
  BY <1>1, <1>2
<1>. QED
  BY <1>1, <1>3, <1>5, <1>6, <1>7 DEF SumInv, w

\* A word more; whether the sums are reduced makes no difference.
LEMMA OneWordMore ==
  ASSUME NEW a \in Int, NEW b \in Int, NEW x \in Int, NEW m \in Nat, NEW i \in Nat,
         NEW s \in Int, NEW t \in Int, NEW a2 \in Int, NEW b2 \in Int,
         Same(a, s), Same(b + (m - i) * a, t),
         Same(a2, a + x), Same(b2, b + a + x)
  PROVE  Same(a2, s + x) /\ Same(b2 + (m - (i + 1)) * a2, t + (m - (i + 1) + 1) * x)
<1>1. Same(a + x, s + x)
  BY SameSteps, SameSums
<1>2. Same(a2, s + x)
  <2>1. a + x \in Int /\ s + x \in Int
    OBVIOUS
  <2>. QED
    BY <1>1, <2>1, SameSteps
<1>3. PICK c \in Int : c = m - (i + 1)
  OBVIOUS
<1>4. m - i = c + 1
  BY <1>3
<1>5. c * a2 \in Int /\ c * (a + x) \in Int /\ (c + 1) * a \in Int /\ (c + 1) * x \in Int
  OBVIOUS
<1>6. Same(c * a2, c * (a + x))
  <2>1. a + x \in Int
    OBVIOUS
  <2>. QED
    BY <2>1, SameMultiples
<1>7. Same(b2 + c * a2, (b + a + x) + c * (a + x))
  <2>1. b + a + x \in Int
    OBVIOUS
  <2>. QED
    BY <1>5, <1>6, <2>1, SameSums
<1>8. (b + a + x) + c * (a + x) = (b + (c + 1) * a) + (c + 1) * x
  OBVIOUS
<1>9. Same((b + (c + 1) * a) + (c + 1) * x, t + (c + 1) * x)
  <2>1. Same(b + (c + 1) * a, t) /\ b + (c + 1) * a \in Int
    BY <1>4, <1>5
  <2>2. Same((c + 1) * x, (c + 1) * x)
    BY <1>5, SameSteps
  <2>. QED
    BY <1>5, <2>1, <2>2, SameSums
<1>10. Same(b2 + c * a2, t + (c + 1) * x)
  <2>1. PICK u \in Int, v \in Int, y \in Int :
          u = b2 + c * a2 /\ v = (b + (c + 1) * a) + (c + 1) * x /\ y = t + (c + 1) * x
    BY <1>5
  <2>2. Same(u, v)
    BY <1>7, <1>8, <2>1, Zenon
  <2>3. Same(v, y)
    BY <1>9, <2>1, Zenon
  <2>. QED
    BY <2>1, <2>2, <2>3, SameSteps
<1>. QED
  BY <1>2, <1>3, <1>10, Zenon

LEMMA SumInvStep == SumInv /\ [SumNext \/ SumEnded]_sumVars => SumInv'
<1> SUFFICES ASSUME SumInv, [SumNext \/ SumEnded]_sumVars PROVE SumInv'
  OBVIOUS
<1> DEFINE w == payload.words
           s == SumUpTo(Body(w))
           t == SumUpTo(Weighted(w))
<1>1. /\ payload \in Payloads /\ w \in Words /\ WordCount \in Nat /\ summed \in 0..WordCount
      /\ sum1 \in Int /\ sum2 \in Int
  BY PayloadIs DEF SumInv
<1>2. ASSUME UNCHANGED <<payload, summed, sum1, sum2>>
      PROVE  /\ payload' \in Payloads /\ summed' \in 0..WordCount' /\ sum1' \in Int /\ sum2' \in Int
             /\ LET v == payload.words
                IN  (/\ Same(sum1, SumUpTo(Body(v))[summed])
                     /\ Same(sum2 + (WordCount - summed) * sum1, SumUpTo(Weighted(v))[summed]))'
             /\ WordCount' = WordCount
  BY <1>2 DEF SumInv, WordCount
<1>3. CASE UNCHANGED sumVars
  BY <1>2, <1>3 DEF sumVars, SumInv
<1>4. CASE NotWords
  BY <1>2, <1>4 DEF NotWords, SumInv
<1>5. CASE NoRoomForChecksum
  BY <1>2, <1>5 DEF NoRoomForChecksum, SumInv
<1>6. CASE SumWord
  <2>1. /\ verdict = "summing" /\ computed = <<>> /\ summed < WordCount
        /\ summed' = summed + 1 /\ UNCHANGED <<payload, oChecksum, computed, verdict>>
    BY <1>6 DEF SumWord, Summing
  <2>2. PICK i \in 1..WordCount : i = summed + 1 /\ i - 1 = summed
    BY <1>1, <2>1
  <2>3. PICK x \in Int : x = payloadCopy(i)
    BY <1>1, <2>2, PayloadIs
  <2>4. /\ sum1' \in {sum1 + x, (sum1 + x) % MaxWord}
        /\ sum2' \in {sum2 + sum1 + x, (sum2 + sum1 + x) % MaxWord}
    BY <1>6, <2>2, <2>3 DEF SumWord
  <2>5. /\ sum1' \in Int /\ Same(sum1', sum1 + x)
        /\ sum2' \in Int /\ Same(sum2', sum2 + sum1 + x)
    <3>1. sum1 + x \in Int /\ sum2 + sum1 + x \in Int
      BY <1>1
    <3>2. \A y \in Int : y % MaxWord \in Int /\ Same(y % MaxWord, y) /\ Same(y, y)
      BY SameAsRemainder, SameSteps
    <3>. QED
      BY <2>4, <3>1, <3>2
  <2>6. s[i - 1] \in Int /\ t[i - 1] \in Int /\ s[i] = s[i - 1] + x /\ t[i] = t[i - 1] + (WordCount - i + 1) * x
    <3>1. i - 1 \in 0..WordCount
      BY <1>1, <2>2
    <3>. QED
      BY <1>1, <2>2, <2>3, <3>1, PayloadIs
  <2>7. Same(sum1, s[i - 1]) /\ Same(sum2 + (WordCount - summed) * sum1, t[i - 1])
    BY <2>2 DEF SumInv
  <2> HIDE DEF w, s, t
  <2>8. PICK a \in Int, b \in Int : a = sum1 /\ b = sum2
    BY <1>1
  <2>a. PICK m \in Nat, k \in Nat : m = WordCount /\ k = summed
    BY <1>1
  <2>b. PICK u \in Int, v \in Int : u = s[i - 1] /\ v = t[i - 1]
    BY <2>6
  <2>c. PICK a2 \in Int, b2 \in Int : a2 = sum1' /\ b2 = sum2'
    BY <2>5
  <2>9. Same(a2, u + x) /\ Same(b2 + (m - (k + 1)) * a2, v + (m - (k + 1) + 1) * x)
    <3>1. Same(a, u) /\ Same(b + (m - k) * a, v) /\ Same(a2, a + x) /\ Same(b2, b + a + x)
      BY <2>5, <2>7, <2>8, <2>a, <2>b, <2>c, Zenon
    <3>. QED
      BY <3>1, OneWordMore
  <2>d. m - (k + 1) + 1 = m - i + 1 /\ m - (k + 1) = m - i /\ i = k + 1
    BY <2>2, <2>a
  <2>10. Same(sum1', s[summed']) /\ Same(sum2' + (WordCount - summed') * sum1', t[summed'])
    BY <2>1, <2>2, <2>6, <2>a, <2>b, <2>c, <2>9, <2>d, Zenon
  <2>11. WordCount' = WordCount
    BY <2>1 DEF WordCount
  <2>12. summed' \in 0..WordCount
    BY <1>1, <2>1
  <2>. QED
    BY <1>1, <2>1, <2>5, <2>10, <2>11, <2>12 DEF SumInv, w, s, t
<1>7. CASE ComputeChecksum
  <2>1. /\ verdict = "summing" /\ summed = WordCount
        /\ computed' = ChecksumOf(sum1, sum2)
        /\ UNCHANGED <<payload, oChecksum, summed, sum1, sum2>> /\ verdict' \in {"match", "differs"}
    BY <1>7 DEF ComputeChecksum, Summing, ckLow, ckHigh, ChecksumOf
  <2>2. computed' # <<>>
    BY <2>1 DEF ChecksumOf
  <2>3. Same(sum1, SumOf(Body(w)))
    BY <1>1, <2>1, PayloadIs DEF SumInv
  <2>4. Same(sum2, SumOf(Weighted(w)))
    <3>1. sum2 + (WordCount - summed) * sum1 = sum2
      <4>1. WordCount - summed = 0 /\ 0 * sum1 = 0 /\ sum2 + 0 = sum2
        BY <1>1, <2>1
      <4>. QED
        BY <4>1, Zenon
    <3>2. Same(sum2 + (WordCount - summed) * sum1, t[summed])
      BY DEF SumInv
    <3>3. t[WordCount] = SumOf(Weighted(w))
      BY <1>1, PayloadIs
    <3>. QED
      BY <2>1, <3>1, <3>2, <3>3, Zenon
  <2>5. ChecksumOf(sum1, sum2) = Definition(w)
    <3>1. PICK u \in Int, v \in Int : u = SumOf(Body(w)) /\ v = SumOf(Weighted(w))
      BY <1>1, SumsAre
    <3>2. ChecksumOf(sum1, sum2) = ChecksumOf(u, v)
      BY <1>1, <2>3, <2>4, <3>1, SameChecksum
    <3>. QED
      BY <1>1, <3>1, <3>2, DefinitionIs, Zenon
  <2>6. (computed = Definition(payload.words))'
    BY <2>1, <2>5
  <2>. QED
    BY <1>2, <2>1, <2>2, <2>6 DEF SumInv
<1>. QED
  BY <1>3, <1>4, <1>5, <1>6, <1>7 DEF SumNext, SumEnded

\* DamageIsDetected, for payloads of any length and words and chunks of any size.
THEOREM DamageChangesChecksum == SumSpec => []DamageIsDetected
<1>1. SumSpec => []SumInv
  BY SumInvInit, SumInvStep, PTL DEF SumSpec
<1>2. SumInv => DamageIsDetected
  <2> SUFFICES ASSUME SumInv PROVE DamageIsDetected
    OBVIOUS
  <2> DEFINE w == payload.words
  <2>1. w \in Words /\ WordCount = Len(w)
    BY PayloadIs DEF SumInv, WordCount
  <2>2. ASSUME verdict = "match", NEW k \in 3..WordCount
        PROVE  /\ \A v \in 0..MaxWord : v % MaxWord # w[k] % MaxWord =>
                     Definition([w EXCEPT ![k] = v]) # computed
               /\ k > 3 /\ w[k] % MaxWord # w[k - 1] % MaxWord =>
                     Definition([w EXCEPT ![k] = w[k - 1], ![k - 1] = w[k]]) # computed
    <3>1. computed = Definition(w)
      BY <2>2 DEF SumInv
    <3> HIDE DEF w
    <3>. QED
      BY <2>1, <2>2, <3>1, OneWordTells, ExchangeTells
  <2>3. /\ computed # <<>> => computed = Definition(w)
        /\ verdict = "panic" => WordCount < 2
    BY DEF SumInv
  <2>. QED
    BY <2>2, <2>3 DEF DamageIsDetected
<1>. QED
  BY <1>1, <1>2, PTL

-----------------------------------------------------------------------------
(* RecordFormats: where a field is.                                        *)

\* The bytes of field j, and of the first k fields.
FieldBytes(s, j) == {<<j, b>> : b \in 1..Width(s[j])}
LeadingBytes(s, k) == UNION {FieldBytes(s, j) : j \in 1..k}

LEMMA WidthType == ASSUME NEW w \in Int PROVE Width(w) \in Nat
BY DEF Width

LEMMA FieldBytesCount ==
  ASSUME NEW s, NEW j, s[j] \in Int
  PROVE  IsFiniteSet(FieldBytes(s, j)) /\ Cardinality(FieldBytes(s, j)) = Width(s[j])
<1> DEFINE w == Width(s[j])
<1>1. w \in Nat
  BY WidthType
<1> DEFINE f == [b \in 1..w |-> <<j, b>>]
<1> HIDE DEF w
<1>2. FieldBytes(s, j) = {<<j, b>> : b \in 1..w}
  BY DEF FieldBytes, w
<1>2a. f \in Bijection(1..w, FieldBytes(s, j))
  <2>1. f \in [1..w -> FieldBytes(s, j)]
    BY <1>2
  <2>2. \A a, b \in 1..w : f[a] = f[b] => a = b
    OBVIOUS
  <2>3. \A y \in FieldBytes(s, j) : \E b \in 1..w : f[b] = y
    BY <1>2
  <2>. QED
    BY <2>1, <2>2, <2>3 DEF Bijection, Injection, Surjection, IsInjective
<1>3. ExistsBijection(1..w, FieldBytes(s, j))
  BY <1>2a DEF ExistsBijection
<1>4. IsFiniteSet(1..w) /\ Cardinality(1..w) = w
  BY <1>1, FS_Interval
<1>. QED
  BY <1>3, <1>4, FS_Bijection DEF w

LEMMA OffsetIs == ASSUME NEW s, NEW k PROVE Offset(s, k) = Cardinality(LeadingBytes(s, k))
BY DEF Offset, LeadingBytes, FieldBytes

\* One field more adds its width.
LEMMA LeadingBytesGrow ==
  ASSUME NEW s, NEW k \in Nat, IsFiniteSet(LeadingBytes(s, k)), s[k + 1] \in Int
  PROVE  /\ IsFiniteSet(LeadingBytes(s, k + 1))
         /\ Cardinality(LeadingBytes(s, k + 1)) = Cardinality(LeadingBytes(s, k)) + Width(s[k + 1])
<1> DEFINE L == LeadingBytes(s, k)
           F == FieldBytes(s, k + 1)
<1>1. LeadingBytes(s, k + 1) = L \cup F
  <2>1. 1..(k + 1) = 1..k \cup {k + 1}
    OBVIOUS
  <2>. QED
    BY <2>1 DEF LeadingBytes
<1>2. L \cap F = {}
  BY DEF LeadingBytes, FieldBytes
<1>3. IsFiniteSet(F) /\ Cardinality(F) = Width(s[k + 1])
  BY FieldBytesCount
<1>4. s[k + 1] \in Int
  OBVIOUS
<1> HIDE DEF L, F
<1>5. IsFiniteSet(L)
  BY DEF L
<1>6. IsFiniteSet(L \cup F) /\ Cardinality(L \cup F) = Cardinality(L) + Cardinality(F) - Cardinality(L \cap F)
  BY <1>3, <1>5, FS_Union
<1>7. Cardinality(L \cap F) = 0
  BY <1>2, FS_EmptySet
<1>. QED
  <2>1. Cardinality(L \cup F) = Cardinality(L) + Width(s[k + 1])
    <3>1. Cardinality(L) \in Nat /\ Width(s[k + 1]) \in Nat
      BY <1>4, <1>5, FS_CardinalityType, WidthType
    <3>. QED
      BY <1>3, <1>6, <1>7, <3>1
  <2>. QED
    BY <1>1, <1>6, <2>1 DEF L

LEMMA OffsetFinite ==
  ASSUME NEW s \in Seq(Int)
  PROVE  \A k \in 0..Len(s) : IsFiniteSet(LeadingBytes(s, k))
<1> DEFINE T == {k \in 0..Len(s) : IsFiniteSet(LeadingBytes(s, k))}
<1>1. LeadingBytes(s, 0) = {}
  BY DEF LeadingBytes
<1>2. 0 \in T
  <2>1. IsFiniteSet(LeadingBytes(s, 0))
    BY <1>1, FS_EmptySet
  <2>2. 0 \in 0..Len(s)
    OBVIOUS
  <2>. QED
    BY <2>1, <2>2
<1>3. ASSUME NEW i \in 1..Len(s), i - 1 \in T PROVE i \in T
  <2>1. i - 1 \in Nat /\ (i - 1) + 1 = i /\ s[i] \in Int /\ IsFiniteSet(LeadingBytes(s, i - 1))
    BY <1>3
  <2>2. IsFiniteSet(LeadingBytes(s, (i - 1) + 1))
    BY <2>1, LeadingBytesGrow
  <2>. QED
    BY <2>1, <2>2
<1>4. Len(s) \in Nat
  OBVIOUS
<1> HIDE DEF T
<1>5. \A i \in 0..Len(s) : i \in T
  BY <1>2, <1>3, <1>4, UpTo
<1>. QED
  BY <1>5 DEF T

\* The offset of a field is the sum of the widths before it.
LEMMA OffsetNext ==
  ASSUME NEW s \in Seq(Int)
  PROVE  /\ Offset(s, 0) = 0
         /\ \A k \in 0..Len(s) : Offset(s, k) \in Nat
         /\ \A k \in 0..(Len(s) - 1) : Offset(s, k + 1) = Offset(s, k) + Width(s[k + 1])
<1>1. LeadingBytes(s, 0) = {}
  BY DEF LeadingBytes
<1>2. ASSUME NEW k \in 0..Len(s) PROVE Offset(s, k) \in Nat
  BY OffsetFinite, OffsetIs, FS_CardinalityType
<1>3. ASSUME NEW k \in 0..(Len(s) - 1) PROVE Offset(s, k + 1) = Offset(s, k) + Width(s[k + 1])
  <2>1. k \in Nat /\ k \in 0..Len(s) /\ s[k + 1] \in Int
    OBVIOUS
  <2>2. IsFiniteSet(LeadingBytes(s, k))
    BY <2>1, OffsetFinite
  <2>. QED
    BY <2>1, <2>2, LeadingBytesGrow, OffsetIs
<1>. QED
  BY <1>1, <1>2, <1>3, OffsetIs, FS_EmptySet

\* Offsets never go down, up to the size.
LEMMA OffsetBelowSize ==
  ASSUME NEW s \in Seq(Int), NEW k \in 0..Len(s)
  PROVE  Offset(s, k) <= Size(s) /\ Size(s) \in Nat
<1> DEFINE n == Len(s) - k
           T == {i \in 0..n : Offset(s, k) <= Offset(s, k + i)}
<1>1. 0 \in T /\ n \in Nat
  BY OffsetNext
<1>2. ASSUME NEW i \in 1..n, i - 1 \in T PROVE i \in T
  <2>1. k + (i - 1) \in 0..(Len(s) - 1) /\ (k + (i - 1)) + 1 = k + i /\ k + i \in 0..Len(s)
    OBVIOUS
  <2>2. Offset(s, k) <= Offset(s, k + (i - 1)) /\ i \in 0..n
    BY <1>2
  <2>3. s[k + i] \in Int
    BY <2>1
  <2>4. Offset(s, k + i) = Offset(s, k + (i - 1)) + Width(s[k + i])
    BY <2>1, OffsetNext
  <2>5. Width(s[k + i]) \in Nat
    BY <2>3, WidthType
  <2>6. Offset(s, k) \in Nat /\ Offset(s, k + (i - 1)) \in Nat
    BY <2>1, OffsetNext
  <2>7. Offset(s, k) <= Offset(s, k + i)
    BY <2>2, <2>4, <2>5, <2>6
  <2>. QED
    BY <2>2, <2>7
<1> HIDE DEF T
<1>3. \A i \in 0..n : i \in T
  BY <1>1, <1>2, UpTo
<1>4. n \in T /\ k + n = Len(s)
  BY <1>1, <1>3
<1>. QED
  BY <1>4, OffsetNext DEF T, Size

\* Sequences that begin with the same widths have the same offsets there.
LEMMA SameOffset ==
  ASSUME NEW s \in Seq(Int), NEW t \in Seq(Int), NEW m \in 0..Len(s), m <= Len(t),
         \A i \in 1..m : Width(s[i]) = Width(t[i])
  PROVE  \A k \in 0..m : Offset(s, k) = Offset(t, k)
<1> DEFINE T == {k \in 0..m : Offset(s, k) = Offset(t, k)}
<1>1. 0 \in T /\ m \in Nat
  BY OffsetNext
<1>2. ASSUME NEW i \in 1..m, i - 1 \in T PROVE i \in T
  <2>1. i - 1 \in 0..(Len(s) - 1) /\ i - 1 \in 0..(Len(t) - 1) /\ (i - 1) + 1 = i
    OBVIOUS
  <2>2. Offset(s, i) = Offset(s, i - 1) + Width(s[i]) /\ Offset(t, i) = Offset(t, i - 1) + Width(t[i])
    BY <2>1, OffsetNext
  <2>. QED
    BY <1>2, <2>2
<1> HIDE DEF T
<1>3. \A i \in 0..m : i \in T
  BY <1>1, <1>2, UpTo
<1>. QED
  BY <1>3 DEF T

\* Fields behind a sequence of fields stand behind its bytes.
LEMMA OffsetBehind ==
  ASSUME NEW s \in Seq(Int), NEW t \in Seq(Int)
  PROVE  \A k \in 0..Len(t) : Offset(s \o t, Len(s) + k) = Size(s) + Offset(t, k)
<1> DEFINE u == s \o t
           T == {k \in 0..Len(t) : Offset(u, Len(s) + k) = Size(s) + Offset(t, k)}
<1>1. /\ u \in Seq(Int) /\ Len(u) = Len(s) + Len(t)
      /\ \A i \in 1..Len(s) : u[i] = s[i]
      /\ \A i \in 1..Len(t) : u[Len(s) + i] = t[i]
  OBVIOUS
<1> HIDE DEF u
<1>2. Len(s) \in 0..Len(s) /\ Len(s) <= Len(u) /\ Len(s) \in Nat /\ Len(t) \in Nat
  BY <1>1
<1>3. Offset(s, Len(s)) = Offset(u, Len(s))
  BY <1>1, <1>2, SameOffset
<1>4. Size(s) \in Nat
  BY <1>2, OffsetBelowSize
<1>5. 0 \in T
  <2>1. Offset(t, 0) = 0 /\ Len(s) + 0 = Len(s)
    BY <1>2, OffsetNext
  <2>. QED
    BY <1>2, <1>3, <1>4, <2>1 DEF Size
<1>6. ASSUME NEW i \in 1..Len(t), i - 1 \in T PROVE i \in T
  <2>1. /\ i - 1 \in 0..(Len(t) - 1) /\ (i - 1) + 1 = i
        /\ Len(s) + (i - 1) \in 0..(Len(u) - 1) /\ (Len(s) + (i - 1)) + 1 = Len(s) + i
    <3>1. Len(s) \in Nat /\ Len(t) \in Nat /\ i \in 1..Len(t) /\ Len(u) = Len(s) + Len(t)
      BY <1>1, <1>2, <1>6
    <3>. QED
      BY <3>1
  <2>2. /\ Offset(t, i) = Offset(t, i - 1) + Width(t[i])
        /\ Offset(u, Len(s) + i) = Offset(u, Len(s) + (i - 1)) + Width(u[Len(s) + i])
    BY <1>1, <2>1, OffsetNext
  <2>3. u[Len(s) + i] = t[i] /\ t[i] \in Int
    BY <1>1
  <2>4. Width(t[i]) \in Nat /\ Offset(t, i - 1) \in Nat
    <3>1. i - 1 \in 0..Len(t)
      BY <2>1
    <3>. QED
      BY <2>3, <3>1, WidthType, OffsetNext
  <2>5. Offset(u, Len(s) + (i - 1)) = Size(s) + Offset(t, i - 1)
    BY <1>6
  <2>. QED
    BY <1>4, <2>2, <2>3, <2>4, <2>5
<1> HIDE DEF T
<1>7. \A k \in 0..Len(t) : k \in T
  BY <1>2, <1>5, <1>6, UpTo
<1>. QED
  BY <1>7 DEF T, u

\* So sizes add up.
LEMMA SizeConcat ==
  ASSUME NEW s \in Seq(Int), NEW t \in Seq(Int)
  PROVE  s \o t \in Seq(Int) /\ Size(s \o t) = Size(s) + Size(t)
<1>1. Len(t) \in 0..Len(t) /\ Len(s \o t) = Len(s) + Len(t)
  OBVIOUS
<1>2. Offset(s \o t, Len(s) + Len(t)) = Size(s) + Offset(t, Len(t))
  BY <1>1, OffsetBehind
<1>. QED
  BY <1>1, <1>2 DEF Size

-----------------------------------------------------------------------------
(* Sequences of fields and their sizes.                                    *)

Positive == Nat \ {0}

\* s are fields of n bytes together.
Fields(s, n) == s \in Seq(Positive) /\ Size(s) = n

LEMMA PositiveWidth == \A w \in Positive : w \in Int /\ Width(w) = w
BY DEF Positive, Width

LEMMA PositiveFields == ASSUME NEW s \in Seq(Positive) PROVE s \in Seq(Int)
<1>1. Len(s) \in Nat /\ s = [i \in 1..Len(s) |-> s[i]]
  OBVIOUS
<1>2. \A i \in 1..Len(s) : s[i] \in Int
  BY DEF Positive
<1>. QED
  BY <1>1, <1>2

LEMMA FieldsConcat ==
  ASSUME NEW s, NEW m, Fields(s, m), NEW t, NEW n, Fields(t, n)
  PROVE  Fields(s \o t, m + n)
<1>1. s \in Seq(Positive) /\ t \in Seq(Positive)
  BY DEF Fields
<1>2. s \in Seq(Int) /\ t \in Seq(Int)
  BY <1>1, PositiveFields
<1>3. Size(s \o t) = Size(s) + Size(t)
  BY <1>2, SizeConcat
<1>4. s \o t \in Seq(Positive)
  <2> HIDE DEF Positive
  <2>. QED
    BY <1>1
<1>. QED
  BY <1>3, <1>4 DEF Fields

LEMMA FieldsConcat3 ==
  ASSUME NEW s, NEW m, Fields(s, m), NEW t, NEW n, Fields(t, n), NEW u, NEW k, Fields(u, k)
  PROVE  Fields(s \o t \o u, m + n + k)
BY FieldsConcat, Zenon

LEMMA FieldsConcat4 ==
  ASSUME NEW s, NEW m, Fields(s, m), NEW t, NEW n, Fields(t, n), NEW u, NEW k, Fields(u, k),
         NEW v, NEW l, Fields(v, l)
  PROVE  Fields(s \o t \o u \o v, m + n + k + l)
BY FieldsConcat, Zenon

LEMMA PositiveElements == ASSUME NEW s \in Seq(Positive) PROVE \A i \in 1..Len(s) : s[i] \in Nat
<1>1. \A i \in 1..Len(s) : s[i] \in Positive
  BY ElementOfSeq
<1>. QED
  BY <1>1 DEF Positive

\* Field after field.
LEMMA NextField ==
  ASSUME NEW s \in Seq(Positive)
  PROVE  /\ Offset(s, 0) = 0
         /\ \A j, k \in Nat : k = j + 1 /\ k <= Len(s) =>
              Offset(s, k) = Offset(s, j) + s[k] /\ Offset(s, j) \in Nat
<1>1. s \in Seq(Int)
  BY PositiveFields
<1>2. ASSUME NEW j \in Nat, j + 1 <= Len(s)
      PROVE  Offset(s, j + 1) = Offset(s, j) + s[j + 1] /\ Offset(s, j) \in Nat
  <2>1. s[j + 1] \in Positive /\ j \in 0..(Len(s) - 1) /\ j \in 0..Len(s)
    BY <1>2
  <2>. QED
    BY <1>1, <2>1, OffsetNext, PositiveWidth
<1>. QED
  BY <1>1, <1>2, OffsetNext

LEMMA FieldsOf1 ==
  ASSUME NEW s \in Seq(Positive), Len(s) = 1
  PROVE  Fields(s, s[1])
<1>1. /\ Offset(s, 0) = 0
      /\ \A j, k \in Nat : k = j + 1 /\ k <= 1 => Offset(s, k) = Offset(s, j) + s[k]
  BY NextField
<1>2. Offset(s, 1) = Offset(s, 0) + s[1]
  BY <1>1
<1>3. \A i \in 1..1 : s[i] \in Nat
  BY PositiveElements
<1>. QED
  BY <1>1, <1>2, <1>3 DEF Fields, Size

LEMMA FieldsOf2 ==
  ASSUME NEW s \in Seq(Positive), Len(s) = 2
  PROVE  Fields(s, s[1] + s[2])
<1>1. /\ Offset(s, 0) = 0
      /\ \A j, k \in Nat : k = j + 1 /\ k <= 2 => Offset(s, k) = Offset(s, j) + s[k]
  BY NextField
<1>2. /\ Offset(s, 1) = Offset(s, 0) + s[1] /\ Offset(s, 2) = Offset(s, 1) + s[2]
  BY <1>1
<1>3. \A i \in 1..2 : s[i] \in Nat
  BY PositiveElements
<1>. QED
  BY <1>1, <1>2, <1>3 DEF Fields, Size

LEMMA FieldsOf3 ==
  ASSUME NEW s \in Seq(Positive), Len(s) = 3
  PROVE  Fields(s, s[1] + s[2] + s[3])
<1>1. /\ Offset(s, 0) = 0
      /\ \A j, k \in Nat : k = j + 1 /\ k <= 3 => Offset(s, k) = Offset(s, j) + s[k]
  BY NextField
<1>2. /\ Offset(s, 1) = Offset(s, 0) + s[1] /\ Offset(s, 2) = Offset(s, 1) + s[2]
      /\ Offset(s, 3) = Offset(s, 2) + s[3]
  BY <1>1
<1>3. \A i \in 1..3 : s[i] \in Nat
  BY PositiveElements
<1>. QED
  BY <1>1, <1>2, <1>3 DEF Fields, Size

LEMMA FieldsOf4 ==
  ASSUME NEW s \in Seq(Positive), Len(s) = 4
  PROVE  Fields(s, s[1] + s[2] + s[3] + s[4])
<1>1. /\ Offset(s, 0) = 0
      /\ \A j, k \in Nat : k = j + 1 /\ k <= 4 => Offset(s, k) = Offset(s, j) + s[k]
  BY NextField
<1>2. /\ Offset(s, 1) = Offset(s, 0) + s[1] /\ Offset(s, 2) = Offset(s, 1) + s[2]
      /\ Offset(s, 3) = Offset(s, 2) + s[3] /\ Offset(s, 4) = Offset(s, 3) + s[4]
  BY <1>1
<1>3. \A i \in 1..4 : s[i] \in Nat
  BY PositiveElements
<1>. QED
  BY <1>1, <1>2, <1>3 DEF Fields, Size

LEMMA FieldsOf5 ==
  ASSUME NEW s \in Seq(Positive), Len(s) = 5
  PROVE  Fields(s, s[1] + s[2] + s[3] + s[4] + s[5])
<1>1. /\ Offset(s, 0) = 0
      /\ \A j, k \in Nat : k = j + 1 /\ k <= 5 => Offset(s, k) = Offset(s, j) + s[k]
  BY NextField
<1>2. /\ Offset(s, 1) = Offset(s, 0) + s[1] /\ Offset(s, 2) = Offset(s, 1) + s[2]
      /\ Offset(s, 3) = Offset(s, 2) + s[3] /\ Offset(s, 4) = Offset(s, 3) + s[4]
      /\ Offset(s, 5) = Offset(s, 4) + s[5]
  BY <1>1
<1>3. \A i \in 1..5 : s[i] \in Nat
  BY PositiveElements
<1>. QED
  BY <1>1, <1>2, <1>3 DEF Fields, Size

LEMMA FieldsOf6 ==
  ASSUME NEW s \in Seq(Positive), Len(s) = 6
  PROVE  Fields(s, s[1] + s[2] + s[3] + s[4] + s[5] + s[6])
<1>1. /\ Offset(s, 0) = 0
      /\ \A j, k \in Nat : k = j + 1 /\ k <= 6 => Offset(s, k) = Offset(s, j) + s[k]
  BY NextField
<1>2. /\ Offset(s, 1) = Offset(s, 0) + s[1] /\ Offset(s, 2) = Offset(s, 1) + s[2]
      /\ Offset(s, 3) = Offset(s, 2) + s[3] /\ Offset(s, 4) = Offset(s, 3) + s[4]
      /\ Offset(s, 5) = Offset(s, 4) + s[5] /\ Offset(s, 6) = Offset(s, 5) + s[6]
  BY <1>1
<1>3. \A i \in 1..6 : s[i] \in Nat
  BY PositiveElements
<1>. QED
  BY <1>1, <1>2, <1>3 DEF Fields, Size

LEMMA FieldsOf7 ==
  ASSUME NEW s \in Seq(Positive), Len(s) = 7
  PROVE  Fields(s, s[1] + s[2] + s[3] + s[4] + s[5] + s[6] + s[7])
<1>1. /\ Offset(s, 0) = 0
      /\ \A j, k \in Nat : k = j + 1 /\ k <= 7 => Offset(s, k) = Offset(s, j) + s[k]
  BY NextField
<1>2. /\ Offset(s, 1) = Offset(s, 0) + s[1] /\ Offset(s, 2) = Offset(s, 1) + s[2]
      /\ Offset(s, 3) = Offset(s, 2) + s[3] /\ Offset(s, 4) = Offset(s, 3) + s[4]
      /\ Offset(s, 5) = Offset(s, 4) + s[5] /\ Offset(s, 6) = Offset(s, 5) + s[6]
      /\ Offset(s, 7) = Offset(s, 6) + s[7]
  BY <1>1
<1>3. \A i \in 1..7 : s[i] \in Nat
  BY PositiveElements
<1>. QED
  BY <1>1, <1>2, <1>3 DEF Fields, Size

LEMMA FieldsOf8 ==
  ASSUME NEW s \in Seq(Positive), Len(s) = 8
  PROVE  Fields(s, s[1] + s[2] + s[3] + s[4] + s[5] + s[6] + s[7] + s[8])
<1>1. /\ Offset(s, 0) = 0
      /\ \A j, k \in Nat : k = j + 1 /\ k <= 8 => Offset(s, k) = Offset(s, j) + s[k]
  BY NextField
<1>2. /\ Offset(s, 1) = Offset(s, 0) + s[1] /\ Offset(s, 2) = Offset(s, 1) + s[2]
      /\ Offset(s, 3) = Offset(s, 2) + s[3] /\ Offset(s, 4) = Offset(s, 3) + s[4]
      /\ Offset(s, 5) = Offset(s, 4) + s[5] /\ Offset(s, 6) = Offset(s, 5) + s[6]
      /\ Offset(s, 7) = Offset(s, 6) + s[7] /\ Offset(s, 8) = Offset(s, 7) + s[8]
  BY <1>1
<1>3. \A i \in 1..8 : s[i] \in Nat
  BY PositiveElements
<1>. QED
  BY <1>1, <1>2, <1>3 DEF Fields, Size

LEMMA FieldsOf9 ==
  ASSUME NEW s \in Seq(Positive), Len(s) = 9
  PROVE  Fields(s, s[1] + s[2] + s[3] + s[4] + s[5] + s[6] + s[7] + s[8] + s[9])
<1>1. /\ Offset(s, 0) = 0
      /\ \A j, k \in Nat : k = j + 1 /\ k <= 9 => Offset(s, k) = Offset(s, j) + s[k]
  BY NextField
<1>2. /\ Offset(s, 1) = Offset(s, 0) + s[1] /\ Offset(s, 2) = Offset(s, 1) + s[2]
      /\ Offset(s, 3) = Offset(s, 2) + s[3] /\ Offset(s, 4) = Offset(s, 3) + s[4]
      /\ Offset(s, 5) = Offset(s, 4) + s[5] /\ Offset(s, 6) = Offset(s, 5) + s[6]
      /\ Offset(s, 7) = Offset(s, 6) + s[7] /\ Offset(s, 8) = Offset(s, 7) + s[8]
      /\ Offset(s, 9) = Offset(s, 8) + s[9]
  BY <1>1
<1>3. \A i \in 1..9 : s[i] \in Nat
  BY PositiveElements
<1>. QED
  BY <1>1, <1>2, <1>3 DEF Fields, Size

LEMMA FieldsOf13 ==
  ASSUME NEW s \in Seq(Positive), Len(s) = 13
  PROVE  Fields(s, s[1] + s[2] + s[3] + s[4] + s[5] + s[6] + s[7] + s[8] + s[9] + s[10] +
            s[11] + s[12] + s[13])
<1>1. /\ Offset(s, 0) = 0
      /\ \A j, k \in Nat : k = j + 1 /\ k <= 13 => Offset(s, k) = Offset(s, j) + s[k]
  BY NextField
<1>2. /\ Offset(s, 1) = Offset(s, 0) + s[1] /\ Offset(s, 2) = Offset(s, 1) + s[2]
      /\ Offset(s, 3) = Offset(s, 2) + s[3] /\ Offset(s, 4) = Offset(s, 3) + s[4]
      /\ Offset(s, 5) = Offset(s, 4) + s[5] /\ Offset(s, 6) = Offset(s, 5) + s[6]
      /\ Offset(s, 7) = Offset(s, 6) + s[7] /\ Offset(s, 8) = Offset(s, 7) + s[8]
      /\ Offset(s, 9) = Offset(s, 8) + s[9] /\ Offset(s, 10) = Offset(s, 9) + s[10]
      /\ Offset(s, 11) = Offset(s, 10) + s[11] /\ Offset(s, 12) = Offset(s, 11) + s[12]
      /\ Offset(s, 13) = Offset(s, 12) + s[13]
  BY <1>1
<1>3. \A i \in 1..13 : s[i] \in Nat
  BY PositiveElements
<1>. QED
  BY <1>1, <1>2, <1>3 DEF Fields, Size

LEMMA FieldsOf15 ==
  ASSUME NEW s \in Seq(Positive), Len(s) = 15
  PROVE  Fields(s, s[1] + s[2] + s[3] + s[4] + s[5] + s[6] + s[7] + s[8] + s[9] + s[10] +
            s[11] + s[12] + s[13] + s[14] + s[15])
<1>1. /\ Offset(s, 0) = 0
      /\ \A j, k \in Nat : k = j + 1 /\ k <= 15 => Offset(s, k) = Offset(s, j) + s[k]
  BY NextField
<1>2. /\ Offset(s, 1) = Offset(s, 0) + s[1] /\ Offset(s, 2) = Offset(s, 1) + s[2]
      /\ Offset(s, 3) = Offset(s, 2) + s[3] /\ Offset(s, 4) = Offset(s, 3) + s[4]
      /\ Offset(s, 5) = Offset(s, 4) + s[5] /\ Offset(s, 6) = Offset(s, 5) + s[6]
      /\ Offset(s, 7) = Offset(s, 6) + s[7] /\ Offset(s, 8) = Offset(s, 7) + s[8]
      /\ Offset(s, 9) = Offset(s, 8) + s[9] /\ Offset(s, 10) = Offset(s, 9) + s[10]
      /\ Offset(s, 11) = Offset(s, 10) + s[11] /\ Offset(s, 12) = Offset(s, 11) + s[12]
      /\ Offset(s, 13) = Offset(s, 12) + s[13] /\ Offset(s, 14) = Offset(s, 13) + s[14]
      /\ Offset(s, 15) = Offset(s, 14) + s[15]
  BY <1>1
<1>3. \A i \in 1..15 : s[i] \in Nat
  BY PositiveElements
<1>. QED
  BY <1>1, <1>2, <1>3 DEF Fields, Size

LEMMA FieldsOf16 ==
  ASSUME NEW s \in Seq(Positive), Len(s) = 16
  PROVE  Fields(s, s[1] + s[2] + s[3] + s[4] + s[5] + s[6] + s[7] + s[8] + s[9] + s[10] +
            s[11] + s[12] + s[13] + s[14] + s[15] + s[16])
<1>1. /\ Offset(s, 0) = 0
      /\ \A j, k \in Nat : k = j + 1 /\ k <= 16 => Offset(s, k) = Offset(s, j) + s[k]
  BY NextField
<1>2. /\ Offset(s, 1) = Offset(s, 0) + s[1] /\ Offset(s, 2) = Offset(s, 1) + s[2]
      /\ Offset(s, 3) = Offset(s, 2) + s[3] /\ Offset(s, 4) = Offset(s, 3) + s[4]
      /\ Offset(s, 5) = Offset(s, 4) + s[5] /\ Offset(s, 6) = Offset(s, 5) + s[6]
      /\ Offset(s, 7) = Offset(s, 6) + s[7] /\ Offset(s, 8) = Offset(s, 7) + s[8]
      /\ Offset(s, 9) = Offset(s, 8) + s[9] /\ Offset(s, 10) = Offset(s, 9) + s[10]
      /\ Offset(s, 11) = Offset(s, 10) + s[11] /\ Offset(s, 12) = Offset(s, 11) + s[12]
      /\ Offset(s, 13) = Offset(s, 12) + s[13] /\ Offset(s, 14) = Offset(s, 13) + s[14]
      /\ Offset(s, 15) = Offset(s, 14) + s[15] /\ Offset(s, 16) = Offset(s, 15) + s[16]
  BY <1>1
<1>3. \A i \in 1..16 : s[i] \in Nat
  BY PositiveElements
<1>. QED
  BY <1>1, <1>2, <1>3 DEF Fields, Size

LEMMA FieldsOf24 ==
  ASSUME NEW s \in Seq(Positive), Len(s) = 24
  PROVE  Fields(s, s[1] + s[2] + s[3] + s[4] + s[5] + s[6] + s[7] + s[8] + s[9] + s[10] +
            s[11] + s[12] + s[13] + s[14] + s[15] + s[16] + s[17] + s[18] + s[19] + s[20] +
            s[21] + s[22] + s[23] + s[24])
<1>1. /\ Offset(s, 0) = 0
      /\ \A j, k \in Nat : k = j + 1 /\ k <= 24 => Offset(s, k) = Offset(s, j) + s[k]
  BY NextField
<1>2. /\ Offset(s, 1) = Offset(s, 0) + s[1] /\ Offset(s, 2) = Offset(s, 1) + s[2]
      /\ Offset(s, 3) = Offset(s, 2) + s[3] /\ Offset(s, 4) = Offset(s, 3) + s[4]
      /\ Offset(s, 5) = Offset(s, 4) + s[5] /\ Offset(s, 6) = Offset(s, 5) + s[6]
      /\ Offset(s, 7) = Offset(s, 6) + s[7] /\ Offset(s, 8) = Offset(s, 7) + s[8]
      /\ Offset(s, 9) = Offset(s, 8) + s[9] /\ Offset(s, 10) = Offset(s, 9) + s[10]
      /\ Offset(s, 11) = Offset(s, 10) + s[11] /\ Offset(s, 12) = Offset(s, 11) + s[12]
      /\ Offset(s, 13) = Offset(s, 12) + s[13] /\ Offset(s, 14) = Offset(s, 13) + s[14]
      /\ Offset(s, 15) = Offset(s, 14) + s[15] /\ Offset(s, 16) = Offset(s, 15) + s[16]
      /\ Offset(s, 17) = Offset(s, 16) + s[17] /\ Offset(s, 18) = Offset(s, 17) + s[18]
      /\ Offset(s, 19) = Offset(s, 18) + s[19] /\ Offset(s, 20) = Offset(s, 19) + s[20]
      /\ Offset(s, 21) = Offset(s, 20) + s[21] /\ Offset(s, 22) = Offset(s, 21) + s[22]
      /\ Offset(s, 23) = Offset(s, 22) + s[23] /\ Offset(s, 24) = Offset(s, 23) + s[24]
  BY <1>1
<1>3. \A i \in 1..24 : s[i] \in Nat
  BY PositiveElements
<1>4. Offset(s, 12) = s[1] + s[2] + s[3] + s[4] + s[5] + s[6] + s[7] + s[8] + s[9] + s[10] + s[11] +
        s[12]
  BY <1>1, <1>2, <1>3
<1>. QED
  BY <1>1, <1>2, <1>3, <1>4 DEF Fields, Size

\* An array of a record: element by element, and one element more.
LEMMA TimesElements ==
  ASSUME NEW S, NEW s \in Seq(S), s # <<>>, NEW n \in Nat
  PROVE  /\ Times(n, s) \in Seq(S) /\ Len(Times(n, s)) = n * Len(s)
         /\ \A k \in 1..(n * Len(s)) : Times(n, s)[k] = s[((k - 1) % Len(s)) + 1]
<1> DEFINE l == Len(s)
<1>1. l \in Nat \ {0} /\ n * l \in Nat
  BY EmptySeq
<1>2. ASSUME NEW k \in 1..(n * l) PROVE s[((k - 1) % l) + 1] \in S
  <2>1. k - 1 \in Nat
    BY <1>1
  <2>2. (k - 1) % l \in Nat /\ (k - 1) % l < l
    BY <1>1, <2>1, Division
  <2>3. ((k - 1) % l) + 1 \in 1..Len(s)
    BY <1>1, <2>2
  <2>. QED
    BY <2>3
<1>3. Times(n, s) = [k \in 1..(n * l) |-> s[((k - 1) % l) + 1]]
  BY DEF Times
<1> HIDE DEF l
<1>. QED
  BY <1>1, <1>2, <1>3 DEF l

LEMMA TimesNext ==
  ASSUME NEW S, NEW s \in Seq(S), s # <<>>, NEW n \in Nat
  PROVE  Times(n + 1, s) = Times(n, s) \o s
<1> DEFINE l == Len(s)
           m == n * l
           t == Times(n, s)
           u == Times(n + 1, s)
<1>1. l \in Nat \ {0} /\ m \in Nat /\ (n + 1) * l = m + l
  <2>1. l \in Nat \ {0}
    BY EmptySeq
  <2>. QED
    BY <2>1
<1>2. /\ t \in Seq(S) /\ Len(t) = m
      /\ \A k \in 1..m : t[k] = s[((k - 1) % l) + 1]
  BY TimesElements
<1>3. /\ u \in Seq(S) /\ Len(u) = m + l
      /\ \A k \in 1..(m + l) : u[k] = s[((k - 1) % l) + 1]
  <2>1. n + 1 \in Nat
    OBVIOUS
  <2>2. /\ u \in Seq(S) /\ Len(u) = (n + 1) * l
        /\ \A k \in 1..((n + 1) * l) : u[k] = s[((k - 1) % l) + 1]
    BY <2>1, TimesElements
  <2> HIDE DEF u, l, m
  <2>. QED
    BY <1>1, <2>2
<1>4. ASSUME NEW k \in 1..l PROVE u[m + k] = s[k]
  <2>1. k - 1 \in Nat /\ k - 1 < l /\ m + k \in 1..(m + l) /\ (m + k) - 1 = n * l + (k - 1) /\ (m + k) - 1 \in Int
    BY <1>1
  <2>2. ((m + k) - 1) % l = k - 1
    <3>1. n \in Int /\ k - 1 \in Nat
      BY <2>1
    <3> HIDE DEF l, m
    <3>. QED
      BY <1>1, <2>1, <3>1, RemainderIs
  <2>3. (k - 1) + 1 = k
    OBVIOUS
  <2>. QED
    BY <1>3, <2>1, <2>2, <2>3
<1>5. /\ t \o s \in Seq(S) /\ Len(t \o s) = m + l
      /\ \A k \in 1..m : (t \o s)[k] = t[k]
      /\ \A k \in 1..l : (t \o s)[m + k] = s[k]
  <2>1. Len(s) = l
    OBVIOUS
  <2> HIDE DEF l, m, t
  <2>2. /\ t \o s \in Seq(S) /\ Len(t \o s) = m + l
        /\ \A i \in 1..(m + l) : (t \o s)[i] = IF i <= m THEN t[i] ELSE s[i - m]
    BY <1>2, <2>1, ConcatProperties
  <2>. QED
    BY <1>1, <2>2
<1> HIDE DEF l, m, t, u
<1>6. ASSUME NEW k \in 1..(m + l) PROVE u[k] = (t \o s)[k]
  <2>1. CASE k <= m
    <3>1. k \in 1..m
      BY <1>1, <2>1
    <3>. QED
      BY <1>2, <1>3, <1>5, <3>1
  <2>2. CASE ~(k <= m)
    <3>1. k - m \in 1..l /\ m + (k - m) = k
      BY <1>1, <2>2
    <3>. QED
      BY <1>4, <1>5, <3>1
  <2>. QED
    BY <2>1, <2>2
<1>7. u = t \o s
  BY <1>3, <1>5, <1>6, SeqEqual
<1>. QED
  BY <1>7 DEF t, u

LEMMA FieldsTimes ==
  ASSUME NEW s, NEW m \in Positive, Fields(s, m), NEW n \in Nat
  PROVE  Fields(Times(n, s), n * m)
<1> DEFINE T == {k \in 0..n : Fields(Times(k, s), k * m)}
<1>0. m \in Nat /\ m # 0 /\ s \in Seq(Positive) /\ s # <<>>
  <2>1. s \in Seq(Positive) /\ Size(s) = m /\ m \in Nat \ {0}
    BY DEF Fields, Positive
  <2>2. Len(s) = 0 => Size(s) = 0
    BY <2>1, NextField DEF Size
  <2>. QED
    BY <2>1, <2>2, EmptySeq
<1>1. 0 \in T
  <2>1. Times(0, s) \in Seq(Positive) /\ Len(Times(0, s)) = 0
    BY <1>0, TimesElements
  <2>2. Size(Times(0, s)) = 0
    BY <2>1, NextField DEF Size
  <2>3. 0 * m = 0
    BY <1>0
  <2>. QED
    BY <2>1, <2>2, <2>3 DEF Fields
<1>2. ASSUME NEW i \in 1..n, i - 1 \in T PROVE i \in T
  <2>1. i - 1 \in Nat /\ (i - 1) + 1 = i /\ (i - 1) * m + m = i * m
    BY <1>0
  <2>2. Fields(Times(i - 1, s), (i - 1) * m)
    BY <1>2
  <2>3. Times(i, s) = Times(i - 1, s) \o s
    BY <1>0, <2>1, TimesNext
  <2>4. Fields(Times(i, s), (i - 1) * m + m)
    BY <1>0, <2>2, <2>3, FieldsConcat DEF Fields
  <2>. QED
    BY <2>1, <2>4
<1> HIDE DEF T
<1>3. \A i \in 0..n : i \in T
  BY <1>1, <1>2, UpTo
<1>. QED
  BY <1>3 DEF T

-----------------------------------------------------------------------------
(* The sizes of the structures.                                            *)

LEMMA ObjectSizes ==
  /\ Fields(ObjPhysT, 32)
  /\ Fields(Prange, 16)
  /\ Fields(NlocT, 4)
  /\ Fields(BtreeNodePhysT, 56)
  /\ Fields(BtreeInfoFixedT, 16)
  /\ Fields(BtreeInfoT, 40)
  /\ Fields(OmapKeyT, 16)
  /\ Fields(OmapPhysT, 88)
<1>0. 2 \in Positive /\ 4 \in Positive /\ 8 \in Positive
  BY DEF Positive
<1>1. Fields(ObjPhysT, 32)
  <2> DEFINE s == <<8, 8, 8, 4, 4>>
  <2>1. s \in Seq(Positive) /\ Len(s) = 5
    BY <1>0
  <2>2. s[1] + s[2] + s[3] + s[4] + s[5] = 32
    OBVIOUS
  <2> HIDE DEF s
  <2>3. Fields(s, 32)
    BY <2>1, <2>2, FieldsOf5
  <2>. QED
    BY <2>3 DEF s, ObjPhysT
<1>2. Fields(Prange, 16)
  <2> DEFINE s == <<8, 8>>
  <2>1. s \in Seq(Positive) /\ Len(s) = 2
    BY <1>0
  <2>2. s[1] + s[2] = 16
    OBVIOUS
  <2> HIDE DEF s
  <2>3. Fields(s, 16)
    BY <2>1, <2>2, FieldsOf2
  <2>. QED
    BY <2>3 DEF s, Prange
<1>3. Fields(NlocT, 4)
  <2> DEFINE s == <<2, 2>>
  <2>1. s \in Seq(Positive) /\ Len(s) = 2
    BY <1>0
  <2>2. s[1] + s[2] = 4
    OBVIOUS
  <2> HIDE DEF s
  <2>3. Fields(s, 4)
    BY <2>1, <2>2, FieldsOf2
  <2>. QED
    BY <2>3 DEF s, NlocT
<1>4. Fields(<<2, 2, 4>>, 8)
  <2> DEFINE s == <<2, 2, 4>>
  <2>1. s \in Seq(Positive) /\ Len(s) = 3
    BY <1>0
  <2>2. s[1] + s[2] + s[3] = 8
    OBVIOUS
  <2> HIDE DEF s
  <2>3. Fields(s, 8)
    BY <2>1, <2>2, FieldsOf3
  <2>. QED
    BY <2>3 DEF s
<1>5. Fields(Times(4, NlocT), 16)
  <2>1. Fields(Times(4, NlocT), 4 * 4)
    BY <1>0, <1>3, FieldsTimes
  <2>. QED
    BY <2>1
<1>6. Fields(BtreeNodePhysT, 56)
  <2>1. Fields(BtreeNodePhysT, 32 + 8 + 16)
    BY <1>1, <1>4, <1>5, FieldsConcat3, Zenon DEF BtreeNodePhysT
  <2>. QED
    BY <2>1
<1>7. Fields(BtreeInfoFixedT, 16)
  <2> DEFINE s == <<4, 4, 4, 4>>
  <2>1. s \in Seq(Positive) /\ Len(s) = 4
    BY <1>0
  <2>2. s[1] + s[2] + s[3] + s[4] = 16
    OBVIOUS
  <2> HIDE DEF s
  <2>3. Fields(s, 16)
    BY <2>1, <2>2, FieldsOf4
  <2>. QED
    BY <2>3 DEF s, BtreeInfoFixedT
<1>8. Fields(<<4, 4, 8, 8>>, 24)
  <2> DEFINE s == <<4, 4, 8, 8>>
  <2>1. s \in Seq(Positive) /\ Len(s) = 4
    BY <1>0
  <2>2. s[1] + s[2] + s[3] + s[4] = 24
    OBVIOUS
  <2> HIDE DEF s
  <2>3. Fields(s, 24)
    BY <2>1, <2>2, FieldsOf4
  <2>. QED
    BY <2>3 DEF s
<1>9. Fields(BtreeInfoT, 40)
  <2>1. Fields(BtreeInfoT, 16 + 24)
    BY <1>7, <1>8, FieldsConcat, Zenon DEF BtreeInfoT
  <2>. QED
    BY <2>1
<1>10. Fields(OmapKeyT, 16)
  <2> DEFINE s == <<8, 8>>
  <2>1. s \in Seq(Positive) /\ Len(s) = 2
    BY <1>0
  <2>2. s[1] + s[2] = 16
    OBVIOUS
  <2> HIDE DEF s
  <2>3. Fields(s, 16)
    BY <2>1, <2>2, FieldsOf2
  <2>. QED
    BY <2>3 DEF s, OmapKeyT
<1>11. Fields(<<4, 4, 4, 4, 8, 8, 8, 8, 8>>, 56)
  <2> DEFINE s == <<4, 4, 4, 4, 8, 8, 8, 8, 8>>
  <2>1. s \in Seq(Positive) /\ Len(s) = 9
    BY <1>0
  <2>2. s[1] + s[2] + s[3] + s[4] + s[5] + s[6] + s[7] + s[8] + s[9] = 56
    OBVIOUS
  <2> HIDE DEF s
  <2>3. Fields(s, 56)
    BY <2>1, <2>2, FieldsOf9
  <2>. QED
    BY <2>3 DEF s
<1>12. Fields(OmapPhysT, 88)
  <2>1. Fields(OmapPhysT, 32 + 56)
    BY <1>1, <1>11, FieldsConcat, Zenon DEF OmapPhysT
  <2>. QED
    BY <2>1
<1>. QED
  BY <1>1, <1>2, <1>3, <1>6, <1>7, <1>9, <1>10, <1>12

LEMMA ContainerSizes ==
  /\ Fields(parseContainerSuperblock.layout, 1392)
  /\ Fields(NxSuperblockT, 1408)
  /\ Fields(CheckpointMappingT, 40)
  /\ Fields(CheckpointMapPhysT, 40)
  /\ Fields(EvictMappingValT, 16)
<1>0. 4 \in Positive /\ 8 \in Positive /\ 16 \in Positive
  BY DEF Positive
<1>1. Fields(<<4, 4, 8, 8, 8, 8, 16, 8, 8, 4, 4, 8, 8, 4, 4, 4, 4, 4, 4, 8, 8, 8, 4, 4>>, 152)
  <2> DEFINE s == <<4, 4, 8, 8, 8, 8, 16, 8, 8, 4, 4, 8, 8, 4, 4, 4, 4, 4, 4, 8, 8, 8, 4, 4>>
  <2>1. s \in Seq(Positive) /\ Len(s) = 24
    BY <1>0
  <2>2. s[1] + s[2] + s[3] + s[4] + s[5] + s[6] + s[7] + s[8] + s[9] + s[10] + s[11] + s[12] +
        s[13] + s[14] + s[15] + s[16] + s[17] + s[18] + s[19] + s[20] + s[21] + s[22] + s[23] +
        s[24] = 152
    OBVIOUS
  <2> HIDE DEF s
  <2>3. Fields(s, 152)
    BY <2>1, <2>2, FieldsOf24
  <2>. QED
    BY <2>3 DEF s
<1>2. Fields(<<8>>, 8)
  <2> DEFINE s == <<8>>
  <2>1. s \in Seq(Positive) /\ Len(s) = 1
    BY <1>0
  <2>2. s[1] = 8
    OBVIOUS
  <2> HIDE DEF s
  <2>3. Fields(s, 8)
    BY <2>1, <2>2, FieldsOf1
  <2>. QED
    BY <2>3 DEF s
<1>3. Fields(Times(NxMaxFileSystems, <<8>>), 800)
  <2>1. Fields(Times(NxMaxFileSystems, <<8>>), 100 * 8)
    BY <1>0, <1>2, FieldsTimes DEF NxMaxFileSystems
  <2>. QED
    BY <2>1
<1>4. Fields(Times(NxNumCounters, <<8>>), 256)
  <2>1. Fields(Times(NxNumCounters, <<8>>), 32 * 8)
    BY <1>0, <1>2, FieldsTimes DEF NxNumCounters
  <2>. QED
    BY <2>1
<1>5. Fields(<<8, 8, 8, 16>>, 40)
  <2> DEFINE s == <<8, 8, 8, 16>>
  <2>1. s \in Seq(Positive) /\ Len(s) = 4
    BY <1>0
  <2>2. s[1] + s[2] + s[3] + s[4] = 40
    OBVIOUS
  <2> HIDE DEF s
  <2>3. Fields(s, 40)
    BY <2>1, <2>2, FieldsOf4
  <2>. QED
    BY <2>3 DEF s
<1>6. Fields(Times(NxEphInfoCount, <<8>>), 32)
  <2>1. Fields(Times(NxEphInfoCount, <<8>>), 4 * 8)
    BY <1>0, <1>2, FieldsTimes DEF NxEphInfoCount
  <2>. QED
    BY <2>1
<1>7. Fields(<<8, 8, 8>>, 24)
  <2> DEFINE s == <<8, 8, 8>>
  <2>1. s \in Seq(Positive) /\ Len(s) = 3
    BY <1>0
  <2>2. s[1] + s[2] + s[3] = 24
    OBVIOUS
  <2> HIDE DEF s
  <2>3. Fields(s, 24)
    BY <2>1, <2>2, FieldsOf3
  <2>. QED
    BY <2>3 DEF s
<1>8. Fields(parseContainerSuperblock.layout, 1392)
  <2> DEFINE s1 == <<4, 4, 8, 8, 8, 8, 16, 8, 8, 4, 4, 8, 8, 4, 4, 4, 4, 4, 4, 8, 8, 8, 4, 4>>
             s2 == Times(NxMaxFileSystems, <<8>>)
             s3 == Times(NxNumCounters, <<8>>)
             s4 == <<8, 8, 8, 16>>
             s5 == Times(NxEphInfoCount, <<8>>)
             s6 == <<8, 8, 8>>
             s7 == <<8>>
  <2>1. Fields(s1, 152) /\ Fields(s2, 800) /\ Fields(s3, 256) /\ Fields(s4, 40) /\
        Fields(s5, 32) /\ Fields(s6, 24) /\ Fields(s7, 8)
    BY <1>1, <1>3, <1>4, <1>5, <1>6, <1>7, <1>2
  <2> HIDE DEF s1, s2, s3, s4, s5, s6, s7
  <2> DEFINE t1 == ObjPhysT \o s1 \o s2
  <2>2. Fields(t1, 984)
    <3>1. Fields(ObjPhysT, 32) /\ Fields(s1, 152) /\ Fields(s2, 800)
      BY <2>1, ObjectSizes
    <3>. QED
      BY <3>1, FieldsConcat3
  <2> HIDE DEF t1
  <2> DEFINE t2 == t1 \o s3 \o Prange
  <2>3. Fields(t2, 1256)
    <3>1. Fields(t1, 984) /\ Fields(s3, 256) /\ Fields(Prange, 16)
      BY <2>1, <2>2, ObjectSizes
    <3>. QED
      BY <3>1, FieldsConcat3
  <2> HIDE DEF t2
  <2> DEFINE t3 == t2 \o s4 \o Prange
  <2>4. Fields(t3, 1312)
    <3>1. Fields(t2, 1256) /\ Fields(s4, 40) /\ Fields(Prange, 16)
      BY <2>1, <2>3, ObjectSizes
    <3>. QED
      BY <3>1, FieldsConcat3
  <2> HIDE DEF t3
  <2> DEFINE t4 == t3 \o s5
  <2>5. Fields(t4, 1344)
    <3>1. Fields(t3, 1312) /\ Fields(s5, 32)
      BY <2>1, <2>4
    <3>. QED
      BY <3>1, FieldsConcat
  <2> HIDE DEF t4
  <2> DEFINE t5 == t4 \o s6 \o Prange
  <2>6. Fields(t5, 1384)
    <3>1. Fields(t4, 1344) /\ Fields(s6, 24) /\ Fields(Prange, 16)
      BY <2>1, <2>5, ObjectSizes
    <3>. QED
      BY <3>1, FieldsConcat3
  <2> HIDE DEF t5
  <2> DEFINE t6 == t5 \o s7
  <2>7. Fields(t6, 1392)
    <3>1. Fields(t5, 1384) /\ Fields(s7, 8)
      BY <2>1, <2>6
    <3>. QED
      BY <3>1, FieldsConcat
  <2> HIDE DEF t6
  <2>. QED
    BY <2>7 DEF parseContainerSuperblock, CheckedLast, Checked, Reader, ObjHeader, ObjPhysT,
       Prange, NxMaxFileSystems, NxNumCounters, NxEphInfoCount, s1, s2, s3, s4, s5, s6, s7, t1,
       t2, t3, t4, t5, t6
<1>9. Fields(NxSuperblockT, 1408)
  <2>1. NxSuperblockT = parseContainerSuperblock.layout \o Prange
    BY DEF NxSuperblockT, parseContainerSuperblock, CheckedLast, Checked, Reader, ObjHeader,
       ObjPhysT, Prange, NxMaxFileSystems, NxNumCounters, NxEphInfoCount
  <2>2. Fields(Prange, 16)
    BY ObjectSizes
  <2>. QED
    BY <2>1, <2>2, <1>8, FieldsConcat
<1>10. Fields(CheckpointMappingT, 40)
  <2> DEFINE s == <<4, 4, 4, 4, 8, 8, 8>>
  <2>1. s \in Seq(Positive) /\ Len(s) = 7
    BY <1>0
  <2>2. s[1] + s[2] + s[3] + s[4] + s[5] + s[6] + s[7] = 40
    OBVIOUS
  <2> HIDE DEF s
  <2>3. Fields(s, 40)
    BY <2>1, <2>2, FieldsOf7
  <2>. QED
    BY <2>3 DEF s, CheckpointMappingT
<1>11. Fields(<<4, 4>>, 8)
  <2> DEFINE s == <<4, 4>>
  <2>1. s \in Seq(Positive) /\ Len(s) = 2
    BY <1>0
  <2>2. s[1] + s[2] = 8
    OBVIOUS
  <2> HIDE DEF s
  <2>3. Fields(s, 8)
    BY <2>1, <2>2, FieldsOf2
  <2>. QED
    BY <2>3 DEF s
<1>12. Fields(CheckpointMapPhysT, 40)
  <2>1. Fields(CheckpointMapPhysT, 32 + 8)
    BY ObjectSizes, <1>11, FieldsConcat, Zenon DEF CheckpointMapPhysT
  <2>. QED
    BY <2>1
<1>13. Fields(EvictMappingValT, 16)
  <2> DEFINE s == <<8, 8>>
  <2>1. s \in Seq(Positive) /\ Len(s) = 2
    BY <1>0
  <2>2. s[1] + s[2] = 16
    OBVIOUS
  <2> HIDE DEF s
  <2>3. Fields(s, 16)
    BY <2>1, <2>2, FieldsOf2
  <2>. QED
    BY <2>3 DEF s, EvictMappingValT
<1>. QED
  BY <1>8, <1>9, <1>10, <1>12, <1>13

LEMMA FileSystemSizes ==
  /\ Fields(CompressedDataHeaderT, 16)
  /\ Fields(JKeyT, 8)
  /\ Fields(JPhysExtKeyT, 8)
  /\ Fields(JPhysExtValT, 20)
  /\ Fields(JFileExtentKeyT, 16)
  /\ Fields(JFileExtentValT, 24)
  /\ Fields(JDstreamIdKeyT, 8)
  /\ Fields(JDstreamIdValT, 4)
  /\ Fields(JDstreamT, 40)
  /\ Fields(JXattrDstreamT, 48)
  /\ Fields(JInodeKeyT, 8)
  /\ Fields(JInodeValT, 92)
  /\ Fields(JDrecKeyT, 10)
  /\ Fields(JDrecHashedKeyT, 12)
  /\ Fields(JDrecValT, 18)
  /\ Fields(JDirStatsKeyT, 8)
  /\ Fields(JDirStatsValT, 32)
  /\ Fields(JXattrKeyT, 10)
  /\ Fields(JXattrValT, 4)
  /\ Fields(JSiblingKeyT, 16)
  /\ Fields(JSiblingValT, 10)
  /\ Fields(JSiblingMapKeyT, 8)
  /\ Fields(JSiblingMapValT, 8)
  /\ Fields(JSnapMetadataKeyT, 8)
  /\ Fields(JSnapMetadataValT, 50)
  /\ Fields(JSnapNameKeyT, 10)
  /\ Fields(JSnapNameValT, 8)
  /\ Fields(SnapMetaExtT, 40)
  /\ Fields(NxEfiJumpstartT, 176)
<1>0. 2 \in Positive /\ 4 \in Positive /\ 8 \in Positive /\ 16 \in Positive
  BY DEF Positive
<1>1. Fields(CompressedDataHeaderT, 16)
  <2> DEFINE s == <<4, 4, 8>>
  <2>1. s \in Seq(Positive) /\ Len(s) = 3
    BY <1>0
  <2>2. s[1] + s[2] + s[3] = 16
    OBVIOUS
  <2> HIDE DEF s
  <2>3. Fields(s, 16)
    BY <2>1, <2>2, FieldsOf3
  <2>. QED
    BY <2>3 DEF s, CompressedDataHeaderT
<1>2. Fields(JKeyT, 8)
  <2> DEFINE s == <<8>>
  <2>1. s \in Seq(Positive) /\ Len(s) = 1
    BY <1>0
  <2>2. s[1] = 8
    OBVIOUS
  <2> HIDE DEF s
  <2>3. Fields(s, 8)
    BY <2>1, <2>2, FieldsOf1
  <2>. QED
    BY <2>3 DEF s, JKeyT
<1>3. Fields(JPhysExtKeyT, 8)
  BY <1>2 DEF JPhysExtKeyT
<1>4. Fields(JPhysExtValT, 20)
  <2> DEFINE s == <<8, 8, 4>>
  <2>1. s \in Seq(Positive) /\ Len(s) = 3
    BY <1>0
  <2>2. s[1] + s[2] + s[3] = 20
    OBVIOUS
  <2> HIDE DEF s
  <2>3. Fields(s, 20)
    BY <2>1, <2>2, FieldsOf3
  <2>. QED
    BY <2>3 DEF s, JPhysExtValT
<1>5. Fields(<<8>>, 8)
  BY <1>2 DEF JKeyT
<1>6. Fields(JFileExtentKeyT, 16)
  <2>1. Fields(JFileExtentKeyT, 8 + 8)
    BY <1>2, <1>5, FieldsConcat, Zenon DEF JFileExtentKeyT
  <2>. QED
    BY <2>1
<1>7. Fields(JFileExtentValT, 24)
  <2> DEFINE s == <<8, 8, 8>>
  <2>1. s \in Seq(Positive) /\ Len(s) = 3
    BY <1>0
  <2>2. s[1] + s[2] + s[3] = 24
    OBVIOUS
  <2> HIDE DEF s
  <2>3. Fields(s, 24)
    BY <2>1, <2>2, FieldsOf3
  <2>. QED
    BY <2>3 DEF s, JFileExtentValT
<1>8. Fields(JDstreamIdKeyT, 8)
  BY <1>2 DEF JDstreamIdKeyT
<1>9. Fields(JDstreamIdValT, 4)
  <2> DEFINE s == <<4>>
  <2>1. s \in Seq(Positive) /\ Len(s) = 1
    BY <1>0
  <2>2. s[1] = 4
    OBVIOUS
  <2> HIDE DEF s
  <2>3. Fields(s, 4)
    BY <2>1, <2>2, FieldsOf1
  <2>. QED
    BY <2>3 DEF s, JDstreamIdValT
<1>10. Fields(JDstreamT, 40)
  <2> DEFINE s == <<8, 8, 8, 8, 8>>
  <2>1. s \in Seq(Positive) /\ Len(s) = 5
    BY <1>0
  <2>2. s[1] + s[2] + s[3] + s[4] + s[5] = 40
    OBVIOUS
  <2> HIDE DEF s
  <2>3. Fields(s, 40)
    BY <2>1, <2>2, FieldsOf5
  <2>. QED
    BY <2>3 DEF s, JDstreamT
<1>11. Fields(JXattrDstreamT, 48)
  <2>1. Fields(JXattrDstreamT, 8 + 40)
    BY <1>5, <1>10, FieldsConcat, Zenon DEF JXattrDstreamT
  <2>. QED
    BY <2>1
<1>12. Fields(JInodeKeyT, 8)
  BY <1>2 DEF JInodeKeyT
<1>13. Fields(JInodeValT, 92)
  <2> DEFINE s == <<8, 8, 8, 8, 8, 8, 8, 4, 4, 4, 4, 4, 4, 2, 2, 8>>
  <2>1. s \in Seq(Positive) /\ Len(s) = 16
    BY <1>0
  <2>2. s[1] + s[2] + s[3] + s[4] + s[5] + s[6] + s[7] + s[8] + s[9] + s[10] + s[11] + s[12] +
        s[13] + s[14] + s[15] + s[16] = 92
    OBVIOUS
  <2> HIDE DEF s
  <2>3. Fields(s, 92)
    BY <2>1, <2>2, FieldsOf16
  <2>. QED
    BY <2>3 DEF s, JInodeValT
<1>14. Fields(<<2>>, 2)
  <2> DEFINE s == <<2>>
  <2>1. s \in Seq(Positive) /\ Len(s) = 1
    BY <1>0
  <2>2. s[1] = 2
    OBVIOUS
  <2> HIDE DEF s
  <2>3. Fields(s, 2)
    BY <2>1, <2>2, FieldsOf1
  <2>. QED
    BY <2>3 DEF s
<1>15. Fields(JDrecKeyT, 10)
  <2>1. Fields(JDrecKeyT, 8 + 2)
    BY <1>2, <1>14, FieldsConcat, Zenon DEF JDrecKeyT
  <2>. QED
    BY <2>1
<1>16. Fields(<<4>>, 4)
  BY <1>9 DEF JDstreamIdValT
<1>17. Fields(JDrecHashedKeyT, 12)
  <2>1. Fields(JDrecHashedKeyT, 8 + 4)
    BY <1>2, <1>16, FieldsConcat, Zenon DEF JDrecHashedKeyT
  <2>. QED
    BY <2>1
<1>18. Fields(JDrecValT, 18)
  <2> DEFINE s == <<8, 8, 2>>
  <2>1. s \in Seq(Positive) /\ Len(s) = 3
    BY <1>0
  <2>2. s[1] + s[2] + s[3] = 18
    OBVIOUS
  <2> HIDE DEF s
  <2>3. Fields(s, 18)
    BY <2>1, <2>2, FieldsOf3
  <2>. QED
    BY <2>3 DEF s, JDrecValT
<1>19. Fields(JDirStatsKeyT, 8)
  BY <1>2 DEF JDirStatsKeyT
<1>20. Fields(JDirStatsValT, 32)
  <2> DEFINE s == <<8, 8, 8, 8>>
  <2>1. s \in Seq(Positive) /\ Len(s) = 4
    BY <1>0
  <2>2. s[1] + s[2] + s[3] + s[4] = 32
    OBVIOUS
  <2> HIDE DEF s
  <2>3. Fields(s, 32)
    BY <2>1, <2>2, FieldsOf4
  <2>. QED
    BY <2>3 DEF s, JDirStatsValT
<1>21. Fields(JXattrKeyT, 10)
  <2>1. Fields(JXattrKeyT, 8 + 2)
    BY <1>2, <1>14, FieldsConcat, Zenon DEF JXattrKeyT
  <2>. QED
    BY <2>1
<1>22. Fields(JXattrValT, 4)
  <2> DEFINE s == <<2, 2>>
  <2>1. s \in Seq(Positive) /\ Len(s) = 2
    BY <1>0
  <2>2. s[1] + s[2] = 4
    OBVIOUS
  <2> HIDE DEF s
  <2>3. Fields(s, 4)
    BY <2>1, <2>2, FieldsOf2
  <2>. QED
    BY <2>3 DEF s, JXattrValT
<1>23. Fields(JSiblingKeyT, 16)
  <2>1. Fields(JSiblingKeyT, 8 + 8)
    BY <1>2, <1>5, FieldsConcat, Zenon DEF JSiblingKeyT
  <2>. QED
    BY <2>1
<1>24. Fields(JSiblingValT, 10)
  <2> DEFINE s == <<8, 2>>
  <2>1. s \in Seq(Positive) /\ Len(s) = 2
    BY <1>0
  <2>2. s[1] + s[2] = 10
    OBVIOUS
  <2> HIDE DEF s
  <2>3. Fields(s, 10)
    BY <2>1, <2>2, FieldsOf2
  <2>. QED
    BY <2>3 DEF s, JSiblingValT
<1>25. Fields(JSiblingMapKeyT, 8)
  BY <1>2 DEF JSiblingMapKeyT
<1>26. Fields(JSiblingMapValT, 8)
  BY <1>5 DEF JSiblingMapValT
<1>27. Fields(JSnapMetadataKeyT, 8)
  BY <1>2 DEF JSnapMetadataKeyT
<1>28. Fields(JSnapMetadataValT, 50)
  <2> DEFINE s == <<8, 8, 8, 8, 8, 4, 4, 2>>
  <2>1. s \in Seq(Positive) /\ Len(s) = 8
    BY <1>0
  <2>2. s[1] + s[2] + s[3] + s[4] + s[5] + s[6] + s[7] + s[8] = 50
    OBVIOUS
  <2> HIDE DEF s
  <2>3. Fields(s, 50)
    BY <2>1, <2>2, FieldsOf8
  <2>. QED
    BY <2>3 DEF s, JSnapMetadataValT
<1>29. Fields(JSnapNameKeyT, 10)
  <2>1. Fields(JSnapNameKeyT, 8 + 2)
    BY <1>2, <1>14, FieldsConcat, Zenon DEF JSnapNameKeyT
  <2>. QED
    BY <2>1
<1>30. Fields(JSnapNameValT, 8)
  BY <1>5 DEF JSnapNameValT
<1>31. Fields(SnapMetaExtT, 40)
  <2> DEFINE s == <<4, 4, 8, 16, 8>>
  <2>1. s \in Seq(Positive) /\ Len(s) = 5
    BY <1>0
  <2>2. s[1] + s[2] + s[3] + s[4] + s[5] = 40
    OBVIOUS
  <2> HIDE DEF s
  <2>3. Fields(s, 40)
    BY <2>1, <2>2, FieldsOf5
  <2>. QED
    BY <2>3 DEF s, SnapMetaExtT
<1>32. Fields(<<4, 4, 4, 4>>, 16)
  <2> DEFINE s == <<4, 4, 4, 4>>
  <2>1. s \in Seq(Positive) /\ Len(s) = 4
    BY <1>0
  <2>2. s[1] + s[2] + s[3] + s[4] = 16
    OBVIOUS
  <2> HIDE DEF s
  <2>3. Fields(s, 16)
    BY <2>1, <2>2, FieldsOf4
  <2>. QED
    BY <2>3 DEF s
<1>33. Fields(Times(16, <<8>>), 128)
  <2>1. Fields(Times(16, <<8>>), 16 * 8)
    BY <1>0, <1>5, FieldsTimes
  <2>. QED
    BY <2>1
<1>34. Fields(NxEfiJumpstartT, 176)
  <2>1. Fields(NxEfiJumpstartT, 32 + 16 + 128)
    BY ObjectSizes, <1>32, <1>33, FieldsConcat3, Zenon DEF NxEfiJumpstartT
  <2>. QED
    BY <2>1
<1>. QED
  BY <1>1, <1>2, <1>3, <1>4, <1>6, <1>7, <1>8, <1>9, <1>10, <1>11, <1>12, <1>13, <1>15,
     <1>17, <1>18, <1>19, <1>20, <1>21, <1>22, <1>23, <1>24, <1>25, <1>26, <1>27, <1>28, <1>29,
     <1>30, <1>31, <1>34

LEMMA ReaperSizes ==
  /\ Fields(IntegrityMetaPhysT, 128)
  /\ Fields(FextTreeKeyT, 16)
  /\ Fields(FextTreeValT, 16)
  /\ Fields(JFileInfoKeyT, 16)
  /\ Fields(JFileDataHashValT, 3)
  /\ Fields(NxReaperPhysT, 112)
  /\ Fields(NxReapListPhysT, 64)
  /\ Fields(NxReapListEntryT, 40)
  /\ Fields(OmapReapStateT, 20)
  /\ Fields(OmapCleanupStateT, 56)
  /\ Fields(ApfsReapStateT, 20)
<1>0. 1 \in Positive /\ 2 \in Positive /\ 4 \in Positive /\ 8 \in Positive
  BY DEF Positive
<1>1. Fields(<<4, 4, 4, 4, 8>>, 24)
  <2> DEFINE s == <<4, 4, 4, 4, 8>>
  <2>1. s \in Seq(Positive) /\ Len(s) = 5
    BY <1>0
  <2>2. s[1] + s[2] + s[3] + s[4] + s[5] = 24
    OBVIOUS
  <2> HIDE DEF s
  <2>3. Fields(s, 24)
    BY <2>1, <2>2, FieldsOf5
  <2>. QED
    BY <2>3 DEF s
<1>2. Fields(<<8>>, 8)
  <2> DEFINE s == <<8>>
  <2>1. s \in Seq(Positive) /\ Len(s) = 1
    BY <1>0
  <2>2. s[1] = 8
    OBVIOUS
  <2> HIDE DEF s
  <2>3. Fields(s, 8)
    BY <2>1, <2>2, FieldsOf1
  <2>. QED
    BY <2>3 DEF s
<1>3. Fields(Times(9, <<8>>), 72)
  <2>1. Fields(Times(9, <<8>>), 9 * 8)
    BY <1>0, <1>2, FieldsTimes
  <2>. QED
    BY <2>1
<1>4. Fields(IntegrityMetaPhysT, 128)
  <2>1. Fields(IntegrityMetaPhysT, 32 + 24 + 72)
    BY ObjectSizes, <1>1, <1>3, FieldsConcat3, Zenon DEF IntegrityMetaPhysT
  <2>. QED
    BY <2>1
<1>5. Fields(FextTreeKeyT, 16)
  <2> DEFINE s == <<8, 8>>
  <2>1. s \in Seq(Positive) /\ Len(s) = 2
    BY <1>0
  <2>2. s[1] + s[2] = 16
    OBVIOUS
  <2> HIDE DEF s
  <2>3. Fields(s, 16)
    BY <2>1, <2>2, FieldsOf2
  <2>. QED
    BY <2>3 DEF s, FextTreeKeyT
<1>6. Fields(FextTreeValT, 16)
  <2> DEFINE s == <<8, 8>>
  <2>1. s \in Seq(Positive) /\ Len(s) = 2
    BY <1>0
  <2>2. s[1] + s[2] = 16
    OBVIOUS
  <2> HIDE DEF s
  <2>3. Fields(s, 16)
    BY <2>1, <2>2, FieldsOf2
  <2>. QED
    BY <2>3 DEF s, FextTreeValT
<1>7. Fields(JFileInfoKeyT, 16)
  <2>1. Fields(JFileInfoKeyT, 8 + 8)
    BY FileSystemSizes, <1>2, FieldsConcat, Zenon DEF JFileInfoKeyT
  <2>. QED
    BY <2>1
<1>8. Fields(JFileDataHashValT, 3)
  <2> DEFINE s == <<2, 1>>
  <2>1. s \in Seq(Positive) /\ Len(s) = 2
    BY <1>0
  <2>2. s[1] + s[2] = 3
    OBVIOUS
  <2> HIDE DEF s
  <2>3. Fields(s, 3)
    BY <2>1, <2>2, FieldsOf2
  <2>. QED
    BY <2>3 DEF s, JFileDataHashValT
<1>9. Fields(<<8, 8, 8, 8, 4, 4, 4, 4, 8, 8, 8, 4, 4>>, 80)
  <2> DEFINE s == <<8, 8, 8, 8, 4, 4, 4, 4, 8, 8, 8, 4, 4>>
  <2>1. s \in Seq(Positive) /\ Len(s) = 13
    BY <1>0
  <2>2. s[1] + s[2] + s[3] + s[4] + s[5] + s[6] + s[7] + s[8] + s[9] + s[10] + s[11] + s[12] +
        s[13] = 80
    OBVIOUS
  <2> HIDE DEF s
  <2>3. Fields(s, 80)
    BY <2>1, <2>2, FieldsOf13
  <2>. QED
    BY <2>3 DEF s
<1>10. Fields(NxReaperPhysT, 112)
  <2>1. Fields(NxReaperPhysT, 32 + 80)
    BY ObjectSizes, <1>9, FieldsConcat, Zenon DEF NxReaperPhysT
  <2>. QED
    BY <2>1
<1>11. Fields(<<8, 4, 4, 4, 4, 4, 4>>, 32)
  <2> DEFINE s == <<8, 4, 4, 4, 4, 4, 4>>
  <2>1. s \in Seq(Positive) /\ Len(s) = 7
    BY <1>0
  <2>2. s[1] + s[2] + s[3] + s[4] + s[5] + s[6] + s[7] = 32
    OBVIOUS
  <2> HIDE DEF s
  <2>3. Fields(s, 32)
    BY <2>1, <2>2, FieldsOf7
  <2>. QED
    BY <2>3 DEF s
<1>12. Fields(NxReapListPhysT, 64)
  <2>1. Fields(NxReapListPhysT, 32 + 32)
    BY ObjectSizes, <1>11, FieldsConcat, Zenon DEF NxReapListPhysT
  <2>. QED
    BY <2>1
<1>13. Fields(NxReapListEntryT, 40)
  <2> DEFINE s == <<4, 4, 4, 4, 8, 8, 8>>
  <2>1. s \in Seq(Positive) /\ Len(s) = 7
    BY <1>0
  <2>2. s[1] + s[2] + s[3] + s[4] + s[5] + s[6] + s[7] = 40
    OBVIOUS
  <2> HIDE DEF s
  <2>3. Fields(s, 40)
    BY <2>1, <2>2, FieldsOf7
  <2>. QED
    BY <2>3 DEF s, NxReapListEntryT
<1>14. Fields(<<4>>, 4)
  <2> DEFINE s == <<4>>
  <2>1. s \in Seq(Positive) /\ Len(s) = 1
    BY <1>0
  <2>2. s[1] = 4
    OBVIOUS
  <2> HIDE DEF s
  <2>3. Fields(s, 4)
    BY <2>1, <2>2, FieldsOf1
  <2>. QED
    BY <2>3 DEF s
<1>15. Fields(OmapReapStateT, 20)
  <2>1. Fields(OmapReapStateT, 4 + 16)
    BY <1>14, ObjectSizes, FieldsConcat, Zenon DEF OmapReapStateT
  <2>. QED
    BY <2>1
<1>16. Fields(<<4, 4, 8, 8, 8, 8>>, 40)
  <2> DEFINE s == <<4, 4, 8, 8, 8, 8>>
  <2>1. s \in Seq(Positive) /\ Len(s) = 6
    BY <1>0
  <2>2. s[1] + s[2] + s[3] + s[4] + s[5] + s[6] = 40
    OBVIOUS
  <2> HIDE DEF s
  <2>3. Fields(s, 40)
    BY <2>1, <2>2, FieldsOf6
  <2>. QED
    BY <2>3 DEF s
<1>17. Fields(OmapCleanupStateT, 56)
  <2>1. Fields(OmapCleanupStateT, 40 + 16)
    BY <1>16, ObjectSizes, FieldsConcat, Zenon DEF OmapCleanupStateT
  <2>. QED
    BY <2>1
<1>18. Fields(ApfsReapStateT, 20)
  <2> DEFINE s == <<8, 8, 4>>
  <2>1. s \in Seq(Positive) /\ Len(s) = 3
    BY <1>0
  <2>2. s[1] + s[2] + s[3] = 20
    OBVIOUS
  <2> HIDE DEF s
  <2>3. Fields(s, 20)
    BY <2>1, <2>2, FieldsOf3
  <2>. QED
    BY <2>3 DEF s, ApfsReapStateT
<1>. QED
  BY <1>4, <1>5, <1>6, <1>7, <1>8, <1>10, <1>12, <1>13, <1>15, <1>17, <1>18

LEMMA SpaceManagerSizes ==
  /\ Fields(ChunkInfoT, 32)
  /\ Fields(ChunkInfoBlockT, 40)
  /\ Fields(CibAddrBlockT, 40)
  /\ Fields(SpacemanFreeQueueKeyT, 16)
  /\ Fields(SpacemanFreeQueueEntryT, 24)
  /\ Fields(SpacemanFreeQueueT, 40)
  /\ Fields(SpacemanDeviceT, 56)
  /\ Fields(SpacemanAllocationZoneBoundariesT, 16)
  /\ Fields(SpacemanAllocationZoneInfoPhysT, 136)
  /\ Fields(SpacemanDataZoneInfoPhysT, 2176)
  /\ Fields(SpacemanPhysT, 2536)
<1>0. 2 \in Positive /\ 4 \in Positive /\ 8 \in Positive /\ 16 \in Positive /\ 40 \in Positive /\
      56 \in Positive /\ 136 \in Positive
  BY DEF Positive
<1>1. Fields(ChunkInfoT, 32)
  <2> DEFINE s == <<8, 8, 4, 4, 8>>
  <2>1. s \in Seq(Positive) /\ Len(s) = 5
    BY <1>0
  <2>2. s[1] + s[2] + s[3] + s[4] + s[5] = 32
    OBVIOUS
  <2> HIDE DEF s
  <2>3. Fields(s, 32)
    BY <2>1, <2>2, FieldsOf5
  <2>. QED
    BY <2>3 DEF s, ChunkInfoT
<1>2. Fields(<<4, 4>>, 8)
  <2> DEFINE s == <<4, 4>>
  <2>1. s \in Seq(Positive) /\ Len(s) = 2
    BY <1>0
  <2>2. s[1] + s[2] = 8
    OBVIOUS
  <2> HIDE DEF s
  <2>3. Fields(s, 8)
    BY <2>1, <2>2, FieldsOf2
  <2>. QED
    BY <2>3 DEF s
<1>3. Fields(ChunkInfoBlockT, 40)
  <2>1. Fields(ChunkInfoBlockT, 32 + 8)
    BY ObjectSizes, <1>2, FieldsConcat, Zenon DEF ChunkInfoBlockT
  <2>. QED
    BY <2>1
<1>4. Fields(CibAddrBlockT, 40)
  <2>1. Fields(CibAddrBlockT, 32 + 8)
    BY ObjectSizes, <1>2, FieldsConcat, Zenon DEF CibAddrBlockT
  <2>. QED
    BY <2>1
<1>5. Fields(SpacemanFreeQueueKeyT, 16)
  <2> DEFINE s == <<8, 8>>
  <2>1. s \in Seq(Positive) /\ Len(s) = 2
    BY <1>0
  <2>2. s[1] + s[2] = 16
    OBVIOUS
  <2> HIDE DEF s
  <2>3. Fields(s, 16)
    BY <2>1, <2>2, FieldsOf2
  <2>. QED
    BY <2>3 DEF s, SpacemanFreeQueueKeyT
<1>6. Fields(<<8>>, 8)
  <2> DEFINE s == <<8>>
  <2>1. s \in Seq(Positive) /\ Len(s) = 1
    BY <1>0
  <2>2. s[1] = 8
    OBVIOUS
  <2> HIDE DEF s
  <2>3. Fields(s, 8)
    BY <2>1, <2>2, FieldsOf1
  <2>. QED
    BY <2>3 DEF s
<1>7. Fields(SpacemanFreeQueueEntryT, 24)
  <2>1. Fields(SpacemanFreeQueueEntryT, 16 + 8)
    BY <1>5, <1>6, FieldsConcat, Zenon DEF SpacemanFreeQueueEntryT
  <2>. QED
    BY <2>1
<1>8. Fields(SpacemanFreeQueueT, 40)
  <2> DEFINE s == <<8, 8, 8, 2, 2, 4, 8>>
  <2>1. s \in Seq(Positive) /\ Len(s) = 7
    BY <1>0
  <2>2. s[1] + s[2] + s[3] + s[4] + s[5] + s[6] + s[7] = 40
    OBVIOUS
  <2> HIDE DEF s
  <2>3. Fields(s, 40)
    BY <2>1, <2>2, FieldsOf7
  <2>. QED
    BY <2>3 DEF s, SpacemanFreeQueueT
<1>9. Fields(SpacemanDeviceT, 56)
  <2> DEFINE s == <<8, 8, 4, 4, 8, 4, 4, 8, 8>>
  <2>1. s \in Seq(Positive) /\ Len(s) = 9
    BY <1>0
  <2>2. s[1] + s[2] + s[3] + s[4] + s[5] + s[6] + s[7] + s[8] + s[9] = 56
    OBVIOUS
  <2> HIDE DEF s
  <2>3. Fields(s, 56)
    BY <2>1, <2>2, FieldsOf9
  <2>. QED
    BY <2>3 DEF s, SpacemanDeviceT
<1>10. Fields(SpacemanAllocationZoneBoundariesT, 16)
  <2> DEFINE s == <<8, 8>>
  <2>1. s \in Seq(Positive) /\ Len(s) = 2
    BY <1>0
  <2>2. s[1] + s[2] = 16
    OBVIOUS
  <2> HIDE DEF s
  <2>3. Fields(s, 16)
    BY <2>1, <2>2, FieldsOf2
  <2>. QED
    BY <2>3 DEF s, SpacemanAllocationZoneBoundariesT
<1>11. Fields(Times(SmAllocZoneNumPreviousBoundaries, SpacemanAllocationZoneBoundariesT), 112)
  <2>1. Fields(Times(SmAllocZoneNumPreviousBoundaries, SpacemanAllocationZoneBoundariesT), 7 * 16)
    BY <1>0, <1>10, FieldsTimes DEF SmAllocZoneNumPreviousBoundaries
  <2>. QED
    BY <2>1
<1>12. Fields(<<2, 2, 4>>, 8)
  <2> DEFINE s == <<2, 2, 4>>
  <2>1. s \in Seq(Positive) /\ Len(s) = 3
    BY <1>0
  <2>2. s[1] + s[2] + s[3] = 8
    OBVIOUS
  <2> HIDE DEF s
  <2>3. Fields(s, 8)
    BY <2>1, <2>2, FieldsOf3
  <2>. QED
    BY <2>3 DEF s
<1>13. Fields(SpacemanAllocationZoneInfoPhysT, 136)
  <2>1. Fields(SpacemanAllocationZoneInfoPhysT, 16 + 112 + 8)
    BY <1>10, <1>11, <1>12, FieldsConcat3, Zenon DEF SpacemanAllocationZoneInfoPhysT
  <2>. QED
    BY <2>1
<1>14. Fields(SpacemanDataZoneInfoPhysT, 2176)
  <2>1. Fields(Times(SdCount * SmDataZoneAllocZoneCount, SpacemanAllocationZoneInfoPhysT), 16 * 136)
    BY <1>0, <1>13, FieldsTimes DEF SdCount, SmDataZoneAllocZoneCount
  <2>. QED
    BY <2>1 DEF SpacemanDataZoneInfoPhysT
<1>15. Fields(<<4, 4, 4, 4>>, 16)
  <2> DEFINE s == <<4, 4, 4, 4>>
  <2>1. s \in Seq(Positive) /\ Len(s) = 4
    BY <1>0
  <2>2. s[1] + s[2] + s[3] + s[4] = 16
    OBVIOUS
  <2> HIDE DEF s
  <2>3. Fields(s, 16)
    BY <2>1, <2>2, FieldsOf4
  <2>. QED
    BY <2>3 DEF s
<1>16. Fields(Times(SdCount, SpacemanDeviceT), 112)
  <2>1. Fields(Times(SdCount, SpacemanDeviceT), 2 * 56)
    BY <1>0, <1>9, FieldsTimes DEF SdCount
  <2>. QED
    BY <2>1
<1>17. Fields(<<4, 4, 8, 4, 4, 8, 8, 8, 8>>, 56)
  <2> DEFINE s == <<4, 4, 8, 4, 4, 8, 8, 8, 8>>
  <2>1. s \in Seq(Positive) /\ Len(s) = 9
    BY <1>0
  <2>2. s[1] + s[2] + s[3] + s[4] + s[5] + s[6] + s[7] + s[8] + s[9] = 56
    OBVIOUS
  <2> HIDE DEF s
  <2>3. Fields(s, 56)
    BY <2>1, <2>2, FieldsOf9
  <2>. QED
    BY <2>3 DEF s
<1>18. Fields(Times(SfqCount, SpacemanFreeQueueT), 120)
  <2>1. Fields(Times(SfqCount, SpacemanFreeQueueT), 3 * 40)
    BY <1>0, <1>8, FieldsTimes DEF SfqCount
  <2>. QED
    BY <2>1
<1>19. Fields(<<2, 2, 4, 4, 4, 4, 4>>, 24)
  <2> DEFINE s == <<2, 2, 4, 4, 4, 4, 4>>
  <2>1. s \in Seq(Positive) /\ Len(s) = 7
    BY <1>0
  <2>2. s[1] + s[2] + s[3] + s[4] + s[5] + s[6] + s[7] = 24
    OBVIOUS
  <2> HIDE DEF s
  <2>3. Fields(s, 24)
    BY <2>1, <2>2, FieldsOf7
  <2>. QED
    BY <2>3 DEF s
<1>20. Fields(SpacemanPhysT, 2536)
  <2> DEFINE s1 == <<4, 4, 4, 4>>
             s2 == Times(SdCount, SpacemanDeviceT)
             s3 == <<4, 4, 8, 4, 4, 8, 8, 8, 8>>
             s4 == Times(SfqCount, SpacemanFreeQueueT)
             s5 == <<2, 2, 4, 4, 4, 4, 4>>
  <2>1. Fields(s1, 16) /\ Fields(s2, 112) /\ Fields(s3, 56) /\ Fields(s4, 120) /\ Fields(s5, 24)
    BY <1>15, <1>16, <1>17, <1>18, <1>19
  <2> HIDE DEF s1, s2, s3, s4, s5
  <2> DEFINE t1 == ObjPhysT \o s1 \o s2
  <2>2. Fields(t1, 160)
    <3>1. Fields(ObjPhysT, 32) /\ Fields(s1, 16) /\ Fields(s2, 112)
      BY <2>1, ObjectSizes
    <3>. QED
      BY <3>1, FieldsConcat3
  <2> HIDE DEF t1
  <2> DEFINE t2 == t1 \o s3 \o s4
  <2>3. Fields(t2, 336)
    <3>1. Fields(t1, 160) /\ Fields(s3, 56) /\ Fields(s4, 120)
      BY <2>1, <2>2
    <3>. QED
      BY <3>1, FieldsConcat3
  <2> HIDE DEF t2
  <2> DEFINE t3 == t2 \o s5 \o SpacemanDataZoneInfoPhysT
  <2>4. Fields(t3, 2536)
    <3>1. Fields(t2, 336) /\ Fields(s5, 24) /\ Fields(SpacemanDataZoneInfoPhysT, 2176)
      BY <2>1, <2>3, <1>14
    <3>. QED
      BY <3>1, FieldsConcat3
  <2> HIDE DEF t3
  <2>. QED
    BY <2>4 DEF SpacemanPhysT, s1, s2, s3, s4, s5, t1, t2, t3
<1>. QED
  BY <1>1, <1>3, <1>4, <1>5, <1>7, <1>8, <1>9, <1>10, <1>13, <1>14, <1>20

LEMMA VolumeSizes ==
  /\ Fields(JCryptoKeyT, 8)
  /\ Fields(WrappedCryptoStateT, 20)
  /\ Fields(WrappedMetaCryptoStateT, 20)
  /\ Fields(JCryptoValT, 24)
  /\ Fields(KbLockerT, 16)
  /\ Fields(MediaKeybagT, 48)
  /\ Fields(ErStatePhysHeaderT, 40)
  /\ Fields(ErStatePhysT, 128)
  /\ Fields(ErStatePhysV1T, 128)
  /\ Fields(ErRecoveryBlockPhysT, 48)
  /\ Fields(GbitmapBlockPhysT, 32)
  /\ Fields(GbitmapPhysT, 56)
  /\ Fields(ApfsModifiedByT, 48)
  /\ Fields(ApfsSuperblockT, 1056)
<1>0. 2 \in Positive /\ 4 \in Positive /\ 8 \in Positive /\ 16 \in Positive /\ 32 \in Positive /\
      48 \in Positive /\ 256 \in Positive
  BY DEF Positive
<1>1. Fields(JCryptoKeyT, 8)
  BY FileSystemSizes DEF JCryptoKeyT
<1>2. Fields(WrappedCryptoStateT, 20)
  <2> DEFINE s == <<2, 2, 4, 4, 4, 2, 2>>
  <2>1. s \in Seq(Positive) /\ Len(s) = 7
    BY <1>0
  <2>2. s[1] + s[2] + s[3] + s[4] + s[5] + s[6] + s[7] = 20
    OBVIOUS
  <2> HIDE DEF s
  <2>3. Fields(s, 20)
    BY <2>1, <2>2, FieldsOf7
  <2>. QED
    BY <2>3 DEF s, WrappedCryptoStateT
<1>3. Fields(WrappedMetaCryptoStateT, 20)
  <2> DEFINE s == <<2, 2, 4, 4, 4, 2, 2>>
  <2>1. s \in Seq(Positive) /\ Len(s) = 7
    BY <1>0
  <2>2. s[1] + s[2] + s[3] + s[4] + s[5] + s[6] + s[7] = 20
    OBVIOUS
  <2> HIDE DEF s
  <2>3. Fields(s, 20)
    BY <2>1, <2>2, FieldsOf7
  <2>. QED
    BY <2>3 DEF s, WrappedMetaCryptoStateT
<1>4. Fields(<<4>>, 4)
  <2> DEFINE s == <<4>>
  <2>1. s \in Seq(Positive) /\ Len(s) = 1
    BY <1>0
  <2>2. s[1] = 4
    OBVIOUS
  <2> HIDE DEF s
  <2>3. Fields(s, 4)
    BY <2>1, <2>2, FieldsOf1
  <2>. QED
    BY <2>3 DEF s
<1>5. Fields(JCryptoValT, 24)
  <2>1. Fields(JCryptoValT, 4 + 20)
    BY <1>4, <1>2, FieldsConcat, Zenon DEF JCryptoValT
  <2>. QED
    BY <2>1
<1>6. Fields(KbLockerT, 16)
  <2> DEFINE s == <<2, 2, 4, 8>>
  <2>1. s \in Seq(Positive) /\ Len(s) = 4
    BY <1>0
  <2>2. s[1] + s[2] + s[3] + s[4] = 16
    OBVIOUS
  <2> HIDE DEF s
  <2>3. Fields(s, 16)
    BY <2>1, <2>2, FieldsOf4
  <2>. QED
    BY <2>3 DEF s, KbLockerT
<1>7. Fields(MediaKeybagT, 48)
  <2>1. Fields(MediaKeybagT, 32 + 16)
    BY ObjectSizes, <1>6, FieldsConcat, Zenon DEF MediaKeybagT
  <2>. QED
    BY <2>1
<1>8. Fields(<<4, 4>>, 8)
  <2> DEFINE s == <<4, 4>>
  <2>1. s \in Seq(Positive) /\ Len(s) = 2
    BY <1>0
  <2>2. s[1] + s[2] = 8
    OBVIOUS
  <2> HIDE DEF s
  <2>3. Fields(s, 8)
    BY <2>1, <2>2, FieldsOf2
  <2>. QED
    BY <2>3 DEF s
<1>9. Fields(ErStatePhysHeaderT, 40)
  <2>1. Fields(ErStatePhysHeaderT, 32 + 8)
    BY ObjectSizes, <1>8, FieldsConcat, Zenon DEF ErStatePhysHeaderT
  <2>. QED
    BY <2>1
<1>10. Fields(<<8>>, 8)
  <2> DEFINE s == <<8>>
  <2>1. s \in Seq(Positive) /\ Len(s) = 1
    BY <1>0
  <2>2. s[1] = 8
    OBVIOUS
  <2> HIDE DEF s
  <2>3. Fields(s, 8)
    BY <2>1, <2>2, FieldsOf1
  <2>. QED
    BY <2>3 DEF s
<1>11. Fields(Times(11, <<8>>), 88)
  <2>1. Fields(Times(11, <<8>>), 11 * 8)
    BY <1>0, <1>10, FieldsTimes
  <2>. QED
    BY <2>1
<1>12. Fields(ErStatePhysT, 128)
  <2>1. Fields(ErStatePhysT, 40 + 88)
    BY <1>9, <1>11, FieldsConcat, Zenon DEF ErStatePhysT
  <2>. QED
    BY <2>1
<1>13. Fields(Times(9, <<8>>), 72)
  <2>1. Fields(Times(9, <<8>>), 9 * 8)
    BY <1>0, <1>10, FieldsTimes
  <2>. QED
    BY <2>1
<1>14. Fields(<<4, 4, 8>>, 16)
  <2> DEFINE s == <<4, 4, 8>>
  <2>1. s \in Seq(Positive) /\ Len(s) = 3
    BY <1>0
  <2>2. s[1] + s[2] + s[3] = 16
    OBVIOUS
  <2> HIDE DEF s
  <2>3. Fields(s, 16)
    BY <2>1, <2>2, FieldsOf3
  <2>. QED
    BY <2>3 DEF s
<1>15. Fields(ErStatePhysV1T, 128)
  <2>1. Fields(ErStatePhysV1T, 40 + 72 + 16)
    BY <1>9, <1>13, <1>14, FieldsConcat3, Zenon DEF ErStatePhysV1T
  <2>. QED
    BY <2>1
<1>16. Fields(<<8, 8>>, 16)
  <2> DEFINE s == <<8, 8>>
  <2>1. s \in Seq(Positive) /\ Len(s) = 2
    BY <1>0
  <2>2. s[1] + s[2] = 16
    OBVIOUS
  <2> HIDE DEF s
  <2>3. Fields(s, 16)
    BY <2>1, <2>2, FieldsOf2
  <2>. QED
    BY <2>3 DEF s
<1>17. Fields(ErRecoveryBlockPhysT, 48)
  <2>1. Fields(ErRecoveryBlockPhysT, 32 + 16)
    BY ObjectSizes, <1>16, FieldsConcat, Zenon DEF ErRecoveryBlockPhysT
  <2>. QED
    BY <2>1
<1>18. Fields(GbitmapBlockPhysT, 32)
  BY ObjectSizes DEF GbitmapBlockPhysT
<1>19. Fields(<<8, 8, 8>>, 24)
  <2> DEFINE s == <<8, 8, 8>>
  <2>1. s \in Seq(Positive) /\ Len(s) = 3
    BY <1>0
  <2>2. s[1] + s[2] + s[3] = 24
    OBVIOUS
  <2> HIDE DEF s
  <2>3. Fields(s, 24)
    BY <2>1, <2>2, FieldsOf3
  <2>. QED
    BY <2>3 DEF s
<1>20. Fields(GbitmapPhysT, 56)
  <2>1. Fields(GbitmapPhysT, 32 + 24)
    BY ObjectSizes, <1>19, FieldsConcat, Zenon DEF GbitmapPhysT
  <2>. QED
    BY <2>1
<1>21. Fields(ApfsModifiedByT, 48)
  <2> DEFINE s == <<ApfsModifiedNamelen, 8, 8>>
  <2>1. s \in Seq(Positive) /\ Len(s) = 3
    BY <1>0 DEF ApfsModifiedNamelen
  <2>2. s[1] + s[2] + s[3] = 48
    BY DEF ApfsModifiedNamelen
  <2> HIDE DEF s
  <2>3. Fields(s, 48)
    BY <2>1, <2>2, FieldsOf3
  <2>. QED
    BY <2>3 DEF s, ApfsModifiedByT
<1>22. Fields(<<4, 4, 8, 8, 8, 8, 8, 8, 8>>, 64)
  <2> DEFINE s == <<4, 4, 8, 8, 8, 8, 8, 8, 8>>
  <2>1. s \in Seq(Positive) /\ Len(s) = 9
    BY <1>0
  <2>2. s[1] + s[2] + s[3] + s[4] + s[5] + s[6] + s[7] + s[8] + s[9] = 64
    OBVIOUS
  <2> HIDE DEF s
  <2>3. Fields(s, 64)
    BY <2>1, <2>2, FieldsOf9
  <2>. QED
    BY <2>3 DEF s
<1>23. Fields(<<4, 4, 4>>, 12)
  <2> DEFINE s == <<4, 4, 4>>
  <2>1. s \in Seq(Positive) /\ Len(s) = 3
    BY <1>0
  <2>2. s[1] + s[2] + s[3] = 12
    OBVIOUS
  <2> HIDE DEF s
  <2>3. Fields(s, 12)
    BY <2>1, <2>2, FieldsOf3
  <2>. QED
    BY <2>3 DEF s
<1>24. Fields(Times(14, <<8>>), 112)
  <2>1. Fields(Times(14, <<8>>), 14 * 8)
    BY <1>0, <1>10, FieldsTimes
  <2>. QED
    BY <2>1
<1>25. Fields(<<16, 8, 8>>, 32)
  <2> DEFINE s == <<16, 8, 8>>
  <2>1. s \in Seq(Positive) /\ Len(s) = 3
    BY <1>0
  <2>2. s[1] + s[2] + s[3] = 32
    OBVIOUS
  <2> HIDE DEF s
  <2>3. Fields(s, 32)
    BY <2>1, <2>2, FieldsOf3
  <2>. QED
    BY <2>3 DEF s
<1>26. Fields(Times(ApfsMaxHist, ApfsModifiedByT), 384)
  <2>1. Fields(Times(ApfsMaxHist, ApfsModifiedByT), 8 * 48)
    BY <1>0, <1>21, FieldsTimes DEF ApfsMaxHist
  <2>. QED
    BY <2>1
<1>27. Fields(<<ApfsVolnameLen, 4, 2, 2, 8, 8, 8, 8, 8, 16, 8, 8, 4, 4, 8>>, 352)
  <2> DEFINE s == <<ApfsVolnameLen, 4, 2, 2, 8, 8, 8, 8, 8, 16, 8, 8, 4, 4, 8>>
  <2>1. s \in Seq(Positive) /\ Len(s) = 15
    BY <1>0 DEF ApfsVolnameLen
  <2>2. s[1] + s[2] + s[3] + s[4] + s[5] + s[6] + s[7] + s[8] + s[9] + s[10] + s[11] + s[12] +
        s[13] + s[14] + s[15] = 352
    BY DEF ApfsVolnameLen
  <2> HIDE DEF s
  <2>3. Fields(s, 352)
    BY <2>1, <2>2, FieldsOf15
  <2>. QED
    BY <2>3 DEF s
<1>28. Fields(ApfsSuperblockT, 1056)
  <2> DEFINE s1 == <<4, 4, 8, 8, 8, 8, 8, 8, 8>>
             s2 == <<4, 4, 4>>
             s3 == Times(14, <<8>>)
             s4 == <<16, 8, 8>>
             s5 == Times(ApfsMaxHist, ApfsModifiedByT)
             s6 == <<ApfsVolnameLen, 4, 2, 2, 8, 8, 8, 8, 8, 16, 8, 8, 4, 4, 8>>
  <2>1. Fields(s1, 64) /\ Fields(s2, 12) /\ Fields(s3, 112) /\ Fields(s4, 32) /\
        Fields(s5, 384) /\ Fields(s6, 352)
    BY <1>22, <1>23, <1>24, <1>25, <1>26, <1>27
  <2> HIDE DEF s1, s2, s3, s4, s5, s6
  <2> DEFINE t1 == ObjPhysT \o s1 \o WrappedMetaCryptoStateT
  <2>2. Fields(t1, 116)
    <3>1. Fields(ObjPhysT, 32) /\ Fields(s1, 64) /\ Fields(WrappedMetaCryptoStateT, 20)
      BY <2>1, ObjectSizes, <1>3
    <3>. QED
      BY <3>1, FieldsConcat3
  <2> HIDE DEF t1
  <2> DEFINE t2 == t1 \o s2 \o s3
  <2>3. Fields(t2, 240)
    <3>1. Fields(t1, 116) /\ Fields(s2, 12) /\ Fields(s3, 112)
      BY <2>1, <2>2
    <3>. QED
      BY <3>1, FieldsConcat3
  <2> HIDE DEF t2
  <2> DEFINE t3 == t2 \o s4 \o ApfsModifiedByT
  <2>4. Fields(t3, 320)
    <3>1. Fields(t2, 240) /\ Fields(s4, 32) /\ Fields(ApfsModifiedByT, 48)
      BY <2>1, <2>3, <1>21
    <3>. QED
      BY <3>1, FieldsConcat3
  <2> HIDE DEF t3
  <2> DEFINE t4 == t3 \o s5 \o s6
  <2>5. Fields(t4, 1056)
    <3>1. Fields(t3, 320) /\ Fields(s5, 384) /\ Fields(s6, 352)
      BY <2>1, <2>4
    <3>. QED
      BY <3>1, FieldsConcat3
  <2> HIDE DEF t4
  <2>. QED
    BY <2>5 DEF ApfsSuperblockT, s1, s2, s3, s4, s5, s6, t1, t2, t3, t4
<1>. QED
  BY <1>1, <1>2, <1>3, <1>5, <1>6, <1>7, <1>9, <1>12, <1>15, <1>17, <1>18, <1>20, <1>21,
     <1>28

-----------------------------------------------------------------------------
(* RecordReaders: what a reader must be like for its records to be read as  *)
(* they should, and that every reader is.                                   *)

Kinds == {"none", "rest", "exact", "fitting", "clamped", "ifFits", "slots"}

\* What is taken behind the layout.
Tails ==
  {t \in [kind : Kinds, size : Nat, mask : Nat \ {0}, max : Nat] :
     /\ t.kind = "fitting" => t.size # 0
     /\ t.kind = "slots" => t.max = NxMaxFileSystems}
PlainTails == {t \in Tails : t.kind # "slots"}

WellFormed(r) ==
  /\ r.min \in Nat /\ r.layout \in Seq(Int) /\ r.opt \in Seq(Positive) /\ r.fills \in Seq(Positive)
  /\ r.tail \in Tails
  /\ r.tail.kind \in {"exact", "fitting", "ifFits"} => r.opt = <<>>
  /\ r.tail.kind = "slots" => r = VolumeOIDs

\* The check of the length covers what is read.
Covered(r) == Size(r.layout) <= r.min \/ (r \in Understated /\ r.layout \in Seq(Positive))

\* The structure passes the check of the length.
Accepting(r) ==
  r \in Demanding \/ (r.min <= Size(r.fills) /\ (r.tail.kind = "exact" => Size(r.layout) <= Size(r.fills)))

\* The leading fields have the structure's widths, the one behind has not.
Mirrors(r) ==
  LET k == FieldsInPlace(r)
  IN  /\ k \in 0..Len(r.layout) /\ k <= Len(r.fills)
      /\ \A i \in 1..k : Width(r.layout[i]) = Width(r.fills[i])
      /\ k < Len(r.layout) =>
           /\ k < Len(r.fills)
           /\ r.layout[k + 1] < 0 \/ Width(r.layout[k + 1]) # Width(r.fills[k + 1])

Proper(r) == WellFormed(r) /\ Covered(r) /\ Accepting(r) /\ Mirrors(r)

\* Most readers read the fields of the structure and nothing else.
Plain(r) ==
  /\ r.layout = r.fills /\ r.opt = <<>> /\ r.tail \in PlainTails /\ r.min \in Nat
  /\ r.fills \in Seq(Positive)
  /\ Size(r.fills) <= r.min \/ r \in Understated
  /\ r.min <= Size(r.fills) \/ r \in Demanding

LEMMA SomeTails ==
  /\ None \in PlainTails /\ Rest \in PlainTails /\ Name \in PlainTails /\ [Name EXCEPT !.mask = 1024] \in PlainTails
  /\ [Name EXCEPT !.mask = 256, !.max = 64] \in PlainTails
  /\ Then("exact", 40) \in PlainTails /\ Then("exact", 32) \in PlainTails /\ Then("exact", 8) \in PlainTails
  /\ Then("exact", 16) \in PlainTails /\ Then("fitting", 40) \in PlainTails /\ Then("clamped", 1) \in PlainTails
  /\ [Then("ifFits", 1) EXCEPT !.max = CpMaxWrappedkeysize] \in PlainTails /\ Then("ifFits", 8) \in PlainTails
  /\ [Then("slots", 8) EXCEPT !.max = 100] \in Tails
<1>1. Word32 \in Nat \ {0}
  BY RecordAssumption
<1>2. ASSUME NEW k \in Kinds, NEW n \in Nat, k # "slots", k = "fitting" => n # 0
      PROVE  Then(k, n) \in PlainTails
  BY <1>1, <1>2 DEF Then, Tails, PlainTails
<1>3. /\ "none" \in Kinds /\ "rest" \in Kinds /\ "exact" \in Kinds /\ "fitting" \in Kinds
      /\ "clamped" \in Kinds /\ "ifFits" \in Kinds /\ "slots" \in Kinds
  BY DEF Kinds
<1>4. None \in PlainTails /\ Rest \in PlainTails /\ Name \in PlainTails
  BY <1>2, <1>3 DEF None, Rest, Name
<1>5. [Name EXCEPT !.mask = 1024] \in PlainTails
  <2>1. [Name EXCEPT !.mask = 1024] \in [kind : {"exact"}, size : {1}, mask : {1024}, max : {Word32}]
    BY DEF Name, Then
  <2>. QED
    BY <1>1, <1>3, <2>1 DEF Tails, PlainTails
<1>6. [Name EXCEPT !.mask = 256, !.max = 64] \in PlainTails
  <2>1. [Name EXCEPT !.mask = 256, !.max = 64] \in [kind : {"exact"}, size : {1}, mask : {256}, max : {64}]
    BY DEF Name, Then
  <2>. QED
    BY <1>3, <2>1 DEF Tails, PlainTails
<1>7. [Then("ifFits", 1) EXCEPT !.max = CpMaxWrappedkeysize] \in PlainTails
  <2>1. [Then("ifFits", 1) EXCEPT !.max = CpMaxWrappedkeysize] \in
          [kind : {"ifFits"}, size : {1}, mask : {Word32}, max : {128}]
    BY DEF Then, CpMaxWrappedkeysize
  <2>. QED
    BY <1>1, <1>3, <2>1 DEF Tails, PlainTails
<1>8. [Then("slots", 8) EXCEPT !.max = 100] \in Tails
  <2>1. [Then("slots", 8) EXCEPT !.max = 100] \in [kind : {"slots"}, size : {8}, mask : {Word32}, max : {100}]
    BY DEF Then
  <2>. QED
    BY <1>1, <1>3, <2>1 DEF Tails, NxMaxFileSystems
<1>. QED
  BY <1>2, <1>3, <1>4, <1>5, <1>6, <1>7, <1>8

\* The parts of a reader, and the readers made from another.
Parts(m, l, o, f, c, t) == [min |-> m, layout |-> l, opt |-> o, fills |-> f, check |-> c, tail |-> t]

LEMMA ReaderForm == \A m, l, f : Reader(m, l, f) = Parts(m, l, <<>>, f, 0, None)
BY DEF Reader, Parts

LEMMA WithForm == \A m, l, f, t : With(Reader(m, l, f), t) = Parts(m, l, <<>>, f, 0, t)
<1>. TAKE m, l, f, t
<1>1. With(Parts(m, l, <<>>, f, 0, None), t) = Parts(m, l, <<>>, f, 0, t)
  BY DEF With, Parts
<1>. QED
  BY <1>1, ReaderForm

LEMMA CheckedForm == \A m, l, f, k : Checked(Reader(m, l, f), k) = Parts(m, l, <<>>, f, k, None)
<1>. TAKE m, l, f, k
<1>1. Checked(Parts(m, l, <<>>, f, 0, None), k) = Parts(m, l, <<>>, f, k, None)
  BY DEF Checked, Parts
<1>. QED
  BY <1>1, ReaderForm

LEMMA CheckedLastForm ==
  \A m, l, f, t : /\ CheckedLast(Reader(m, l, f)) = Parts(m, l, <<>>, f, Len(l), None)
                  /\ CheckedLast(With(Reader(m, l, f), t)) = Parts(m, l, <<>>, f, Len(l), t)
<1>. TAKE m, l, f, t
<1>1. \A u : CheckedLast(Parts(m, l, <<>>, f, 0, u)) = Parts(m, l, <<>>, f, Len(l), u)
  BY DEF CheckedLast, Checked, Parts
<1>. QED
  BY <1>1, ReaderForm, WithForm

LEMMA PlainParts ==
  ASSUME NEW m \in Nat, NEW f, NEW n, Fields(f, n), NEW t \in PlainTails, NEW k,
         NEW r, r = Parts(m, f, <<>>, f, k, t),
         n <= m \/ r \in Understated, m <= n \/ r \in Demanding
  PROVE  Plain(r)
<1>1. r.min = m /\ r.layout = f /\ r.fills = f /\ r.opt = <<>> /\ r.tail = t
  BY DEF Parts
<1>. QED
  BY <1>1 DEF Plain, Fields

LEMMA PlainReader ==
  ASSUME NEW n \in Nat, NEW f, Fields(f, n)
  PROVE  /\ Plain(Reader(n, f, f)) /\ \A k : Plain(Checked(Reader(n, f, f), k))
         /\ \A t \in PlainTails :
              Plain(With(Reader(n, f, f), t)) /\ Plain(CheckedLast(With(Reader(n, f, f), t)))
<1>1. None \in PlainTails
  BY SomeTails
<1>2. ASSUME NEW c, NEW u \in PlainTails PROVE Plain(Parts(n, f, <<>>, f, c, u))
  BY <1>2, PlainParts
<1>3. Plain(Reader(n, f, f)) /\ \A k : Plain(Checked(Reader(n, f, f), k))
  BY <1>1, <1>2, ReaderForm, CheckedForm
<1>4. ASSUME NEW t \in PlainTails
      PROVE  Plain(With(Reader(n, f, f), t)) /\ Plain(CheckedLast(With(Reader(n, f, f), t)))
  BY <1>2, <1>4, WithForm, CheckedLastForm
<1>. QED
  BY <1>3, <1>4

-----------------------------------------------------------------------------
(* Readers that read the fields of the structure and nothing else.         *)

LEMMA PlainContainerReaders ==
  /\ Plain(parseCheckpointMapping)
  /\ Plain(parseCheckpointMappings)
  /\ Plain(parseEvictMapping)
<1>1. Plain(parseCheckpointMapping)
  BY ContainerSizes, PlainReader DEF parseCheckpointMapping, CheckpointMappingT
<1>2. Plain(parseCheckpointMappings)
  <2>1. parseCheckpointMappings = With(Reader(40, CheckpointMapPhysT, CheckpointMapPhysT), Then("exact", 40))
    BY Zenon DEF parseCheckpointMappings, parseCheckpointMap, ObjHeader, CheckpointMapPhysT, ObjPhysT
  <2>2. 40 \in Nat /\ Fields(CheckpointMapPhysT, 40) /\ Then("exact", 40) \in PlainTails
    BY SomeTails, ContainerSizes
  <2>. QED
    BY <2>1, <2>2, PlainReader, Zenon
<1>3. Plain(parseEvictMapping)
  BY ContainerSizes, PlainReader DEF parseEvictMapping, EvictMappingValT
<1>. QED
  BY <1>1, <1>2, <1>3

LEMMA PlainFileSystemReaders ==
  /\ Plain(NewCompressedDataHeaderReader)
  /\ Plain(parseDataStream)
  /\ Plain(parseSnapMetaExt)
  /\ Plain(parseJKey)
  /\ Plain(parseDataStreamIDKey)
  /\ Plain(parseDataStreamIDValue)
  /\ Plain(parseFileExtentKey)
  /\ Plain(parseFileExtentValue)
  /\ Plain(parsePhysicalExtentKey)
  /\ Plain(parsePhysicalExtentValue)
  /\ Plain(parseSiblingLinkKey)
  /\ Plain(parseSiblingLinkValue)
  /\ Plain(parseSiblingMapKey)
  /\ Plain(parseSiblingMapValue)
  /\ Plain(parseSnapMetadataKey)
  /\ Plain(parseSnapNameKey)
  /\ Plain(parseSnapNameValue)
  /\ Plain(parseDirStatsKey)
  /\ Plain(parseDirStatsValue)
  /\ Plain(parseXattrKey)
  /\ Plain(parseXattrValue)
  /\ Plain(parseInodeKey)
  /\ Plain(parseInodeValue)
  /\ Plain(parseDirectoryKey)
  /\ Plain(parseHashedDirectoryKey)
  /\ Plain(parseDirectoryValue)
<1>1. Plain(NewCompressedDataHeaderReader)
  BY FileSystemSizes, PlainReader DEF NewCompressedDataHeaderReader, CompressedDataHeaderT
<1>2. Plain(parseDataStream)
  BY FileSystemSizes, PlainReader DEF parseDataStream, JDstreamT
<1>3. Plain(parseSnapMetaExt)
  BY FileSystemSizes, PlainReader DEF parseSnapMetaExt, SnapMetaExtT
<1>4. Plain(parseJKey)
  BY FileSystemSizes, PlainReader DEF parseJKey, Key, JKeyT
<1>5. Plain(parseDataStreamIDKey)
  BY FileSystemSizes, PlainReader DEF parseDataStreamIDKey, Key, JDstreamIdKeyT, JKeyT
<1>6. Plain(parseDataStreamIDValue)
  BY FileSystemSizes, PlainReader DEF parseDataStreamIDValue, JDstreamIdValT
<1>7. Plain(parseFileExtentKey)
  BY FileSystemSizes, PlainReader DEF parseFileExtentKey, Key, JFileExtentKeyT, JKeyT
<1>8. Plain(parseFileExtentValue)
  BY FileSystemSizes, PlainReader DEF parseFileExtentValue, JFileExtentValT
<1>9. Plain(parsePhysicalExtentKey)
  BY FileSystemSizes, PlainReader DEF parsePhysicalExtentKey, Key, JPhysExtKeyT, JKeyT
<1>10. Plain(parsePhysicalExtentValue)
  BY FileSystemSizes, PlainReader DEF parsePhysicalExtentValue, JPhysExtValT
<1>11. Plain(parseSiblingLinkKey)
  BY FileSystemSizes, PlainReader DEF parseSiblingLinkKey, Key, JSiblingKeyT, JKeyT
<1>12. Plain(parseSiblingLinkValue)
  BY SomeTails, FileSystemSizes, PlainReader DEF parseSiblingLinkValue, JSiblingValT
<1>13. Plain(parseSiblingMapKey)
  BY FileSystemSizes, PlainReader DEF parseSiblingMapKey, Key, JSiblingMapKeyT, JKeyT
<1>14. Plain(parseSiblingMapValue)
  BY FileSystemSizes, PlainReader DEF parseSiblingMapValue, JSiblingMapValT
<1>15. Plain(parseSnapMetadataKey)
  BY FileSystemSizes, PlainReader DEF parseSnapMetadataKey, Key, JSnapMetadataKeyT, JKeyT
<1>16. Plain(parseSnapNameKey)
  BY SomeTails, FileSystemSizes, PlainReader DEF parseSnapNameKey, Key, JSnapNameKeyT, JKeyT
<1>17. Plain(parseSnapNameValue)
  BY FileSystemSizes, PlainReader DEF parseSnapNameValue, JSnapNameValT
<1>18. Plain(parseDirStatsKey)
  BY FileSystemSizes, PlainReader DEF parseDirStatsKey, Key, JDirStatsKeyT, JKeyT
<1>19. Plain(parseDirStatsValue)
  BY FileSystemSizes, PlainReader DEF parseDirStatsValue, JDirStatsValT
<1>20. Plain(parseXattrKey)
  BY SomeTails, FileSystemSizes, PlainReader DEF parseXattrKey, Key, JXattrKeyT, JKeyT
<1>21. Plain(parseXattrValue)
  BY SomeTails, FileSystemSizes, PlainReader DEF parseXattrValue, JXattrValT
<1>22. Plain(parseInodeKey)
  BY FileSystemSizes, PlainReader DEF parseInodeKey, Key, JInodeKeyT, JKeyT
<1>23. Plain(parseInodeValue)
  BY SomeTails, FileSystemSizes, PlainReader DEF parseInodeValue, JInodeValT
<1>24. Plain(parseDirectoryKey)
  BY SomeTails, FileSystemSizes, PlainReader DEF parseDirectoryKey, Key, JDrecKeyT, JKeyT
<1>25. Plain(parseHashedDirectoryKey)
  <2> DEFINE t == [Name EXCEPT !.mask = 1024]
  <2>1. parseHashedDirectoryKey = With(Reader(12, JDrecHashedKeyT, JDrecHashedKeyT), t)
    BY DEF parseHashedDirectoryKey, Key, JDrecHashedKeyT, JKeyT
  <2>2. 12 \in Nat /\ Fields(JDrecHashedKeyT, 12) /\ t \in PlainTails
    BY FileSystemSizes, SomeTails
  <2> HIDE DEF t
  <2>. QED
    BY <2>1, <2>2, PlainReader, Zenon
<1>26. Plain(parseDirectoryValue)
  BY SomeTails, FileSystemSizes, PlainReader DEF parseDirectoryValue, JDrecValT
<1>. QED
  BY <1>1, <1>2, <1>3, <1>4, <1>5, <1>6, <1>7, <1>8, <1>9, <1>10, <1>11, <1>12, <1>13,
     <1>14, <1>15, <1>16, <1>17, <1>18, <1>19, <1>20, <1>21, <1>22, <1>23, <1>24, <1>25, <1>26

LEMMA PlainReaperReaders ==
  /\ Plain(parseFextTreeKey)
  /\ Plain(parseFextTreeVal)
  /\ Plain(parseApfsReapState)
  /\ Plain(parseReaperListEntry)
  /\ Plain(parseFileInfoKey)
<1>1. Plain(parseFextTreeKey)
  BY ReaperSizes, PlainReader DEF parseFextTreeKey, FextTreeKeyT
<1>2. Plain(parseFextTreeVal)
  BY ReaperSizes, PlainReader DEF parseFextTreeVal, FextTreeValT
<1>3. Plain(parseApfsReapState)
  BY ReaperSizes, PlainReader DEF parseApfsReapState, ApfsReapStateT
<1>4. Plain(parseReaperListEntry)
  BY ReaperSizes, PlainReader DEF parseReaperListEntry, NxReapListEntryT
<1>5. Plain(parseFileInfoKey)
  BY ReaperSizes, PlainReader DEF parseFileInfoKey, Key, JFileInfoKeyT, JKeyT
<1>. QED
  BY <1>1, <1>2, <1>3, <1>4, <1>5

LEMMA PlainSpaceManagerReaders ==
  /\ Plain(parseChunkInfo)
  /\ Plain(parseChunkInfoBlock)
  /\ Plain(parseCibAddrBlock)
  /\ Plain(parseSpacemanFreeQueue)
  /\ Plain(parseSpacemanDevice)
  /\ Plain(parseAllocationZoneBoundaries)
  /\ Plain(parseAllocationZoneInfo)
<1>1. Plain(parseChunkInfo)
  BY SpaceManagerSizes, PlainReader DEF parseChunkInfo, ChunkInfoT
<1>2. Plain(parseChunkInfoBlock)
  <2>1. parseChunkInfoBlock = CheckedLast(With(Reader(40, ChunkInfoBlockT, ChunkInfoBlockT),
        Then("exact", 32)))
    BY DEF parseChunkInfoBlock, ObjHeader, ChunkInfoBlockT, ObjPhysT
  <2>2. 40 \in Nat /\ Fields(ChunkInfoBlockT, 40) /\ Then("exact", 32) \in PlainTails
    BY SpaceManagerSizes, SomeTails
  <2>. QED
    BY <2>1, <2>2, PlainReader, Zenon
<1>3. Plain(parseCibAddrBlock)
  <2>1. parseCibAddrBlock = CheckedLast(With(Reader(40, CibAddrBlockT, CibAddrBlockT),
        Then("exact", 8)))
    BY DEF parseCibAddrBlock, ObjHeader, CibAddrBlockT, ObjPhysT
  <2>2. 40 \in Nat /\ Fields(CibAddrBlockT, 40) /\ Then("exact", 8) \in PlainTails
    BY SpaceManagerSizes, SomeTails
  <2>. QED
    BY <2>1, <2>2, PlainReader, Zenon
<1>4. Plain(parseSpacemanFreeQueue)
  BY SpaceManagerSizes, PlainReader DEF parseSpacemanFreeQueue, SpacemanFreeQueueT
<1>5. Plain(parseSpacemanDevice)
  BY SpaceManagerSizes, PlainReader DEF parseSpacemanDevice, SpacemanDeviceT
<1>6. Plain(parseAllocationZoneBoundaries)
  BY SpaceManagerSizes, PlainReader DEF parseAllocationZoneBoundaries,
     SpacemanAllocationZoneBoundariesT
<1>7. Plain(parseAllocationZoneInfo)
  BY SpaceManagerSizes, PlainReader DEF parseAllocationZoneInfo, SpacemanAllocationZoneInfoPhysT,
     SpacemanAllocationZoneBoundariesT, SmAllocZoneNumPreviousBoundaries
<1>. QED
  BY <1>1, <1>2, <1>3, <1>4, <1>5, <1>6, <1>7

LEMMA PlainVolumeReaders ==
  /\ Plain(parseWrappedCryptoState)
  /\ Plain(parseMediaKeybag)
  /\ Plain(parseRecoveryBlock)
  /\ Plain(parseGeneralBitmap)
  /\ Plain(parseCryptoKey)
<1>1. Plain(parseWrappedCryptoState)
  BY SomeTails, VolumeSizes, PlainReader DEF parseWrappedCryptoState, WrappedCryptoStateT,
     CpMaxWrappedkeysize
<1>2. Plain(parseMediaKeybag)
  BY VolumeSizes, PlainReader DEF parseMediaKeybag, ObjHeader, MediaKeybagT, ObjPhysT, KbLockerT
<1>3. Plain(parseRecoveryBlock)
  BY SomeTails, VolumeSizes, PlainReader DEF parseRecoveryBlock, ObjHeader, ErRecoveryBlockPhysT,
     ObjPhysT
<1>4. Plain(parseGeneralBitmap)
  BY VolumeSizes, PlainReader DEF parseGeneralBitmap, ObjHeader, GbitmapPhysT, ObjPhysT
<1>5. Plain(parseCryptoKey)
  BY VolumeSizes, PlainReader DEF parseCryptoKey, Key, JCryptoKeyT, JKeyT
<1>. QED
  BY <1>1, <1>2, <1>3, <1>4, <1>5

-----------------------------------------------------------------------------
\* An array of a record all of whose fields are alike.
LEMMA UniformTimes ==
  ASSUME NEW s \in Seq(Nat), s # <<>>, \A i \in 1..Len(s) : s[i] = s[1], NEW n \in Nat
  PROVE  /\ Times(n, s) \in Seq(Nat) /\ Len(Times(n, s)) = n * Len(s)
         /\ \A k \in 1..(n * Len(s)) : Times(n, s)[k] = s[1]
<1>1. Len(s) \in Nat \ {0} /\ n * Len(s) \in Nat
  <2>1. Len(s) \in Nat \ {0}
    BY EmptySeq
  <2>. QED
    BY <2>1
<1>2. /\ Times(n, s) \in Seq(Nat) /\ Len(Times(n, s)) = n * Len(s)
      /\ \A k \in 1..(n * Len(s)) : Times(n, s)[k] = s[((k - 1) % Len(s)) + 1]
  BY TimesElements
<1>3. ASSUME NEW k \in 1..(n * Len(s)) PROVE ((k - 1) % Len(s)) + 1 \in 1..Len(s)
  <2>1. k - 1 \in Nat
    BY <1>1
  <2>2. (k - 1) % Len(s) \in Nat /\ (k - 1) % Len(s) < Len(s)
    BY <1>1, <2>1, Division
  <2>. QED
    BY <1>1, <2>2
<1>. QED
  BY <1>2, <1>3

\* The fields of some readers are written differently from the structure's.
LEMMA SameFields ==
  /\ ObjHeader \o <<2, 2, 4>> \o Times(8, <<2>>) = BtreeNodePhysT
  /\ <<8, 8, 8, 8, 8, 8>> = JXattrDstreamT
  /\ <<4, 4, 8, 8, 8, 8, 8, 8>> = OmapCleanupStateT
  /\ <<4, 8, 8>> = OmapReapStateT
  /\ <<8, 8, 8>> = SpacemanFreeQueueEntryT
  /\ <<4, 4, 4, 4, 4, 4, 8, 8>> = BtreeInfoT
  /\ Times(8, <<8, 8>>) \o <<2, 2, 4>> = SpacemanAllocationZoneInfoPhysT
<1>1. Times(8, <<2>>) = Times(4, NlocT)
  <2>1. Times(8, <<2>>) \in Seq(Nat) /\ Len(Times(8, <<2>>)) = 8 /\ \A k \in 1..8 : Times(8, <<2>>)[k] = 2
    <3> DEFINE r == <<2>>
    <3>1. r \in Seq(Nat) /\ r # <<>> /\ Len(r) = 1 /\ r[1] = 2 /\ \A i \in 1..Len(r) : r[i] = r[1]
      OBVIOUS
    <3> HIDE DEF r
    <3>2. 8 * Len(r) = 8
      BY <3>1
    <3>3. Times(8, r) \in Seq(Nat) /\ Len(Times(8, r)) = 8 /\ \A k \in 1..8 : Times(8, r)[k] = 2
      BY <3>1, <3>2, UniformTimes
    <3>. QED
      BY <3>3 DEF r
  <2>2. Times(4, NlocT) \in Seq(Nat) /\ Len(Times(4, NlocT)) = 8 /\ \A k \in 1..8 : Times(4, NlocT)[k] = 2
    <3>1. /\ NlocT \in Seq(Nat) /\ NlocT # <<>> /\ Len(NlocT) = 2 /\ NlocT[1] = 2
          /\ \A i \in 1..Len(NlocT) : NlocT[i] = NlocT[1]
      BY DEF NlocT
    <3>2. 4 * Len(NlocT) = 8
      BY <3>1
    <3>. QED
      BY <3>1, <3>2, UniformTimes
  <2>. QED
    BY <2>1, <2>2, SeqEqual
<1>2. Times(8, <<8, 8>>) = <<8, 8>> \o Times(7, <<8, 8>>)
  <2> DEFINE r == <<8, 8>>
             s == Times(7, r)
             t == Times(8, r)
             u == r \o s
  <2>1. r \in Seq(Nat) /\ r # <<>> /\ Len(r) = 2 /\ r[1] = 8 /\ \A i \in 1..Len(r) : r[i] = r[1]
    OBVIOUS
  <2> HIDE DEF r
  <2>2. s \in Seq(Nat) /\ Len(s) = 14 /\ \A k \in 1..14 : s[k] = 8
    <3>1. 7 * Len(r) = 14
      BY <2>1
    <3>. QED
      BY <2>1, <3>1, UniformTimes
  <2>3. t \in Seq(Nat) /\ Len(t) = 16 /\ \A k \in 1..16 : t[k] = 8
    <3>1. 8 * Len(r) = 16
      BY <2>1
    <3>. QED
      BY <2>1, <3>1, UniformTimes
  <2> HIDE DEF s, t
  <2>4. /\ u \in Seq(Nat) /\ Len(u) = Len(r) + Len(s)
        /\ \A k \in 1..(Len(r) + Len(s)) : u[k] = IF k <= Len(r) THEN r[k] ELSE s[k - Len(r)]
    BY <2>1, <2>2, ConcatProperties
  <2> HIDE DEF u
  <2>5. ASSUME NEW k \in 1..16 PROVE u[k] = 8
    <3>1. Len(r) + Len(s) = 16 /\ (k <= 2 => k \in 1..Len(r)) /\ (~(k <= 2) => k - 2 \in 1..14)
      BY <2>1, <2>2
    <3>. QED
      BY <2>1, <2>2, <2>4, <3>1
  <2>6. u \in Seq(Nat) /\ Len(u) = 16
    BY <2>1, <2>2, <2>4
  <2>7. t = u
    BY <2>3, <2>5, <2>6, SeqEqual
  <2>. QED
    BY <2>7 DEF r, s, t, u
<1>3. ObjHeader \o <<2, 2, 4>> \o Times(8, <<2>>) = BtreeNodePhysT
  BY <1>1 DEF ObjHeader, BtreeNodePhysT, ObjPhysT
<1>4. <<8, 8, 8, 8, 8, 8>> = JXattrDstreamT
  BY DEF JXattrDstreamT, JDstreamT
<1>5. <<4, 4, 8, 8, 8, 8, 8, 8>> = OmapCleanupStateT
  BY DEF OmapCleanupStateT, OmapKeyT
<1>6. <<4, 8, 8>> = OmapReapStateT
  BY DEF OmapReapStateT, OmapKeyT
<1>7. <<8, 8, 8>> = SpacemanFreeQueueEntryT
  BY DEF SpacemanFreeQueueEntryT, SpacemanFreeQueueKeyT
<1>8. <<4, 4, 4, 4, 4, 4, 8, 8>> = BtreeInfoT
  BY DEF BtreeInfoT, BtreeInfoFixedT
<1>9. Times(8, <<8, 8>>) \o <<2, 2, 4>> = SpacemanAllocationZoneInfoPhysT
  BY <1>2 DEF SpacemanAllocationZoneInfoPhysT, SpacemanAllocationZoneBoundariesT,
     SmAllocZoneNumPreviousBoundaries
<1>. QED
  BY <1>3, <1>4, <1>5, <1>6, <1>7, <1>8, <1>9

LEMMA PlainReaders ==
  /\ Plain(parseBTreeNode) /\ Plain(parseExtendedAttributeDataStream) /\ Plain(parseOmapCleanupState)
  /\ Plain(parseSpacemanFreeQueueEntry) /\ Plain(parseDataZoneInfoStruct)
<1>1. Plain(parseBTreeNode)
  <2>1. parseBTreeNode = CheckedLast(With(Reader(56, BtreeNodePhysT, BtreeNodePhysT), Rest))
    BY SameFields, Zenon DEF parseBTreeNode
  <2>2. 56 \in Nat /\ Fields(BtreeNodePhysT, 56) /\ Rest \in PlainTails
    BY ObjectSizes, SomeTails
  <2>. QED
    BY <2>1, <2>2, PlainReader, Zenon
<1>2. Plain(parseExtendedAttributeDataStream)
  <2>1. 48 \in Nat /\ Fields(JXattrDstreamT, 48)
    BY FileSystemSizes
  <2>. QED
    BY <2>1, SameFields, PlainReader, Zenon DEF parseExtendedAttributeDataStream
<1>3. Plain(parseOmapCleanupState)
  <2>1. 56 \in Nat /\ Fields(OmapCleanupStateT, 56)
    BY ReaperSizes
  <2>. QED
    BY <2>1, SameFields, PlainReader, Zenon DEF parseOmapCleanupState
<1>4. Plain(parseSpacemanFreeQueueEntry)
  <2>1. 24 \in Nat /\ Fields(SpacemanFreeQueueEntryT, 24)
    BY SpaceManagerSizes
  <2>. QED
    BY <2>1, SameFields, PlainReader, Zenon DEF parseSpacemanFreeQueueEntry
<1>5. Plain(parseDataZoneInfoStruct)
  <2>1. parseDataZoneInfoStruct = Reader(2176, SpacemanDataZoneInfoPhysT, SpacemanDataZoneInfoPhysT)
    <3>1. SdCount * SmDataZoneAllocZoneCount = 16
      BY DEF SdCount, SmDataZoneAllocZoneCount
    <3>2. Times(16, SpacemanAllocationZoneInfoPhysT) = SpacemanDataZoneInfoPhysT
      BY <3>1, Zenon DEF SpacemanDataZoneInfoPhysT
    <3>. QED
      BY <3>2 DEF parseDataZoneInfoStruct, SpacemanAllocationZoneInfoPhysT,
         SpacemanAllocationZoneBoundariesT, SmAllocZoneNumPreviousBoundaries
  <2>2. 2176 \in Nat /\ Fields(SpacemanDataZoneInfoPhysT, 2176)
    BY SpaceManagerSizes
  <2>. QED
    BY <2>1, <2>2, PlainReader
<1>. QED
  BY <1>1, <1>2, <1>3, <1>4, <1>5

\* Readers whose check asks for fewer bytes than the structure has, or more.
LEMMA PlainMismatches ==
  /\ Plain(parseOmapPhys) /\ Plain(parseSnapMetadataValue)
  /\ Plain(parseBTreeInfo) /\ Plain(parseOmapReapState) /\ Plain(parseSpaceManager)
  /\ Plain(parseFileInfoValue) /\ Plain(parseGeneralBitmapBlock)
<1>0. /\ parseOmapPhys \in Understated /\ parseSnapMetadataValue \in Understated
      /\ parseBTreeInfo \in Demanding /\ parseOmapReapState \in Demanding
      /\ parseSpaceManager \in Demanding /\ parseFileInfoValue \in Demanding
      /\ parseGeneralBitmapBlock \in Demanding
  BY Zenon DEF Understated, Demanding
<1>1. Plain(parseOmapPhys)
  <2>1. parseOmapPhys = Parts(72, OmapPhysT, <<>>, OmapPhysT, 0, None)
    BY ReaderForm DEF parseOmapPhys, OmapPhysT, ObjHeader, ObjPhysT
  <2>2. Fields(OmapPhysT, 88) /\ None \in PlainTails
    BY ObjectSizes, SomeTails
  <2>. QED
    BY <1>0, <2>1, <2>2, PlainParts
<1>2. Plain(parseSnapMetadataValue)
  <2>1. parseSnapMetadataValue = Parts(38, JSnapMetadataValT, <<>>, JSnapMetadataValT, 0, Name)
    <3>1. parseSnapMetadataValue = With(Reader(38, JSnapMetadataValT, JSnapMetadataValT), Name)
      BY DEF parseSnapMetadataValue, JSnapMetadataValT
    <3>. QED
      BY <3>1, WithForm
  <2>2. Fields(JSnapMetadataValT, 50) /\ Name \in PlainTails
    BY FileSystemSizes, SomeTails
  <2>. QED
    BY <1>0, <2>1, <2>2, PlainParts
<1>3. Plain(parseBTreeInfo)
  <2>1. parseBTreeInfo = Parts(48, BtreeInfoT, <<>>, BtreeInfoT, 0, None)
    BY ReaderForm, SameFields, Zenon DEF parseBTreeInfo
  <2>2. Fields(BtreeInfoT, 40) /\ None \in PlainTails
    BY ObjectSizes, SomeTails
  <2>. QED
    BY <1>0, <2>1, <2>2, PlainParts
<1>4. Plain(parseOmapReapState)
  <2>1. parseOmapReapState = Parts(28, OmapReapStateT, <<>>, OmapReapStateT, 0, None)
    BY ReaderForm, SameFields DEF parseOmapReapState
  <2>2. Fields(OmapReapStateT, 20) /\ None \in PlainTails
    BY ReaperSizes, SomeTails
  <2>. QED
    BY <1>0, <2>1, <2>2, PlainParts
<1>5. Plain(parseSpaceManager)
  <2> DEFINE l == ObjHeader \o <<4, 4, 4, 4>> \o Times(2, <<8, 8, 4, 4, 8, 4, 4, 8, 8>>)
                    \o <<4, 4, 8, 4, 4, 8, 8, 8, 8>> \o Times(3, <<8, 8, 8, 2, 2, 4, 8>>)
                    \o <<2, 2, 4, 4, 4, 4, 4>> \o Times(16, Times(8, <<8, 8>>) \o <<2, 2, 4>>)
  <2>1. l = SpacemanPhysT
    <3>1. SdCount * SmDataZoneAllocZoneCount = 16
      BY DEF SdCount, SmDataZoneAllocZoneCount
    <3>2. Times(16, Times(8, <<8, 8>>) \o <<2, 2, 4>>) = SpacemanDataZoneInfoPhysT
      BY <3>1, SameFields, Zenon DEF SpacemanDataZoneInfoPhysT
    <3>. QED
      BY <3>2, Zenon DEF SpacemanPhysT, ObjHeader, ObjPhysT, SdCount, SpacemanDeviceT, SfqCount,
         SpacemanFreeQueueT
  <2>2. parseSpaceManager = CheckedLast(Reader(2700, l, SpacemanPhysT))
    BY Zenon DEF parseSpaceManager
  <2> DEFINE m == 2700
  <2>3. m = 2700
    OBVIOUS
  <2> HIDE DEF l, m
  <2>4. parseSpaceManager = CheckedLast(Reader(m, SpacemanPhysT, SpacemanPhysT))
    BY <2>1, <2>2, <2>3
  <2>5. parseSpaceManager = Parts(m, SpacemanPhysT, <<>>, SpacemanPhysT, Len(SpacemanPhysT), None)
    BY <2>4, CheckedLastForm
  <2>6. Fields(SpacemanPhysT, 2536) /\ None \in PlainTails
    BY SpaceManagerSizes, SomeTails
  <2>. QED
    BY <1>0, <2>3, <2>5, <2>6, PlainParts
<1>6. Plain(parseFileInfoValue)
  <2> DEFINE t == [Name EXCEPT !.mask = 256, !.max = 64]
  <2>1. parseFileInfoValue = With(Reader(4, JFileDataHashValT, JFileDataHashValT), t)
    BY DEF parseFileInfoValue, JFileDataHashValT
  <2>2. Fields(JFileDataHashValT, 3) /\ t \in PlainTails
    BY ReaperSizes, SomeTails
  <2> HIDE DEF t
  <2>3. parseFileInfoValue = Parts(4, JFileDataHashValT, <<>>, JFileDataHashValT, 0, t)
    BY <2>1, WithForm
  <2>. QED
    BY <1>0, <2>2, <2>3, PlainParts
<1>7. Plain(parseGeneralBitmapBlock)
  <2>1. parseGeneralBitmapBlock = Parts(40, GbitmapBlockPhysT, <<>>, GbitmapBlockPhysT, 0, Rest)
    <3>1. parseGeneralBitmapBlock = With(Reader(40, GbitmapBlockPhysT, GbitmapBlockPhysT), Rest)
      BY DEF parseGeneralBitmapBlock, GbitmapBlockPhysT, ObjHeader, ObjPhysT
    <3>. QED
      BY <3>1, WithForm
  <2>2. Fields(GbitmapBlockPhysT, 32) /\ Rest \in PlainTails
    BY VolumeSizes, SomeTails
  <2>. QED
    BY <1>0, <2>1, <2>2, PlainParts
<1>. QED
  BY <1>1, <1>2, <1>3, <1>4, <1>5, <1>6, <1>7

\* Readers of what was written before, and of nothing behind it.
Own(r) == Plain(r) /\ r.tail = None

LEMMA PlainReadBack ==
  ASSUME NEW n \in Nat, NEW f, Fields(f, n), NEW g, NEW w, w = f
  PROVE  Own(ReadBack(Reader(n, f, g), w))
<1> DEFINE p == Parts(n, f, <<>>, g, 0, None)
           r == ReadBack(p, w)
<1>1. r.min = n /\ r.layout = f /\ r.opt = <<>> /\ r.fills = f /\ r.tail = None
  BY DEF ReadBack, Parts
<1>2. Reader(n, f, g) = p
  BY ReaderForm
<1>3. None \in PlainTails
  BY SomeTails
<1> HIDE DEF p
<1>4. Own(r)
  <2> HIDE DEF r
  <2>. QED
    BY <1>1, <1>3 DEF Own, Plain, Fields
<1>. QED
  BY <1>2, <1>4

LEMMA PlainRewritten == \A r \in Rewritten : Own(r)
<1>1. Own(GetChunkInfoReader)
  BY SpaceManagerSizes, PlainReadBack DEF GetChunkInfoReader, parseChunkInfo, ChunkInfoT
<1>2. Own(getDeviceReader)
  BY SpaceManagerSizes, PlainReadBack DEF getDeviceReader, parseSpacemanDevice, SpacemanDeviceT
<1>3. Own(GetFreeQueue)
  BY SpaceManagerSizes, PlainReadBack DEF GetFreeQueue, parseSpacemanFreeQueue, SpacemanFreeQueueT
<1>4. Own(GetCurrentBoundaries) /\ Own(GetPreviousBoundary)
  BY SpaceManagerSizes, PlainReadBack
  DEF GetCurrentBoundaries, GetPreviousBoundary, parseAllocationZoneBoundaries, SpacemanAllocationZoneBoundariesT
<1>5. <<8, 8>> \o Times(7, <<8, 8>>) \o <<2, 2, 4>> = SpacemanAllocationZoneInfoPhysT
  BY Zenon DEF SpacemanAllocationZoneInfoPhysT, SpacemanAllocationZoneBoundariesT, SmAllocZoneNumPreviousBoundaries
<1>6. Own(GetAllocationZoneReader)
  <2>1. 136 \in Nat /\ Fields(SpacemanAllocationZoneInfoPhysT, 136)
    BY SpaceManagerSizes
  <2>. QED
    BY <1>5, <2>1, SameFields, PlainReadBack, Zenon DEF GetAllocationZoneReader, parseAllocationZoneInfo
<1>7. Own(GetDataZoneInfo)
  <2> DEFINE f == Times(16, SpacemanAllocationZoneInfoPhysT)
  <2>1. 2176 \in Nat /\ Fields(f, 2176)
    <3>1. SdCount * SmDataZoneAllocZoneCount = 16
      BY DEF SdCount, SmDataZoneAllocZoneCount
    <3>2. f = SpacemanDataZoneInfoPhysT
      BY <3>1, Zenon DEF SpacemanDataZoneInfoPhysT
    <3>. QED
      BY <3>2, SpaceManagerSizes
  <2>2. GetDataZoneInfo = ReadBack(Reader(2176, f, SpacemanDataZoneInfoPhysT), f)
    <3>1. parseDataZoneInfoStruct = Reader(2176, f, SpacemanDataZoneInfoPhysT)
      BY DEF parseDataZoneInfoStruct, SpacemanAllocationZoneInfoPhysT,
         SpacemanAllocationZoneBoundariesT, SmAllocZoneNumPreviousBoundaries
    <3>2. GetDataZoneInfo = ReadBack(parseDataZoneInfoStruct, f)
      BY SameFields, Zenon DEF GetDataZoneInfo
    <3>. QED
      BY <3>1, <3>2
  <2> HIDE DEF f
  <2>. QED
    BY <2>1, <2>2, PlainReadBack
<1>. QED
  BY <1>1, <1>2, <1>3, <1>4, <1>6, <1>7 DEF Rewritten

-----------------------------------------------------------------------------
(* Layouts that pass fields over, or begin otherwise than the structure.    *)

Widths(s, n) == s \in Seq(Int) /\ Size(s) = n

LEMMA FieldsWidths == ASSUME NEW s, NEW n, Fields(s, n) PROVE Widths(s, n)
BY PositiveFields DEF Fields, Widths

LEMMA WidthsConcat ==
  ASSUME NEW s, NEW m, Widths(s, m), NEW t, NEW n, Widths(t, n)
  PROVE  Widths(s \o t, m + n)
BY SizeConcat DEF Widths

\* Sequences of the same widths, read or passed over.
Alike(s, t) ==
  /\ s \in Seq(Int) /\ t \in Seq(Int) /\ Len(s) = Len(t)
  /\ \A i \in 1..Len(s) : Width(s[i]) = Width(t[i])

\* s is how l begins.
Leads(s, l) ==
  /\ s \in Seq(Int) /\ l \in Seq(Int) /\ Len(s) <= Len(l)
  /\ \A i \in 1..Len(s) : l[i] = s[i]

LEMMA ConcatElements ==
  ASSUME NEW s \in Seq(Int), NEW t \in Seq(Int)
  PROVE  /\ s \o t \in Seq(Int) /\ Len(s \o t) = Len(s) + Len(t) /\ Len(s) \in Nat /\ Len(t) \in Nat
         /\ \A i \in 1..Len(s) : (s \o t)[i] = s[i]
         /\ \A i \in 1..Len(t) : (s \o t)[Len(s) + i] = t[i]
OBVIOUS

LEMMA AlikeSize == ASSUME NEW s, NEW t, Alike(s, t), NEW n, Widths(t, n) PROVE Widths(s, n)
<1>1. /\ s \in Seq(Int) /\ t \in Seq(Int) /\ Len(s) \in 0..Len(s) /\ Len(s) = Len(t)
      /\ \A i \in 1..Len(s) : Width(s[i]) = Width(t[i])
  BY DEF Alike
<1>2. Offset(s, Len(s)) = Offset(t, Len(s))
  BY <1>1, SameOffset
<1>. QED
  BY <1>1, <1>2 DEF Size, Widths

LEMMA AlikeConcat ==
  ASSUME NEW s, NEW t, Alike(s, t), NEW u, NEW v, Alike(u, v)
  PROVE  Alike(s \o u, t \o v)
<1>1. /\ s \in Seq(Int) /\ t \in Seq(Int) /\ u \in Seq(Int) /\ v \in Seq(Int)
      /\ Len(s) = Len(t) /\ Len(u) = Len(v)
  BY DEF Alike
<1>2. s \o u \in Seq(Int) /\ t \o v \in Seq(Int) /\ Len(s \o u) = Len(t \o v)
  <2>1. s \o u \in Seq(Int) /\ Len(s \o u) = Len(s) + Len(u)
    BY <1>1, ConcatElements
  <2>2. t \o v \in Seq(Int) /\ Len(t \o v) = Len(t) + Len(v)
    BY <1>1, ConcatElements
  <2>. QED
    BY <1>1, <2>1, <2>2
<1>3. ASSUME NEW i \in 1..Len(s \o u) PROVE Width((s \o u)[i]) = Width((t \o v)[i])
  <2>1. CASE i \in 1..Len(s)
    BY <1>1, <2>1, ConcatElements DEF Alike
  <2>2. CASE i \notin 1..Len(s)
    <3>1. i - Len(s) \in 1..Len(u) /\ i = Len(s) + (i - Len(s))
      BY <1>1, <2>2, ConcatElements
    <3>2. (s \o u)[i] = u[i - Len(s)] /\ (t \o v)[i] = v[i - Len(s)]
      BY <1>1, <3>1, ConcatElements
    <3>. QED
      BY <3>1, <3>2 DEF Alike
  <2>. QED
    BY <2>1, <2>2
<1>. QED
  BY <1>2, <1>3 DEF Alike

LEMMA AlikeItself == ASSUME NEW s \in Seq(Int) PROVE Alike(s, s)
BY DEF Alike

LEMMA LeadsConcat ==
  ASSUME NEW s, NEW l, Leads(s, l), NEW t \in Seq(Int)
  PROVE  Leads(s, l \o t)
<1>1. s \in Seq(Int) /\ l \in Seq(Int) /\ Len(s) <= Len(l) /\ Len(s) \in Nat /\ Len(l) \in Nat
  BY DEF Leads
<1>2. /\ l \o t \in Seq(Int) /\ Len(l \o t) = Len(l) + Len(t) /\ Len(t) \in Nat
      /\ \A i \in 1..Len(l) : (l \o t)[i] = l[i]
  BY <1>1, ConcatElements
<1>3. ASSUME NEW i \in 1..Len(s) PROVE (l \o t)[i] = s[i]
  <2>1. i \in 1..Len(l)
    BY <1>1
  <2>. QED
    BY <1>2, <2>1 DEF Leads
<1>. QED
  BY <1>1, <1>2, <1>3 DEF Leads

LEMMA LeadsItself == ASSUME NEW s \in Seq(Int) PROVE Leads(s, s)
BY DEF Leads

LEMMA LeadsFurther == ASSUME NEW s, NEW l, Leads(s, l), NEW m, Leads(l, m) PROVE Leads(s, m)
<1>1. /\ s \in Seq(Int) /\ m \in Seq(Int) /\ Len(s) \in Nat /\ Len(l) \in Nat /\ Len(m) \in Nat
      /\ Len(s) <= Len(l) /\ Len(l) <= Len(m)
  BY DEF Leads
<1>2. ASSUME NEW i \in 1..Len(s) PROVE m[i] = s[i]
  <2>1. i \in 1..Len(l)
    BY <1>1
  <2>2. m[i] = l[i] /\ l[i] = s[i]
    BY <2>1 DEF Leads
  <2>. QED
    BY <2>2
<1>. QED
  BY <1>1, <1>2 DEF Leads

LEMMA LeadsFirst == ASSUME NEW s, NEW l, Leads(s, l), Len(s) > 0 PROVE l[1] = s[1]
<1>1. s \in Seq(Int) /\ 1 \in 1..Len(s)
  BY DEF Leads
<1>. QED
  BY <1>1 DEF Leads

LEMMA MirrorLead ==
  ASSUME NEW r, NEW s, NEW t, Alike(s, t), Leads(s, r.layout), Leads(t, r.fills),
         FieldsInPlace(r) = Len(s),
         Len(s) < Len(r.layout) =>
           /\ Len(s) < Len(r.fills)
           /\ r.layout[Len(s) + 1] < 0 \/ Width(r.layout[Len(s) + 1]) # Width(r.fills[Len(s) + 1])
  PROVE  Mirrors(r)
<1>1. Len(s) \in 0..Len(r.layout) /\ Len(s) <= Len(r.fills)
  BY DEF Alike, Leads
<1>2. \A i \in 1..Len(s) : Width(r.layout[i]) = Width(r.fills[i])
  BY DEF Alike, Leads
<1>. QED
  BY <1>1, <1>2 DEF Mirrors

\* The pieces such layouts are made of.
LEMMA LayoutPieces ==
  /\ Widths(ObjHeader, 32) /\ Widths(WideHeader, 56) /\ Widths(ErStatePhysHeaderT, 40)
  /\ Len(ObjHeader) = 5 /\ ObjHeader[1] = 8 /\ ObjHeader[2] = 8 /\ ObjHeader = ObjPhysT
  /\ Len(WideHeader) = 5 /\ WideHeader[1] = 32
  /\ Len(ErStatePhysHeaderT) = 7 /\ ErStatePhysHeaderT[1] = 8
  /\ Alike(<<-8>>, <<8>>) /\ Widths(<<8>>, 8) /\ Widths(<<-8>>, 8)
  /\ \A n \in Nat : Widths(Times(n, <<8>>), n * 8) /\ Len(Times(n, <<8>>)) = n
<1>1. ObjHeader = ObjPhysT
  BY DEF ObjHeader, ObjPhysT
<1>2. Widths(ObjHeader, 32) /\ Widths(ErStatePhysHeaderT, 40)
  BY <1>1, ObjectSizes, VolumeSizes, FieldsWidths
<1>3. Len(ObjHeader) = 5 /\ ObjHeader[1] = 8 /\ ObjHeader[2] = 8
  BY DEF ObjHeader
<1>4. Len(WideHeader) = 5 /\ WideHeader[1] = 32
  BY DEF WideHeader
<1>5. Widths(WideHeader, 56)
  <2>1. WideHeader \in Seq(Positive) /\ WideHeader[1] + WideHeader[2] + WideHeader[3] + WideHeader[4] + WideHeader[5] = 56
    BY DEF WideHeader, Positive
  <2>2. Fields(WideHeader, 56)
    BY <1>4, <2>1, FieldsOf5
  <2>. QED
    BY <2>2, FieldsWidths
<1>6. Len(ErStatePhysHeaderT) = 7 /\ ErStatePhysHeaderT[1] = 8
  BY DEF ErStatePhysHeaderT, ObjPhysT
<1>7. Alike(<<-8>>, <<8>>)
  BY DEF Alike, Width
<1>8. Fields(<<8>>, 8)
  BY FileSystemSizes DEF JKeyT
<1>9. Widths(<<8>>, 8) /\ Widths(<<-8>>, 8)
  BY <1>7, <1>8, FieldsWidths, AlikeSize
<1>10. ASSUME NEW n \in Nat PROVE Widths(Times(n, <<8>>), n * 8) /\ Len(Times(n, <<8>>)) = n
  <2>1. 8 \in Positive
    BY DEF Positive
  <2>2. Widths(Times(n, <<8>>), n * 8)
    BY <1>8, <2>1, FieldsTimes, FieldsWidths
  <2> DEFINE s == <<8>>
  <2>3. s \in Seq(Nat) /\ s # <<>> /\ Len(s) = 1
    OBVIOUS
  <2> HIDE DEF s
  <2>4. Len(Times(n, s)) = n * Len(s)
    BY <2>3, TimesElements
  <2>5. Len(Times(n, s)) = n
    BY <2>3, <2>4
  <2>. QED
    BY <2>2, <2>5 DEF s
<1>. QED
  BY <1>1, <1>2, <1>3, <1>4, <1>5, <1>6, <1>7, <1>9, <1>10

\* What the structure's header is to parseReaper, parseReaperList and parseIntegrityMeta.

\* parseReaper, parseReaperList and parseIntegrityMeta.
LEMMA WideReaders ==
  /\ /\ parseIntegrityMeta.min = 152 /\ parseIntegrityMeta.opt = <<>>
     /\ parseIntegrityMeta.fills = IntegrityMetaPhysT /\ parseIntegrityMeta.tail = None
     /\ Leads(WideHeader, parseIntegrityMeta.layout) /\ Widths(parseIntegrityMeta.layout, 152)
     /\ Leads(ObjHeader, IntegrityMetaPhysT)
  /\ /\ parseReaper.min = 136 /\ parseReaper.opt = <<>>
     /\ parseReaper.fills = NxReaperPhysT /\ parseReaper.tail = Then("clamped", 1)
     /\ Leads(WideHeader, parseReaper.layout) /\ Widths(parseReaper.layout, 136)
     /\ Leads(ObjHeader, NxReaperPhysT)
  /\ /\ parseReaperList.min = 72 /\ parseReaperList.opt = <<>>
     /\ parseReaperList.fills = NxReapListPhysT /\ parseReaperList.tail = Then("fitting", 40)
     /\ Leads(WideHeader, parseReaperList.layout) /\ parseReaperList.layout \in Seq(Positive)
     /\ Leads(ObjHeader, NxReapListPhysT)
<1>1. /\ parseIntegrityMeta.min = 152 /\ parseIntegrityMeta.opt = <<>>
      /\ parseIntegrityMeta.fills = IntegrityMetaPhysT /\ parseIntegrityMeta.tail = None
      /\ Leads(WideHeader, parseIntegrityMeta.layout) /\ Widths(parseIntegrityMeta.layout, 152)
      /\ Leads(ObjHeader, IntegrityMetaPhysT)
  <2> DEFINE p == <<4, 4, 4, 4, 8>>
             q == Times(9, <<8>>)
             l == WideHeader \o p \o q
  <2>1. Widths(p, 24)
    <3>1. p \in Seq(Positive) /\ Len(p) = 5 /\ p[1] + p[2] + p[3] + p[4] + p[5] = 24
      BY DEF Positive
    <3> HIDE DEF p
    <3>2. Fields(p, 24)
      BY <3>1, FieldsOf5
    <3>. QED
      BY <3>2, FieldsWidths
  <2>2. Widths(q, 72)
    BY LayoutPieces
  <2>3. parseIntegrityMeta = Reader(152, l, IntegrityMetaPhysT)
    BY Zenon DEF parseIntegrityMeta
  <2>4. IntegrityMetaPhysT = ObjHeader \o p \o q
    BY Zenon DEF IntegrityMetaPhysT, ObjHeader, ObjPhysT
  <2> HIDE DEF p, q
  <2>5. Widths(WideHeader, 56) /\ Widths(ObjHeader, 32)
    BY LayoutPieces
  <2>6. Widths(l, 152)
    <3>1. Widths(WideHeader \o p, 80)
      BY <2>1, <2>5, WidthsConcat
    <3>. QED
      BY <2>2, <3>1, WidthsConcat
  <2>7. \A h \in Seq(Int) : Leads(h, h \o p \o q)
    BY <2>1, <2>2, LeadsItself, LeadsConcat DEF Widths
  <2>8. Leads(WideHeader, l) /\ Leads(ObjHeader, IntegrityMetaPhysT)
    BY <2>4, <2>5, <2>7 DEF Widths
  <2> HIDE DEF l
  <2>. QED
    BY <2>3, <2>6, <2>8 DEF Reader
<1>2. /\ parseReaper.min = 136 /\ parseReaper.opt = <<>>
      /\ parseReaper.fills = NxReaperPhysT /\ parseReaper.tail = Then("clamped", 1)
      /\ Leads(WideHeader, parseReaper.layout) /\ Widths(parseReaper.layout, 136)
      /\ Leads(ObjHeader, NxReaperPhysT)
  <2> DEFINE p == <<8, 8, 8, 8, 4, 4, 4, 4, 8, 8, 8, 4, 4>>
             l == WideHeader \o p
             t == Then("clamped", 1)
  <2>1. Widths(p, 80)
    <3>1. /\ p \in Seq(Positive) /\ Len(p) = 13
          /\ p[1] + p[2] + p[3] + p[4] + p[5] + p[6] + p[7] + p[8] + p[9] + p[10] + p[11] + p[12] + p[13] = 80
      BY DEF Positive
    <3> HIDE DEF p
    <3>2. Fields(p, 80)
      BY <3>1, FieldsOf13
    <3>. QED
      BY <3>2, FieldsWidths
  <2>2. parseReaper = With(Reader(136, l, NxReaperPhysT), t)
    BY Zenon DEF parseReaper
  <2>3. NxReaperPhysT = ObjHeader \o p
    BY Zenon DEF NxReaperPhysT, ObjHeader, ObjPhysT
  <2> HIDE DEF p
  <2>4. Widths(WideHeader, 56) /\ Widths(ObjHeader, 32)
    BY LayoutPieces
  <2>5. Widths(l, 136)
    BY <2>1, <2>4, WidthsConcat
  <2>6. Leads(WideHeader, l) /\ Leads(ObjHeader, NxReaperPhysT)
    BY <2>1, <2>3, <2>4, LeadsItself, LeadsConcat DEF Widths
  <2> HIDE DEF l, t
  <2>7. parseReaper = Parts(136, l, <<>>, NxReaperPhysT, 0, t)
    BY <2>2, WithForm
  <2>. QED
    BY <2>5, <2>6, <2>7 DEF Parts, t
<1>3. /\ parseReaperList.min = 72 /\ parseReaperList.opt = <<>>
      /\ parseReaperList.fills = NxReapListPhysT /\ parseReaperList.tail = Then("fitting", 40)
      /\ Leads(WideHeader, parseReaperList.layout) /\ parseReaperList.layout \in Seq(Positive)
      /\ Leads(ObjHeader, NxReapListPhysT)
  <2> DEFINE p == <<8, 4, 4, 4, 4, 4, 4>>
             l == WideHeader \o p
             t == Then("fitting", 40)
  <2>1. p \in Seq(Positive) /\ WideHeader \in Seq(Positive)
    BY DEF Positive, WideHeader
  <2>2. parseReaperList = With(Reader(72, l, NxReapListPhysT), t)
    BY Zenon DEF parseReaperList
  <2>3. NxReapListPhysT = ObjHeader \o p
    BY Zenon DEF NxReapListPhysT, ObjHeader, ObjPhysT
  <2> HIDE DEF p
  <2>4. WideHeader \in Seq(Int) /\ ObjHeader \in Seq(Int) /\ p \in Seq(Int)
    BY <2>1, LayoutPieces, PositiveFields DEF Widths
  <2>5. l \in Seq(Positive)
    <3> HIDE DEF Positive
    <3>. QED
      BY <2>1
  <2>6. Leads(WideHeader, l) /\ Leads(ObjHeader, NxReapListPhysT)
    BY <2>3, <2>4, LeadsItself, LeadsConcat
  <2> HIDE DEF l, t
  <2>7. parseReaperList = Parts(72, l, <<>>, NxReapListPhysT, 0, t)
    BY <2>2, WithForm
  <2>. QED
    BY <2>5, <2>6, <2>7 DEF Parts, t
<1>. QED
  BY <1>1, <1>2, <1>3

\* The readers of the encryption rolling state.
LEMMA RollingReaders ==
  /\ /\ parseEncryptionRollingState.min = 136 /\ parseEncryptionRollingState.opt = <<>>
     /\ parseEncryptionRollingState.fills = ErStatePhysT /\ parseEncryptionRollingState.tail = None
     /\ Widths(parseEncryptionRollingState.layout, 136)
     /\ Leads(ErStatePhysHeaderT \o <<-8>>, parseEncryptionRollingState.layout)
     /\ Leads(ErStatePhysHeaderT, ErStatePhysT) /\ Len(ErStatePhysT) > 7
  /\ /\ parseEncryptionRollingV1State.min = 136 /\ parseEncryptionRollingV1State.opt = <<>>
     /\ parseEncryptionRollingV1State.fills = ErStatePhysV1T
     /\ parseEncryptionRollingV1State.tail = Then("ifFits", 8)
     /\ Widths(parseEncryptionRollingV1State.layout, 136)
     /\ Leads(ErStatePhysHeaderT \o <<-8>>, parseEncryptionRollingV1State.layout)
     /\ Leads(ErStatePhysHeaderT, ErStatePhysV1T) /\ Len(ErStatePhysV1T) > 7
<1> DEFINE h == ErStatePhysHeaderT
           z == <<-8>>
<1>1. h = ObjHeader \o <<4, 4>>
  BY DEF ErStatePhysHeaderT, ObjHeader, ObjPhysT
<1>2. Widths(h, 40) /\ Widths(z, 8) /\ Len(h) = 7
  BY LayoutPieces
<1> HIDE DEF h, z
<1>3. Widths(h \o z, 48) /\ Leads(h \o z, h \o z) /\ Leads(h, h)
  <2>1. Widths(h \o z, 40 + 8)
    BY <1>2, WidthsConcat, Zenon
  <2>2. Widths(h \o z, 48)
    BY <2>1
  <2>. QED
    BY <1>2, <2>2, LeadsItself DEF Widths
<1>4. /\ parseEncryptionRollingState.min = 136 /\ parseEncryptionRollingState.opt = <<>>
      /\ parseEncryptionRollingState.fills = ErStatePhysT /\ parseEncryptionRollingState.tail = None
      /\ Widths(parseEncryptionRollingState.layout, 136)
      /\ Leads(h \o z, parseEncryptionRollingState.layout)
      /\ Leads(h, ErStatePhysT) /\ Len(ErStatePhysT) > 7
  <2> DEFINE q == Times(11, <<8>>)
             l == h \o z \o q
  <2>1. Widths(q, 88) /\ Len(q) = 11
    <3>1. 11 \in Nat /\ 11 * 8 = 88
      OBVIOUS
    <3>. QED
      BY <3>1, LayoutPieces
  <2>2. parseEncryptionRollingState = Reader(136, l, ErStatePhysT)
    BY <1>1, Zenon DEF parseEncryptionRollingState, z
  <2>3. ErStatePhysT = h \o q
    BY Zenon DEF ErStatePhysT, h
  <2> HIDE DEF q
  <2>4. Widths(l, 136)
    BY <1>3, <2>1, WidthsConcat
  <2>5. Leads(h \o z, l) /\ Leads(h, ErStatePhysT)
    BY <1>3, <2>1, <2>3, LeadsConcat DEF Widths
  <2>6. Len(ErStatePhysT) > 7
    <3>1. h \in Seq(Int) /\ q \in Seq(Int)
      BY <1>2, <2>1 DEF Widths
    <3>2. Len(h \o q) = Len(h) + Len(q)
      BY <3>1, ConcatElements
    <3>. QED
      BY <1>2, <2>1, <2>3, <3>2
  <2> HIDE DEF l
  <2>. QED
    BY <2>2, <2>4, <2>5, <2>6 DEF Reader
<1>5. /\ parseEncryptionRollingV1State.min = 136 /\ parseEncryptionRollingV1State.opt = <<>>
      /\ parseEncryptionRollingV1State.fills = ErStatePhysV1T
      /\ parseEncryptionRollingV1State.tail = Then("ifFits", 8)
      /\ Widths(parseEncryptionRollingV1State.layout, 136)
      /\ Leads(h \o z, parseEncryptionRollingV1State.layout)
      /\ Leads(h, ErStatePhysV1T) /\ Len(ErStatePhysV1T) > 7
  <2> DEFINE q == Times(9, <<8>>)
             e == <<4, 4, 8>>
             l == h \o z \o q \o e
             t == Then("ifFits", 8)
  <2>1. Widths(q, 72) /\ Len(q) = 9
    <3>1. 9 \in Nat /\ 9 * 8 = 72
      OBVIOUS
    <3>. QED
      BY <3>1, LayoutPieces
  <2>2. Widths(e, 16) /\ Len(e) = 3
    <3>1. e \in Seq(Positive) /\ Len(e) = 3 /\ e[1] + e[2] + e[3] = 16
      BY DEF Positive
    <3> HIDE DEF e
    <3>2. Fields(e, 16)
      BY <3>1, FieldsOf3
    <3>. QED
      BY <3>1, <3>2, FieldsWidths
  <2>3. parseEncryptionRollingV1State = With(Reader(136, l, ErStatePhysV1T), t)
    BY <1>1, Zenon DEF parseEncryptionRollingV1State, z
  <2>4. ErStatePhysV1T = h \o q \o e
    BY Zenon DEF ErStatePhysV1T, h
  <2> HIDE DEF q, e
  <2>5. Widths(l, 136) /\ Widths(h \o q, 112)
    <3>1. Widths(h \o z \o q, 120) /\ Widths(h \o q, 112)
      BY <1>2, <1>3, <2>1, WidthsConcat
    <3>. QED
      BY <2>2, <3>1, WidthsConcat
  <2>6. Leads(h \o z, l) /\ Leads(h, ErStatePhysV1T)
    <3>1. q \in Seq(Int) /\ e \in Seq(Int)
      BY <2>1, <2>2 DEF Widths
    <3>2. Leads(h \o z, h \o z \o q) /\ Leads(h, h \o q)
      BY <1>3, <3>1, LeadsConcat
    <3>. QED
      BY <2>4, <3>1, <3>2, LeadsConcat
  <2>7. Len(ErStatePhysV1T) > 7
    <3>1. Len(h \o q) = 16
      <4>1. h \in Seq(Int) /\ q \in Seq(Int)
        BY <1>2, <2>1 DEF Widths
      <4>2. Len(h \o q) = Len(h) + Len(q)
        BY <4>1, ConcatElements
      <4>. QED
        BY <1>2, <2>1, <4>2
    <3>. QED
      BY <2>2, <2>4, <2>5, <3>1, ConcatElements DEF Widths
  <2> HIDE DEF l, t
  <2>8. parseEncryptionRollingV1State = Parts(136, l, <<>>, ErStatePhysV1T, 0, t)
    BY <2>3, WithForm
  <2>. QED
    BY <2>5, <2>6, <2>7, <2>8 DEF Parts, t
<1>. QED
  BY <1>4, <1>5 DEF h, z

\* The reader of the jumpstart record.
LEMMA JumpstartReader ==
  LET r == ReadJumpstartObjectFromPaddr
  IN  /\ r.min = 152 /\ r.opt = <<>> /\ r.fills = NxEfiJumpstartT /\ r.tail = Then("exact", 16)
      /\ Widths(r.layout, 152) /\ Len(r.layout) = 6 /\ r.layout[1] = -8 /\ r.layout[2] = 4
      /\ Leads(ObjHeader, NxEfiJumpstartT)
<1> DEFINE l == <<-8, 4, 4, 4, 4, -128>>
           p == <<8, 4, 4, 4, 4, 128>>
           t == Then("exact", 16)
<1>1. ReadJumpstartObjectFromPaddr = CheckedLast(With(Reader(152, l, NxEfiJumpstartT), t))
  BY Zenon DEF ReadJumpstartObjectFromPaddr
<1>2. Alike(l, p) /\ Len(l) = 6 /\ l[1] = -8 /\ l[2] = 4
  BY DEF Alike, Width
<1>3. Widths(p, 152)
  <2>1. p \in Seq(Positive) /\ Len(p) = 6 /\ p[1] + p[2] + p[3] + p[4] + p[5] + p[6] = 152
    BY DEF Positive
  <2> HIDE DEF p
  <2>2. Fields(p, 152)
    BY <2>1, FieldsOf6
  <2>. QED
    BY <2>2, FieldsWidths
<1>4. Widths(l, 152)
  BY <1>2, <1>3, AlikeSize
<1>5. Leads(ObjHeader, NxEfiJumpstartT)
  <2> DEFINE a == <<4, 4, 4, 4>>
             b == Times(16, <<8>>)
  <2>1. NxEfiJumpstartT = ObjHeader \o a \o b
    BY Zenon DEF NxEfiJumpstartT, ObjHeader, ObjPhysT
  <2>2. a \in Seq(Int) /\ b \in Seq(Int) /\ ObjHeader \in Seq(Int)
    BY LayoutPieces DEF Widths
  <2> HIDE DEF a, b
  <2>3. Leads(ObjHeader, ObjHeader \o a)
    BY <2>2, LeadsItself, LeadsConcat
  <2>. QED
    BY <2>1, <2>2, <2>3, LeadsConcat
<1> HIDE DEF l, t
<1>6. ReadJumpstartObjectFromPaddr = Parts(152, l, <<>>, NxEfiJumpstartT, Len(l), t)
  BY <1>1, CheckedLastForm
<1>. QED
  BY <1>2, <1>4, <1>5, <1>6 DEF Parts, t

\* k fields of n bytes, in a layout and in the structure.
Pair(s, t, k, n) == Alike(s, t) /\ Len(s) = k /\ Widths(s, n)

LEMMA PairConcat ==
  ASSUME NEW s, NEW t, NEW k, NEW n, Pair(s, t, k, n), NEW u, NEW v, NEW l, NEW m, Pair(u, v, l, m)
  PROVE  Pair(s \o u, t \o v, k + l, n + m)
<1>1. Alike(s \o u, t \o v) /\ Widths(s \o u, n + m)
  BY AlikeConcat, WidthsConcat DEF Pair
<1>2. s \in Seq(Int) /\ u \in Seq(Int)
  BY DEF Pair, Widths
<1>3. Len(s \o u) = Len(s) + Len(u)
  BY <1>2, ConcatElements
<1>. QED
  BY <1>1, <1>3 DEF Pair

LEMMA PairFields == ASSUME NEW s, NEW n, Fields(s, n) PROVE Pair(s, s, Len(s), n)
BY FieldsWidths, AlikeItself DEF Pair, Widths

LEMMA TimesAlike ==
  ASSUME NEW s, NEW t, Alike(s, t), s # <<>>, NEW n \in Nat
  PROVE  Alike(Times(n, s), Times(n, t))
<1>1. /\ s \in Seq(Int) /\ t \in Seq(Int) /\ Len(s) = Len(t) /\ Len(s) \in Nat \ {0} /\ t # <<>>
      /\ n * Len(s) \in Nat
  <2>1. s \in Seq(Int) /\ t \in Seq(Int) /\ Len(s) = Len(t)
    BY DEF Alike
  <2>2. Len(s) \in Nat \ {0}
    BY <2>1, EmptySeq
  <2>. QED
    BY <2>1, <2>2, EmptySeq
<1>2. /\ Times(n, s) \in Seq(Int) /\ Len(Times(n, s)) = n * Len(s)
      /\ \A k \in 1..(n * Len(s)) : Times(n, s)[k] = s[((k - 1) % Len(s)) + 1]
  BY <1>1, TimesElements
<1>3. /\ Times(n, t) \in Seq(Int) /\ Len(Times(n, t)) = n * Len(s)
      /\ \A k \in 1..(n * Len(s)) : Times(n, t)[k] = t[((k - 1) % Len(s)) + 1]
  BY <1>1, TimesElements
<1>4. ASSUME NEW k \in 1..(n * Len(s)) PROVE ((k - 1) % Len(s)) + 1 \in 1..Len(s)
  <2>1. k - 1 \in Nat
    BY <1>1
  <2>2. (k - 1) % Len(s) \in Nat /\ (k - 1) % Len(s) < Len(s)
    BY <1>1, <2>1, Division
  <2>. QED
    BY <1>1, <2>2
<1>. QED
  BY <1>2, <1>3, <1>4 DEF Alike

\* The reader of the volume superblock: 41 fields, of which it passes over
\* the crypto state, and then what it passes over of the history.
LEMMA VolumeReader ==
  LET r == parseVolumeSuperblock
  IN  /\ r.min = 1024 /\ r.opt \in Seq(Positive) /\ r.opt # <<>> /\ r.fills = ApfsSuperblockT /\ r.tail = None
      /\ r.opt # <<16>> /\ r.layout[1] = 8 /\ r.layout[42] = -8 /\ Len(r.layout) >= 42
      /\ \E s, t : /\ Alike(s, t) /\ Len(s) = 41 /\ Leads(s \o <<-8>>, r.layout)
                   /\ Leads(t, r.fills) /\ Len(r.fills) > 41
      /\ \E n \in Nat : n <= 1024 /\ Widths(r.layout, n)
<1> DEFINE a == <<4, 4, 8, 8, 8, 8, 8, 8, 8>>
           v == <<-2, -2, -4, -4, -4, -2, -2>>
           w == WrappedMetaCryptoStateT
           c == <<4, 4, 4>>
           q == Times(14, <<8>>)
           d == <<16, 8, 8>>
           z == <<-8>>
           y == Times(8, <<-8>>)
           x == ApfsModifiedByT
           e == Times(ApfsMaxHist, ApfsModifiedByT)
           f == <<ApfsVolnameLen, 4, 2, 2, 8, 8, 8, 8, 8, 16, 8, 8, 4, 4, 8>>
           l == ObjHeader \o a \o v \o c \o q \o d \o z \o y
<1>1. ApfsSuperblockT = ObjHeader \o a \o w \o c \o q \o d \o x \o e \o f
  BY Zenon DEF ApfsSuperblockT, ObjHeader, ObjPhysT
<1>2. parseVolumeSuperblock = [Checked(Reader(1024, l, ApfsSuperblockT), 6) EXCEPT !.opt = <<256, 4, 2>>]
  BY DEF parseVolumeSuperblock
<1>3. Pair(ObjHeader, ObjHeader, 5, 32)
  BY LayoutPieces, AlikeItself DEF Pair, Widths
<1>4. Pair(a, a, 9, 64)
  <2>1. /\ a \in Seq(Positive) /\ Len(a) = 9
        /\ a[1] + a[2] + a[3] + a[4] + a[5] + a[6] + a[7] + a[8] + a[9] = 64
    BY DEF Positive
  <2> HIDE DEF a
  <2>2. Fields(a, 64)
    BY <2>1, FieldsOf9
  <2>. QED
    BY <2>1, <2>2, PairFields
<1>5. Pair(v, w, 7, 20)
  <2>1. Alike(v, w) /\ Len(v) = 7
    BY DEF Alike, Width, WrappedMetaCryptoStateT
  <2>2. Widths(w, 20)
    BY VolumeSizes, FieldsWidths
  <2>. QED
    BY <2>1, <2>2, AlikeSize DEF Pair
<1>6. Pair(c, c, 3, 12)
  <2>1. c \in Seq(Positive) /\ Len(c) = 3 /\ c[1] + c[2] + c[3] = 12
    BY DEF Positive
  <2> HIDE DEF c
  <2>2. Fields(c, 12)
    BY <2>1, FieldsOf3
  <2>. QED
    BY <2>1, <2>2, PairFields
<1>7. Pair(q, q, 14, 112)
  <2>1. 14 \in Nat /\ 14 * 8 = 112
    OBVIOUS
  <2>2. Widths(q, 112) /\ Len(q) = 14
    BY <2>1, LayoutPieces
  <2>. QED
    BY <2>2, AlikeItself DEF Pair, Widths
<1>8. Pair(d, d, 3, 32)
  <2>1. d \in Seq(Positive) /\ Len(d) = 3 /\ d[1] + d[2] + d[3] = 32
    BY DEF Positive
  <2> HIDE DEF d
  <2>2. Fields(d, 32)
    BY <2>1, FieldsOf3
  <2>. QED
    BY <2>1, <2>2, PairFields
<1>9. Widths(z, 8)
  BY LayoutPieces
<1>10. Widths(y, 64)
  <2>1. 8 \in Nat /\ 8 * 8 = 64 /\ <<-8>> # <<>>
    OBVIOUS
  <2>2. Widths(Times(8, <<8>>), 64)
    BY <2>1, LayoutPieces
  <2>3. Alike(y, Times(8, <<8>>))
    BY <2>1, LayoutPieces, TimesAlike
  <2>. QED
    BY <2>2, <2>3, AlikeSize
<1>11. x \in Seq(Int) /\ Len(x) = 3 /\ e \in Seq(Int) /\ f \in Seq(Int)
  <2>1. x \in Seq(Int) /\ Len(x) = 3 /\ x # <<>>
    BY DEF ApfsModifiedByT, ApfsModifiedNamelen
  <2>2. e \in Seq(Int)
    BY <2>1, TimesElements DEF ApfsMaxHist
  <2>3. f \in Seq(Int)
    BY DEF ApfsVolnameLen
  <2>. QED
    BY <2>1, <2>2, <2>3
<1>12. ObjHeader[1] = 8
  BY LayoutPieces
<1> DEFINE s == ObjHeader \o a \o v \o c \o q \o d
           t == ObjHeader \o a \o w \o c \o q \o d
<1> HIDE DEF a, v, w, c, q, d, z, y, x, e, f
<1>13. Pair(s, t, 41, 272)
  <2>1. Pair(ObjHeader \o a, ObjHeader \o a, 14, 96)
    BY <1>3, <1>4, PairConcat
  <2>2. Pair(ObjHeader \o a \o v, ObjHeader \o a \o w, 21, 116)
    BY <1>5, <2>1, PairConcat
  <2>3. Pair(ObjHeader \o a \o v \o c, ObjHeader \o a \o w \o c, 24, 128)
    BY <1>6, <2>2, PairConcat
  <2>4. Pair(ObjHeader \o a \o v \o c \o q, ObjHeader \o a \o w \o c \o q, 38, 240)
    BY <1>7, <2>3, PairConcat
  <2>. QED
    BY <1>8, <2>4, PairConcat
<1>14. s[1] = 8
  <2>1. Leads(ObjHeader, s)
    <3>1. ObjHeader \in Seq(Int) /\ a \in Seq(Int) /\ v \in Seq(Int) /\ c \in Seq(Int) /\ q \in Seq(Int) /\ d \in Seq(Int)
      BY <1>3, <1>4, <1>5, <1>6, <1>7, <1>8 DEF Pair, Widths
    <3>2. Leads(ObjHeader, ObjHeader \o a \o v)
      BY <3>1, LeadsItself, LeadsConcat
    <3>. QED
      BY <3>1, <3>2, LeadsConcat
  <2>2. Len(ObjHeader) > 0
    BY <1>3 DEF Pair
  <2>3. s[1] = ObjHeader[1]
    BY <2>1, <2>2, LeadsFirst
  <2>. QED
    BY <1>12, <2>3
<1> HIDE DEF s, t
<1>15. Widths(l, 344) /\ Leads(s \o z, l) /\ l[1] = 8
  <2>1. l = s \o z \o y
    BY DEF s
  <2>2. Widths(s, 272) /\ Len(s) = 41
    BY <1>13 DEF Pair
  <2>3. Widths(s \o z, 280)
    BY <1>9, <2>2, WidthsConcat
  <2>4. Widths(s \o z \o y, 344)
    BY <1>10, <2>3, WidthsConcat
  <2>5. Leads(s \o z, s \o z \o y) /\ Leads(s, s \o z \o y)
    BY <1>9, <1>10, <2>2, <2>3, LeadsItself, LeadsConcat DEF Widths
  <2>6. l[1] = s[1]
    <3>1. Leads(s, l) /\ Len(s) > 0
      BY <2>1, <2>2, <2>5
    <3> HIDE DEF l
    <3>. QED
      BY <3>1, LeadsFirst
  <2>. QED
    BY <1>14, <2>1, <2>4, <2>5, <2>6
<1>16. Leads(t, ApfsSuperblockT) /\ Len(ApfsSuperblockT) > 41
  <2>1. ApfsSuperblockT = t \o x \o e \o f
    BY <1>1 DEF t
  <2>2. t \in Seq(Int) /\ Len(t) = 41
    BY <1>13 DEF Pair, Alike
  <2>3. t \o x \in Seq(Int) /\ Len(t \o x) = 44
    <3>1. t \o x \in Seq(Int) /\ Len(t \o x) = Len(t) + Len(x)
      BY <1>11, <2>2, ConcatElements
    <3>. QED
      BY <1>11, <2>2, <3>1
  <2>4. Leads(t, t \o x) /\ Leads(t \o x, t \o x)
    BY <1>11, <2>2, <2>3, LeadsItself, LeadsConcat
  <2>5. Leads(t, t \o x \o e) /\ Leads(t \o x, t \o x \o e)
    BY <1>11, <2>4, LeadsConcat
  <2>6. Leads(t, ApfsSuperblockT) /\ Leads(t \o x, ApfsSuperblockT)
    BY <1>11, <2>1, <2>5, LeadsConcat
  <2>. QED
    BY <2>3, <2>6 DEF Leads
<1>17. <<256, 4, 2>> \in Seq(Positive) /\ <<256, 4, 2>> # <<>> /\ <<256, 4, 2>> # <<16>>
  <2>1. Len(<<256, 4, 2>>) = 3 /\ Len(<<16>>) = 1
    OBVIOUS
  <2>. QED
    BY <2>1 DEF Positive
<1> DEFINE p == <<256, 4, 2>>
<1> HIDE DEF l, p
<1>18. parseVolumeSuperblock = Parts(1024, l, p, ApfsSuperblockT, 6, None)
  <2>1. Checked(Reader(1024, l, ApfsSuperblockT), 6) = Parts(1024, l, <<>>, ApfsSuperblockT, 6, None)
    BY CheckedForm
  <2>2. [Parts(1024, l, <<>>, ApfsSuperblockT, 6, None) EXCEPT !.opt = p] = Parts(1024, l, p, ApfsSuperblockT, 6, None)
    BY DEF Parts
  <2>. QED
    BY <1>2, <2>1, <2>2 DEF p
<1>19. Widths(parseVolumeSuperblock.layout, 344) /\ 344 \in Nat /\ 344 <= 1024
  BY <1>15, <1>18 DEF Parts
<1>20. /\ Alike(s, t) /\ Len(s) = 41 /\ Leads(s \o <<-8>>, parseVolumeSuperblock.layout)
       /\ Leads(t, parseVolumeSuperblock.fills) /\ Len(parseVolumeSuperblock.fills) > 41
  BY <1>13, <1>15, <1>16, <1>18 DEF Parts, Pair, z
<1>21. /\ parseVolumeSuperblock.min = 1024 /\ parseVolumeSuperblock.opt \in Seq(Positive)
       /\ parseVolumeSuperblock.opt # <<>> /\ parseVolumeSuperblock.opt # <<16>> /\ parseVolumeSuperblock.fills = ApfsSuperblockT
       /\ parseVolumeSuperblock.tail = None /\ parseVolumeSuperblock.layout[1] = 8
  BY <1>15, <1>17, <1>18 DEF Parts, p
<1>22. parseVolumeSuperblock.layout[42] = -8 /\ Len(parseVolumeSuperblock.layout) >= 42
  <2>1. s \in Seq(Int) /\ z \in Seq(Int) /\ Len(z) = 1 /\ z[1] = -8
    BY <1>9, <1>13 DEF Pair, Widths, z
  <2> HIDE DEF z
  <2>2. Len(s \o z) = Len(s) + Len(z) /\ \A i \in 1..Len(z) : (s \o z)[Len(s) + i] = z[i]
    BY <2>1, ConcatElements
  <2>3. Len(s) = 41 /\ 1 \in 1..Len(z) /\ 41 + 1 = 42
    BY <1>13, <2>1 DEF Pair
  <2>4. Len(s \o z) = 42 /\ (s \o z)[42] = -8
    BY <2>1, <2>2, <2>3
  <2>5. Leads(s \o z, parseVolumeSuperblock.layout) /\ 42 \in 1..42
    BY <1>20 DEF z
  <2>. QED
    BY <2>4, <2>5 DEF Leads
<1>. QED
  BY <1>19, <1>20, <1>21, <1>22

\* The readers of FieldsInPlace begin in three different ways.
LEMMA FieldsInPlaceIs ==
  /\ \A r \in {parseReaper, parseReaperList, parseIntegrityMeta} : FieldsInPlace(r) = 0
  /\ \A r \in {parseEncryptionRollingState, parseEncryptionRollingV1State} : FieldsInPlace(r) = 7
  /\ FieldsInPlace(parseVolumeSuperblock) = 41 /\ FieldsInPlace(ReadJumpstartObjectFromPaddr) = 1
  /\ \A r : r.layout[1] = r.fills[1] /\ (r.layout \in Seq(Positive) \/ r.opt = <<16>>) => FieldsInPlace(r) = Len(r.layout)
<1>1. \A r \in {parseReaper, parseReaperList, parseIntegrityMeta} : r.layout[1] = 32 /\ r.fills[1] = 8
  <2>1. Len(WideHeader) > 0 /\ WideHeader[1] = 32 /\ Len(ObjHeader) > 0 /\ ObjHeader[1] = 8
    BY LayoutPieces
  <2>2. parseReaper.layout[1] = 32 /\ parseReaper.fills[1] = 8
    BY <2>1, WideReaders, LeadsFirst
  <2>3. parseReaperList.layout[1] = 32 /\ parseReaperList.fills[1] = 8
    BY <2>1, WideReaders, LeadsFirst
  <2>4. parseIntegrityMeta.layout[1] = 32 /\ parseIntegrityMeta.fills[1] = 8
    BY <2>1, WideReaders, LeadsFirst
  <2>. QED
    BY <2>2, <2>3, <2>4
<1>2. \A r \in {parseEncryptionRollingState, parseEncryptionRollingV1State} :
        r.min = 136 /\ r.opt = <<>> /\ r.layout[1] = 8 /\ r.layout[8] = -8 /\ Len(r.layout) >= 8
  <2> DEFINE h == ErStatePhysHeaderT
             z == <<-8>>
  <2>1. h \in Seq(Int) /\ Len(h) = 7 /\ h[1] = 8 /\ z \in Seq(Int) /\ Len(z) = 1 /\ z[1] = -8
    BY LayoutPieces DEF Widths
  <2> HIDE DEF h, z
  <2>2. /\ h \o z \in Seq(Int) /\ Len(h \o z) = 8 /\ (h \o z)[1] = 8 /\ (h \o z)[8] = -8
    <3>1. /\ h \o z \in Seq(Int) /\ Len(h \o z) = Len(h) + Len(z)
          /\ \A i \in 1..Len(h) : (h \o z)[i] = h[i]
          /\ \A i \in 1..Len(z) : (h \o z)[Len(h) + i] = z[i]
      BY <2>1, ConcatElements
    <3>2. 1 \in 1..Len(h) /\ 1 \in 1..Len(z) /\ Len(h) + 1 = 8 /\ Len(h) + Len(z) = 8
      BY <2>1
    <3>. QED
      BY <2>1, <3>1, <3>2
  <2>3. ASSUME NEW l, Leads(h \o z, l) PROVE l[1] = 8 /\ l[8] = -8 /\ Len(l) >= 8
    <3>1. 1 \in 1..Len(h \o z) /\ 8 \in 1..Len(h \o z)
      BY <2>2
    <3>. QED
      BY <2>2, <2>3, <3>1 DEF Leads
  <2>. QED
    BY <2>3, RollingReaders DEF h, z
<1>3. parseVolumeSuperblock.layout[1] = 8 /\ parseVolumeSuperblock.min = 1024
  BY VolumeReader
<1>4. ReadJumpstartObjectFromPaddr.layout[1] = -8
  BY JumpstartReader
<1> DEFINE wide == {parseReaper, parseReaperList, parseIntegrityMeta}
           rolling == {parseEncryptionRollingState, parseEncryptionRollingV1State}
<1>5. /\ \A r \in wide : r \notin rolling /\ r # parseVolumeSuperblock /\ r # ReadJumpstartObjectFromPaddr
      /\ \A r \in rolling : r # parseVolumeSuperblock /\ r # ReadJumpstartObjectFromPaddr
      /\ parseVolumeSuperblock # ReadJumpstartObjectFromPaddr
  <2>1. \A r \in wide : r.layout[1] = 32
    BY <1>1
  <2>2. \A r \in rolling : r.layout[1] = 8 /\ r.min = 136
    BY <1>2
  <2> HIDE DEF wide, rolling
  <2>. QED
    BY <1>3, <1>4, <2>1, <2>2
<1>6. ASSUME NEW r \in wide PROVE FieldsInPlace(r) = 0
  <2>1. r \notin rolling /\ r # parseVolumeSuperblock /\ r # ReadJumpstartObjectFromPaddr
    BY <1>5, <1>6
  <2>. QED
    BY <1>6, <2>1 DEF FieldsInPlace
<1>7. ASSUME NEW r \in rolling PROVE FieldsInPlace(r) = 7
  <2>1. r \notin wide /\ r # parseVolumeSuperblock /\ r # ReadJumpstartObjectFromPaddr
    BY <1>5, <1>7
  <2>. QED
    BY <1>7, <2>1 DEF FieldsInPlace
<1>8. /\ FieldsInPlace(parseVolumeSuperblock) = 41
      /\ FieldsInPlace(ReadJumpstartObjectFromPaddr) = 1
  <2>1. /\ parseVolumeSuperblock \notin wide /\ parseVolumeSuperblock \notin rolling
        /\ ReadJumpstartObjectFromPaddr \notin wide /\ ReadJumpstartObjectFromPaddr \notin rolling
        /\ parseVolumeSuperblock # ReadJumpstartObjectFromPaddr
    <3> HIDE DEF wide, rolling
    <3>. QED
      BY <1>5
  <2>. QED
    BY <2>1 DEF FieldsInPlace
<1>9. \A r : r.layout[1] = r.fills[1] /\ (r.layout \in Seq(Positive) \/ r.opt = <<16>>)
             => FieldsInPlace(r) = Len(r.layout)
  <2> SUFFICES ASSUME NEW r, r.layout[1] = r.fills[1],
                      r.layout \in Seq(Positive) \/ r.opt = << 16 >>
               PROVE  FieldsInPlace(r) = Len(r.layout)
    OBVIOUS
  <2>1. r \notin {parseReaper, parseReaperList, parseIntegrityMeta}
    BY <1>1
  <2>2. r \notin {parseEncryptionRollingState, parseEncryptionRollingV1State}
    <3>1. ASSUME r \in {parseEncryptionRollingState, parseEncryptionRollingV1State} PROVE FALSE
      <4>1. r.opt = <<>> /\ r.layout[8] = -8 /\ Len(r.layout) >= 8
        BY <1>2, <3>1
      <4>2. r.layout \in Seq(Positive)
        BY <4>1
      <4>3. 8 \in 1..Len(r.layout)
        BY <4>1, <4>2
      <4>4. -8 \in Nat
        BY <4>1, <4>2, <4>3, PositiveElements
      <4>. QED
        BY <4>4
    <3>. QED
      BY <3>1
  <2>3. r # ReadJumpstartObjectFromPaddr
    <3>1. ASSUME r = ReadJumpstartObjectFromPaddr PROVE FALSE
      <4>1. r.opt = <<>> /\ r.layout[1] = -8 /\ Len(r.layout) = 6
        BY <3>1, JumpstartReader
      <4>2. r.layout \in Seq(Positive)
        BY <4>1
      <4>3. -8 \in Nat
        BY <4>1, <4>2, PositiveElements
      <4>. QED
        BY <4>3
    <3>. QED
      BY <3>1
  <2>4. r # parseVolumeSuperblock
    <3>1. ASSUME r = parseVolumeSuperblock PROVE FALSE
      <4>1. r.opt # <<16>> /\ r.layout[42] = -8 /\ Len(r.layout) >= 42
        BY <3>1, VolumeReader
      <4>2. r.layout \in Seq(Positive) /\ 42 \in 1..Len(r.layout)
        BY <4>1
      <4>3. -8 \in Nat
        BY <4>1, <4>2, PositiveElements
      <4>. QED
        BY <4>3
    <3>. QED
      BY <3>1
  <2>. QED
    BY <2>1, <2>2, <2>3, <2>4 DEF FieldsInPlace
<1>. QED
  BY <1>6, <1>7, <1>8, <1>9

\* Readers of the structure's first fields.
LEMMA LeadingMirrors ==
  ASSUME NEW r, r.layout # <<>>, Leads(r.layout, r.fills),
         r.layout \in Seq(Positive) \/ r.opt = << 16 >>
  PROVE  Mirrors(r)
<1>1. r.layout \in Seq(Int) /\ Len(r.layout) > 0
  <2>1. r.layout \in Seq(Int)
    BY DEF Leads
  <2>. QED
    BY <2>1, EmptySeq
<1>2. r.fills[1] = r.layout[1]
  BY <1>1, LeadsFirst
<1>3. FieldsInPlace(r) = Len(r.layout)
  BY <1>2, FieldsInPlaceIs
<1>4. Alike(r.layout, r.layout) /\ Leads(r.layout, r.layout)
  BY <1>1, AlikeItself, LeadsItself
<1>5. ~(Len(r.layout) < Len(r.layout))
  BY <1>1
<1>. QED
  BY <1>3, <1>4, <1>5, MirrorLead

LEMMA PlainProper == ASSUME NEW r, Plain(r) PROVE Proper(r)
<1>1. r.layout = r.fills /\ r.fills \in Seq(Positive) /\ r.fills \in Seq(Int) /\ r.opt = <<>> /\ r.min \in Nat
  BY PositiveFields DEF Plain
<1>2. r.tail \in Tails /\ r.tail.kind # "slots"
  BY DEF Plain, PlainTails
<1>3. WellFormed(r)
  BY <1>1, <1>2, EmptySeq DEF WellFormed
<1>4. Covered(r)
  BY <1>1 DEF Covered, Plain
<1>5. Accepting(r)
  <2>1. Size(r.fills) \in Nat /\ Size(r.layout) <= Size(r.fills)
    <3>1. Len(r.fills) \in 0..Len(r.fills)
      BY <1>1
    <3>. QED
      BY <1>1, <3>1, OffsetBelowSize
  <2>. QED
    BY <2>1 DEF Accepting, Plain
<1>6. Mirrors(r)
  <2>1. CASE r.layout # <<>>
    BY <1>1, <2>1, LeadsItself, LeadingMirrors
  <2>2. CASE r.layout = <<>>
    <3>1. FieldsInPlace(r) = 0
      BY <1>1, <2>2, FieldsInPlaceIs
    <3>. QED
      BY <1>1, <2>2, <3>1 DEF Mirrors
  <2>. QED
    BY <2>1, <2>2
<1>. QED
  BY <1>3, <1>4, <1>5, <1>6 DEF Proper

LEMMA CryptoValueReader == Proper(parseCryptoValue)
<1> DEFINE f == <<4>>
           p == <<20>>
           r == parseCryptoValue
<1>1. f \in Seq(Positive) /\ Len(f) = 1 /\ f[1] = 4 /\ p \in Seq(Positive) /\ f \in Seq(Int)
  BY DEF Positive
<1>2. JCryptoValT = f \o WrappedCryptoStateT
  BY Zenon DEF JCryptoValT
<1>3. parseCryptoValue = [Reader(4, f, JCryptoValT) EXCEPT !.opt = p]
  BY Zenon DEF parseCryptoValue
<1> HIDE DEF f, p, r
<1>4. Fields(JCryptoValT, 24) /\ WrappedCryptoStateT \in Seq(Int)
  BY VolumeSizes, FieldsWidths DEF Widths
<1>5. Leads(f, JCryptoValT)
  BY <1>1, <1>2, <1>4, LeadsItself, LeadsConcat
<1>6. Fields(f, 4)
  BY <1>1, FieldsOf1
<1>7. r = Parts(4, f, p, JCryptoValT, 0, None)
  <2>1. [Parts(4, f, <<>>, JCryptoValT, 0, None) EXCEPT !.opt = p] = Parts(4, f, p, JCryptoValT, 0, None)
    BY DEF Parts
  <2>. QED
    BY <1>3, <2>1, ReaderForm DEF r
<1>8. r.min = 4 /\ r.layout = f /\ r.opt = p /\ r.fills = JCryptoValT /\ r.tail = None
  BY <1>7 DEF Parts
<1>9. None \in Tails /\ None.kind = "none"
  BY SomeTails DEF PlainTails, None, Then
<1>10. WellFormed(r)
  BY <1>1, <1>4, <1>8, <1>9 DEF WellFormed, Fields
<1>11. Covered(r) /\ Accepting(r)
  BY <1>4, <1>6, <1>8, <1>9 DEF Covered, Accepting, Fields
<1>12. Mirrors(r)
  <2>1. f # <<>>
    <3>1. Len(<<>>) = 0
      OBVIOUS
    <3>. QED
      BY <1>1, <3>1
  <2>. QED
    BY <1>1, <1>5, <1>8, <2>1, LeadingMirrors
<1>. QED
  BY <1>10, <1>11, <1>12 DEF Proper, r

\* The container superblock, and what is read of its volumes.
LEMMA ContainerReaders == Proper(parseContainerSuperblock) /\ Proper(VolumeOIDs)
<1> DEFINE c == parseContainerSuperblock
           l == c.layout
           p == <<16>>
           t == [Then("slots", 8) EXCEPT !.max = 100]
           ll == ObjHeader \o <<4, 4, 8, 8, 8, 8, 16, 8, 8, 4, 4, 8, 8, 4, 4, 4, 4, 4, 4, 8, 8, 8, 4, 4>>
              \o Times(100, <<8>>) \o Times(32, <<8>>) \o <<8, 8>> \o <<8, 8, 8, 16>> \o <<8, 8>>
              \o Times(4, <<8>>) \o <<8, 8, 8>> \o <<8, 8>> \o <<8>>
<1>1. c = CheckedLast([Reader(1024, ll, NxSuperblockT) EXCEPT !.opt = p])
  BY Zenon DEF parseContainerSuperblock
<1>2. NxSuperblockT = ll \o Prange
  BY DEF NxSuperblockT, ObjHeader, ObjPhysT, Prange, NxMaxFileSystems, NxNumCounters, NxEphInfoCount
<1> HIDE DEF ll, p
<1>3. c = Parts(1024, ll, p, NxSuperblockT, Len(ll), None)
  <2>1. [Parts(1024, ll, <<>>, NxSuperblockT, 0, None) EXCEPT !.opt = p] = Parts(1024, ll, p, NxSuperblockT, 0, None)
    BY DEF Parts
  <2>2. CheckedLast(Parts(1024, ll, p, NxSuperblockT, 0, None)) = Parts(1024, ll, p, NxSuperblockT, Len(ll), None)
    BY DEF Parts, CheckedLast, Checked
  <2>. QED
    BY <1>1, <2>1, <2>2, ReaderForm
<1>4. c.min = 1024 /\ c.layout = ll /\ c.opt = p /\ c.fills = NxSuperblockT /\ c.tail = None
  BY <1>3 DEF Parts
<1>5. Fields(l, 1392) /\ Fields(NxSuperblockT, 1408)
  BY ContainerSizes
<1>6. l \in Seq(Positive) /\ l \in Seq(Int) /\ l # <<>> /\ p \in Seq(Positive) /\ Prange \in Seq(Int)
  <2>1. l \in Seq(Positive) /\ l \in Seq(Int)
    BY <1>5, FieldsWidths DEF Fields, Widths
  <2>2. l # <<>>
    <3>1. CASE l = <<>>
      <4>1. Size(l) = 0
        BY <3>1, OffsetNext, EmptySeq DEF Size
      <4>. QED
        BY <1>5, <4>1 DEF Fields
    <3>. QED
      BY <3>1
  <2>3. p \in Seq(Positive) /\ Prange \in Seq(Int)
    BY DEF p, Positive, Prange
  <2>. QED
    BY <2>1, <2>2, <2>3
<1>7. Leads(l, NxSuperblockT)
  BY <1>2, <1>4, <1>6, LeadsItself, LeadsConcat
<1>8. None \in Tails /\ None.kind = "none" /\ t \in Tails /\ t.kind = "slots"
  BY SomeTails DEF PlainTails, None, Then
<1>9. c \in Understated /\ VolumeOIDs \in Understated
  BY Zenon DEF Understated
<1> HIDE DEF c, t
<1>10. ASSUME NEW r, r \in Understated, r.min = 1024, r.layout = l, r.opt = p, r.fills = NxSuperblockT,
              r.tail \in Tails, r.tail.kind \in {"none", "slots"}, r.tail.kind = "slots" => r = VolumeOIDs
       PROVE  Proper(r)
  <2>1. WellFormed(r)
    BY <1>5, <1>6, <1>10 DEF WellFormed, Fields
  <2>2. Covered(r)
    BY <1>6, <1>10 DEF Covered
  <2>3. Accepting(r)
    BY <1>5, <1>10 DEF Accepting, Fields
  <2>4. Mirrors(r)
    BY <1>6, <1>7, <1>10, LeadingMirrors
  <2>. QED
    BY <2>1, <2>2, <2>3, <2>4 DEF Proper
<1>11. Proper(c)
  BY <1>4, <1>8, <1>9, <1>10
<1>12. Proper(VolumeOIDs)
  <2>1. VolumeOIDs = With(c, t)
    BY DEF VolumeOIDs, c, t
  <2>2. VolumeOIDs = Parts(1024, ll, p, NxSuperblockT, Len(ll), t)
    BY <1>3, <2>1 DEF Parts, With
  <2>3. VolumeOIDs.min = 1024 /\ VolumeOIDs.layout = ll /\ VolumeOIDs.opt = p
        /\ VolumeOIDs.fills = NxSuperblockT /\ VolumeOIDs.tail = t
    BY <2>2 DEF Parts
  <2>. QED
    BY <1>4, <1>8, <1>9, <1>10, <2>3
<1>. QED
  BY <1>11, <1>12 DEF c

\* The readers that do not follow the structure.
LEMMA WideProper == Proper(parseIntegrityMeta) /\ Proper(parseReaper) /\ Proper(parseReaperList)
<1>1. Len(WideHeader) > 0 /\ WideHeader[1] = 32 /\ Len(ObjHeader) > 0 /\ ObjHeader[1] = 8
  BY LayoutPieces
<1>2. ASSUME NEW r, FieldsInPlace(r) = 0, Leads(WideHeader, r.layout), Leads(ObjHeader, r.fills)
      PROVE  Mirrors(r)
  <2>1. r.layout[1] = 32 /\ r.fills[1] = 8 /\ 0 < Len(r.layout) /\ 0 < Len(r.fills)
    <3>1. r.layout[1] = WideHeader[1] /\ r.fills[1] = ObjHeader[1]
      BY <1>1, <1>2, LeadsFirst
    <3>. QED
      BY <1>1, <1>2, <3>1 DEF Leads
  <2>2. Width(r.layout[1]) # Width(r.fills[1])
    BY <2>1 DEF Width
  <2>3. 0 \in 0..Len(r.layout) /\ 0 <= Len(r.fills)
    BY <2>1, <1>2 DEF Leads
  <2>. QED
    BY <1>2, <2>1, <2>2, <2>3 DEF Mirrors
<1>3. /\ parseIntegrityMeta \in Demanding /\ parseReaper \in Demanding
      /\ parseReaperList \in Demanding /\ parseReaperList \in Understated
  BY Zenon DEF Demanding, Understated
<1>4. /\ None \in Tails /\ None.kind = "none"
      /\ Then("clamped", 1) \in Tails /\ Then("clamped", 1).kind = "clamped"
      /\ Then("fitting", 40) \in Tails /\ Then("fitting", 40).kind = "fitting"
  BY SomeTails DEF PlainTails, None, Then
<1>5. /\ IntegrityMetaPhysT \in Seq(Positive) /\ NxReaperPhysT \in Seq(Positive)
      /\ NxReapListPhysT \in Seq(Positive)
  BY ReaperSizes DEF Fields
<1>6. <<>> \in Seq(Positive)
  BY EmptySeq
<1>7. Proper(parseIntegrityMeta)
  <2>1. WellFormed(parseIntegrityMeta)
    BY WideReaders, <1>4, <1>5, <1>6 DEF WellFormed, Widths
  <2>2. Covered(parseIntegrityMeta)
    BY WideReaders DEF Covered, Widths
  <2>3. Mirrors(parseIntegrityMeta)
    BY WideReaders, <1>2, FieldsInPlaceIs
  <2>. QED
    BY <1>3, <2>1, <2>2, <2>3 DEF Proper, Accepting
<1>8. Proper(parseReaper)
  <2>1. WellFormed(parseReaper)
    BY WideReaders, <1>4, <1>5, <1>6 DEF WellFormed, Widths
  <2>2. Covered(parseReaper)
    BY WideReaders DEF Covered, Widths
  <2>3. Mirrors(parseReaper)
    BY WideReaders, <1>2, FieldsInPlaceIs
  <2>. QED
    BY <1>3, <2>1, <2>2, <2>3 DEF Proper, Accepting
<1>9. Proper(parseReaperList)
  <2>1. WellFormed(parseReaperList)
    BY WideReaders, <1>4, <1>5, <1>6, PositiveFields DEF WellFormed
  <2>2. Covered(parseReaperList)
    BY WideReaders, <1>3 DEF Covered
  <2>3. Mirrors(parseReaperList)
    BY WideReaders, <1>2, FieldsInPlaceIs
  <2>. QED
    BY <1>3, <2>1, <2>2, <2>3 DEF Proper, Accepting
<1>. QED
  BY <1>7, <1>8, <1>9

LEMMA RollingProper == Proper(parseEncryptionRollingState) /\ Proper(parseEncryptionRollingV1State)
<1> DEFINE h == ErStatePhysHeaderT
           z == <<-8>>
<1>1. h \in Seq(Int) /\ Len(h) = 7 /\ z \in Seq(Int) /\ Len(z) = 1 /\ z[1] = -8
  BY LayoutPieces DEF Widths
<1> HIDE DEF h, z
<1>2. h \o z \in Seq(Int) /\ Len(h \o z) = 8 /\ (h \o z)[8] = -8
  <2>1. /\ h \o z \in Seq(Int) /\ Len(h \o z) = Len(h) + Len(z)
        /\ \A i \in 1..Len(z) : (h \o z)[Len(h) + i] = z[i]
    BY <1>1, ConcatElements
  <2>2. 1 \in 1..Len(z) /\ Len(h) + 1 = 8 /\ Len(h) + Len(z) = 8
    BY <1>1
  <2>. QED
    BY <1>1, <2>1, <2>2
<1>3. ASSUME NEW r, FieldsInPlace(r) = 7, Leads(h \o z, r.layout), Leads(h, r.fills), Len(r.fills) > 7
      PROVE  Mirrors(r)
  <2>1. Leads(h, h \o z)
    BY <1>1, LeadsItself, LeadsConcat
  <2>2. Leads(h, r.layout)
    BY <1>3, <2>1, LeadsFurther
  <2>3. r.layout[8] = -8
    <3>1. 8 \in 1..Len(h \o z)
      BY <1>2
    <3>. QED
      BY <1>2, <1>3, <3>1 DEF Leads
  <2>4. Alike(h, h) /\ Len(h) + 1 = 8
    BY <1>1, AlikeItself
  <2>5. Len(h) < Len(r.fills) /\ r.layout[Len(h) + 1] < 0 /\ FieldsInPlace(r) = Len(h)
    BY <1>1, <1>3, <2>3, <2>4
  <2>. QED
    BY <1>3, <2>2, <2>4, <2>5, MirrorLead
<1>4. parseEncryptionRollingState \in Demanding /\ parseEncryptionRollingV1State \in Demanding
  BY Zenon DEF Demanding
<1>5. /\ None \in Tails /\ None.kind = "none"
      /\ Then("ifFits", 8) \in Tails /\ Then("ifFits", 8).kind = "ifFits"
  BY SomeTails DEF PlainTails, None, Then
<1>6. ErStatePhysT \in Seq(Positive) /\ ErStatePhysV1T \in Seq(Positive) /\ <<>> \in Seq(Positive)
  BY VolumeSizes, EmptySeq DEF Fields
<1>7. Proper(parseEncryptionRollingState)
  <2>1. WellFormed(parseEncryptionRollingState)
    BY RollingReaders, <1>5, <1>6 DEF WellFormed, Widths
  <2>2. Covered(parseEncryptionRollingState)
    BY RollingReaders DEF Covered, Widths
  <2>3. Mirrors(parseEncryptionRollingState)
    BY RollingReaders, <1>3, FieldsInPlaceIs DEF h, z
  <2>. QED
    BY <1>4, <2>1, <2>2, <2>3 DEF Proper, Accepting
<1>8. Proper(parseEncryptionRollingV1State)
  <2>1. WellFormed(parseEncryptionRollingV1State)
    BY RollingReaders, <1>5, <1>6 DEF WellFormed, Widths
  <2>2. Covered(parseEncryptionRollingV1State)
    BY RollingReaders DEF Covered, Widths
  <2>3. Mirrors(parseEncryptionRollingV1State)
    BY RollingReaders, <1>3, FieldsInPlaceIs DEF h, z
  <2>. QED
    BY <1>4, <2>1, <2>2, <2>3 DEF Proper, Accepting
<1>. QED
  BY <1>7, <1>8

LEMMA VolumeProper == Proper(parseVolumeSuperblock)
<1> DEFINE r == parseVolumeSuperblock
<1>1. PICK s, t : /\ Alike(s, t) /\ Len(s) = 41 /\ Leads(s \o <<-8>>, r.layout)
                  /\ Leads(t, r.fills) /\ Len(r.fills) > 41
  BY VolumeReader
<1>2. /\ r.min = 1024 /\ r.opt \in Seq(Positive) /\ r.fills = ApfsSuperblockT /\ r.tail = None
      /\ r.layout[42] = -8 /\ Len(r.layout) >= 42
  BY VolumeReader
<1>3. PICK n \in Nat : n <= 1024 /\ Widths(r.layout, n)
  BY VolumeReader
<1>4. None \in Tails /\ None.kind = "none"
  BY SomeTails DEF PlainTails, None, Then
<1>5. Fields(ApfsSuperblockT, 1056)
  BY VolumeSizes
<1>6. FieldsInPlace(r) = 41
  BY FieldsInPlaceIs
<1> HIDE DEF r
<1>7. WellFormed(r)
  BY <1>2, <1>3, <1>4, <1>5 DEF WellFormed, Widths, Fields
<1>8. Covered(r) /\ Accepting(r)
  BY <1>2, <1>3, <1>4, <1>5 DEF Covered, Accepting, Widths, Fields
<1>9. Mirrors(r)
  <2> DEFINE z == <<-8>>
  <2>1. z \in Seq(Int)
    OBVIOUS
  <2>2. s \in Seq(Int) /\ t \in Seq(Int) /\ Leads(s \o z, r.layout)
    BY <1>1 DEF Alike
  <2> HIDE DEF z
  <2>3. Leads(s, s \o z)
    BY <2>1, <2>2, LeadsItself, LeadsConcat
  <2>4. Leads(s, r.layout)
    BY <2>2, <2>3, LeadsFurther
  <2>5. Len(s) < Len(r.fills) /\ r.layout[Len(s) + 1] < 0 /\ FieldsInPlace(r) = Len(s)
    BY <1>1, <1>2, <1>6
  <2>. QED
    BY <1>1, <2>4, <2>5, MirrorLead
<1>. QED
  BY <1>7, <1>8, <1>9 DEF Proper, r

LEMMA JumpstartProper == Proper(ReadJumpstartObjectFromPaddr)
<1> DEFINE r == ReadJumpstartObjectFromPaddr
<1>1. /\ r.min = 152 /\ r.opt = <<>> /\ r.fills = NxEfiJumpstartT /\ r.tail = Then("exact", 16)
      /\ Widths(r.layout, 152) /\ Len(r.layout) = 6 /\ r.layout[1] = -8 /\ r.layout[2] = 4
      /\ Leads(ObjHeader, NxEfiJumpstartT)
  BY JumpstartReader
<1>2. Then("exact", 16) \in Tails /\ Then("exact", 16).kind = "exact"
  BY SomeTails DEF PlainTails, Then
<1>3. Fields(NxEfiJumpstartT, 176) /\ <<>> \in Seq(Positive)
  BY FileSystemSizes, EmptySeq
<1>4. FieldsInPlace(r) = 1
  BY FieldsInPlaceIs
<1> HIDE DEF r
<1>5. WellFormed(r)
  BY <1>1, <1>2, <1>3 DEF WellFormed, Widths, Fields
<1>6. Covered(r) /\ Accepting(r)
  BY <1>1, <1>2, <1>3 DEF Covered, Accepting, Widths, Fields
<1>7. Mirrors(r)
  <2>1. Len(ObjHeader) = 5 /\ ObjHeader[1] = 8 /\ ObjHeader[2] = 8
    BY LayoutPieces
  <2>2. r.fills[1] = 8 /\ r.fills[2] = 8 /\ Len(r.fills) >= 5
    <3>1. 1 \in 1..Len(ObjHeader) /\ 2 \in 1..Len(ObjHeader)
      BY <2>1
    <3>. QED
      BY <1>1, <2>1, <3>1 DEF Leads
  <2>3. Width(r.layout[1]) = 8 /\ Width(r.fills[1]) = 8 /\ Width(r.layout[2]) = 4 /\ Width(r.fills[2]) = 8
    <3>1. Alike(<<-8>>, <<8>>)
      BY LayoutPieces
    <3>2. Width(-8) = Width(8)
      BY <3>1 DEF Alike
    <3>3. Width(8) = 8 /\ Width(4) = 4
      BY DEF Width
    <3>. QED
      BY <1>1, <2>2, <3>2, <3>3
  <2>4. \A i \in 1..1 : i = 1
    OBVIOUS
  <2>5. 1 \in 0..Len(r.layout) /\ 1 <= Len(r.fills) /\ 1 < Len(r.fills)
    BY <1>1, <1>3, <2>2 DEF Fields
  <2>. QED
    BY <1>4, <2>3, <2>4, <2>5 DEF Mirrors
<1>. QED
  BY <1>5, <1>6, <1>7 DEF Proper, r

LEMMA ReadersAreProper == \A r \in AllReaders : Proper(r)
<1>1. \A r \in Rewritten : Proper(r)
  BY PlainRewritten, PlainProper DEF Own
<1>2. \A r \in Singles : Proper(r)
  <2>1. ASSUME NEW r \in Singles, Plain(r) PROVE Proper(r)
    BY <2>1, PlainProper
  <2>2. ASSUME NEW r \in Singles PROVE Plain(r) \/ Proper(r)
    BY Zenon, PlainContainerReaders, PlainFileSystemReaders, PlainReaperReaders, PlainSpaceManagerReaders,
       PlainVolumeReaders, PlainReaders, PlainMismatches,
       ContainerReaders, WideProper, RollingProper, VolumeProper, JumpstartProper
    DEF Singles
  <2>. QED
    BY <2>1, <2>2
<1>3. ASSUME NEW p \in Pairs
      PROVE  (Plain(p[1]) \/ Proper(p[1])) /\ (Plain(p[2]) \/ Proper(p[2]))
  BY PlainFileSystemReaders, PlainReaperReaders, PlainVolumeReaders, PlainMismatches, CryptoValueReader
  DEF Pairs, NewDataStreamIDReader, NewFileExtentReader, NewPhysicalExtentReader, NewSiblingLinkReader,
      NewSiblingMapReader, NewSnapMetadataReader, NewSnapNameReader, NewDirectoryStatsReader,
      NewExtendedAttributeReader, NewInodeReader, NewFileInfoReader, NewCryptoStateReader, NewDirectoryEntryReader
<1>4. ASSUME NEW p \in Pairs PROVE Proper(p[1]) /\ Proper(p[2])
  <2>1. Plain(p[1]) => Proper(p[1])
    BY PlainProper
  <2>2. Plain(p[2]) => Proper(p[2])
    BY PlainProper
  <2>. QED
    BY <1>3, <2>1, <2>2
<1>. QED
  BY <1>1, <1>2, <1>4 DEF AllReaders

-----------------------------------------------------------------------------
(* RecordReaders: reading a record.                                        *)

\* What holds of a part of n bytes that r reads, with c announced in it, while
\* p fields and o bytes of it are read and t are taken behind.
Within(r, n, p, o, t, res) ==
  /\ p \in 0..(Len(r.layout) + Len(r.opt)) /\ o \in Nat /\ t \in Nat /\ o + t <= n
  /\ p <= Len(r.layout) => o = Offset(r.layout, p)
  /\ p > 0 => r.min <= n
  /\ res = "reading" => t = 0

Judged(r, n, c, snd, t, res) ==
  /\ res = "panic" => \/ r \in Understated /\ n < Size(r.layout)
                      \/ r = VolumeOIDs /\ c > NxMaxFileSystems
  /\ res = "error" => \/ ~snd \/ r \in Demanding
                      \/ n < Size(r.fills) + (c % r.tail.mask) * r.tail.size
                      \/ c % r.tail.mask > r.tail.max
  /\ res = "ok" /\ r.tail.kind \in {"exact", "fitting", "ifFits"}
       /\ n >= Size(r.layout) + (c % r.tail.mask) * r.tail.size => t = (c % r.tail.mask) * r.tail.size

\* Bytes a part may have.
Holds(r, n) == n \in Nat /\ (r.tail.kind = "ifFits" => n < Word32)

RecInv ==
  /\ Len(rec) \in Nat /\ part \in 1..Len(rec) /\ count \in Nat
  /\ \A k \in 1..Len(rec) : rec[k] \in AllReaders /\ Holds(rec[k], lens[k])
  /\ Within(rdr, dataLen, pos, off, took, out)
  /\ Judged(rdr, dataLen, count, sound, took, out)

LEMMA Announced ==
  ASSUME NEW r, Proper(r), NEW c \in Nat
  PROVE  /\ c % r.tail.mask \in Nat /\ c % r.tail.mask <= c
         /\ r.tail.size \in Nat /\ (c % r.tail.mask) * r.tail.size \in Nat
<1>1. r.tail.mask \in Nat \ {0} /\ r.tail.size \in Nat
  BY DEF Proper, WellFormed, Tails
<1>2. PICK m \in Nat \ {0} : m = r.tail.mask
  BY <1>1
<1>3. PICK q \in Nat, a \in Nat : q = c \div m /\ a = c % m /\ c = q * m + a
  BY Division
<1>4. q * m \in Nat
  BY Product
<1>5. a <= c
  BY <1>3, <1>4
<1>6. a * r.tail.size \in Nat
  BY <1>1, Product
<1>. QED
  BY <1>1, <1>2, <1>3, <1>5, <1>6

LEMMA LayoutOffset ==
  ASSUME NEW r, Proper(r)
  PROVE  /\ r.layout \in Seq(Int) /\ Len(r.layout) \in Nat /\ Len(r.opt) \in Nat
         /\ Size(r.layout) \in Nat /\ Size(r.layout) = Offset(r.layout, Len(r.layout))
         /\ \A k \in 0..Len(r.layout) : Offset(r.layout, k) \in Nat /\ Offset(r.layout, k) <= Size(r.layout)
         /\ Offset(r.layout, 0) = 0
<1>1. r.layout \in Seq(Int) /\ r.opt \in Seq(Positive)
  BY DEF Proper, WellFormed
<1>2. Len(r.layout) \in Nat /\ Len(r.opt) \in Nat /\ Len(r.layout) \in 0..Len(r.layout)
  BY <1>1
<1>3. Size(r.layout) \in Nat
  BY <1>1, <1>2, OffsetBelowSize
<1>. QED
  BY <1>1, <1>2, <1>3, OffsetNext, OffsetBelowSize DEF Size

\* One field is read or passed over.
LEMMA FieldRead ==
  ASSUME NEW r, Proper(r), NEW n \in Nat, NEW p, NEW o, NEW t,
         Within(r, n, p, o, t, "reading"), n >= r.min, p < Len(r.layout),
         r.layout[p + 1] < 0 \/ o + r.layout[p + 1] <= n
  PROVE  Within(r, n, p + 1, o + Width(r.layout[p + 1]), t, "reading")
<1>1. /\ p \in Nat /\ o \in Nat /\ t = 0 /\ o = Offset(r.layout, p) /\ o <= n
      /\ p \in 0..(Len(r.layout) - 1) /\ p + 1 \in 0..Len(r.layout) /\ p + 1 \in 1..Len(r.layout)
  BY LayoutOffset DEF Within
<1>2. PICK w \in Int : w = r.layout[p + 1]
  BY <1>1, LayoutOffset
<1>3. Width(w) \in Nat /\ (w >= 0 => Width(w) = w)
  BY DEF Width
<1>4. Offset(r.layout, p + 1) = o + Width(w)
  BY <1>1, <1>2, LayoutOffset, OffsetNext
<1>5. o + Width(w) <= n
  <2>1. CASE w >= 0
    BY <1>2, <1>3, <2>1
  <2>2. CASE w < 0
    <3>1. ~(r.layout \in Seq(Positive))
      <4>1. ASSUME r.layout \in Seq(Positive) PROVE FALSE
        <5>1. w \in Nat
          BY <1>1, <1>2, <4>1, PositiveElements
        <5>. QED
          BY <2>2, <5>1
      <4>. QED
        BY <4>1
    <3>2. Size(r.layout) <= r.min /\ r.min \in Nat
      BY <3>1 DEF Proper, Covered, WellFormed
    <3>3. Offset(r.layout, p + 1) <= Size(r.layout) /\ Size(r.layout) \in Nat
      BY <1>1, LayoutOffset
    <3>. QED
      BY <1>1, <1>3, <1>4, <3>2, <3>3
  <2>. QED
    BY <2>1, <2>2
<1>6. p + 1 \in 0..(Len(r.layout) + Len(r.opt))
  <2>1. PICK a \in Nat, b \in Nat : a = Len(r.layout) /\ b = Len(r.opt)
    BY LayoutOffset
  <2>2. \A i \in 0..a : i \in 0..(a + b)
    OBVIOUS
  <2>. QED
    BY <1>1, <2>1, <2>2
<1>7. o + Width(w) \in Nat /\ o + Width(w) + t <= n
  BY <1>1, <1>3, <1>5
<1>8. p + 1 > 0 => r.min <= n
  OBVIOUS
<1>. QED
  BY <1>1, <1>2, <1>4, <1>6, <1>7, <1>8 DEF Within

\* A field that lies beyond the data is one of a reader of Understated.
LEMMA FieldBeyond ==
  ASSUME NEW r, Proper(r), NEW n \in Nat, NEW p, NEW o, NEW t,
         Within(r, n, p, o, t, "reading"), n >= r.min, p < Len(r.layout),
         r.layout[p + 1] > 0, o + r.layout[p + 1] > n
  PROVE  r \in Understated /\ n < Size(r.layout)
<1>1. /\ p \in Nat /\ o = Offset(r.layout, p) /\ o \in Nat
      /\ p \in 0..(Len(r.layout) - 1) /\ p + 1 \in 0..Len(r.layout) /\ p + 1 \in 1..Len(r.layout)
  BY LayoutOffset DEF Within
<1>2. PICK w \in Int : w = r.layout[p + 1]
  BY <1>1, LayoutOffset
<1>3. Width(w) = w
  BY <1>2 DEF Width
<1>4. Offset(r.layout, p + 1) = o + Width(w)
  BY <1>1, <1>2, LayoutOffset, OffsetNext
<1>5. Offset(r.layout, p + 1) <= Size(r.layout) /\ Size(r.layout) \in Nat
  BY <1>1, LayoutOffset
<1>6. n < Size(r.layout)
  BY <1>1, <1>2, <1>3, <1>4, <1>5
<1>7. r.min \in Nat
  BY DEF Proper, WellFormed
<1>. QED
  BY <1>5, <1>6, <1>7 DEF Proper, Covered

\* A slice that is read only if it fits.
LEMMA OptionRead ==
  ASSUME NEW r, Proper(r), NEW n \in Nat, NEW p, NEW o, NEW t,
         Within(r, n, p, o, t, "reading"), n >= r.min,
         ~(p < Len(r.layout)), p < Len(r.layout) + Len(r.opt),
         NEW q, q = IF o + r.opt[p - Len(r.layout) + 1] <= n THEN o + r.opt[p - Len(r.layout) + 1] ELSE o
  PROVE  Within(r, n, p + 1, q, t, "reading")
<1>1. PICK a \in Nat, b \in Nat : a = Len(r.layout) /\ b = Len(r.opt)
  BY LayoutOffset
<1>2. p \in 0..(a + b) /\ o \in Nat /\ t \in Nat /\ t = 0 /\ o + t <= n
  BY <1>1 DEF Within
<1>3. p \in Nat /\ p + 1 \in 0..(a + b) /\ ~(p + 1 <= a) /\ p - a + 1 \in 1..b
  <2>1. ~(p < a) /\ p < a + b
    BY <1>1
  <2>2. PICK k \in Nat : k = p
    BY <1>2
  <2>3. k + 1 \in 0..(a + b) /\ ~(k + 1 <= a) /\ k - a + 1 \in 1..b
    BY <2>1, <2>2
  <2>. QED
    BY <2>2, <2>3
<1>4. r.opt[p - a + 1] \in Nat
  <2>1. r.opt \in Seq(Positive)
    BY DEF Proper, WellFormed
  <2>. QED
    BY <1>1, <1>3, <2>1, PositiveElements
<1>5. q \in Nat /\ q + t <= n
  <2>1. q = IF o + r.opt[p - a + 1] <= n THEN o + r.opt[p - a + 1] ELSE o
    BY <1>1
  <2>. QED
    <3>1. PICK w \in Nat : w = r.opt[p - a + 1]
      BY <1>4
    <3>2. PICK i \in Nat : i = o
      BY <1>2
    <3>3. q = IF i + w <= n THEN i + w ELSE i
      BY <2>1, <3>1, <3>2
    <3>4. q \in Nat /\ q <= n
      <4>1. CASE i + w <= n
        BY <3>3, <4>1
      <4>2. CASE ~(i + w <= n)
        <5>1. q = i /\ i + 0 <= n
          BY <1>2, <3>2, <3>3, <4>2
        <5>. QED
          BY <5>1
      <4>. QED
        BY <4>1, <4>2
    <3>5. q + 0 <= n
      BY <3>4
    <3>. QED
      BY <1>2, <3>4, <3>5
<1>. QED
  BY <1>1, <1>2, <1>3, <1>5 DEF Within

\* What is taken behind the layout lies in the data, and is all that is
\* announced where that is there.
LEMMA TailTaken ==
  ASSUME rdr \in AllReaders, Holds(rdr, dataLen), count \in Nat, off \in Nat, off <= dataLen,
         rdr.opt = <<>> => off = Size(rdr.layout), ~TailError
  PROVE  /\ Taken \in Nat /\ off + Taken <= dataLen
         /\ rdr.tail.kind \in {"exact", "fitting", "ifFits"} /\ dataLen >= Size(rdr.layout) + announced * rdr.tail.size
              => Taken = announced * rdr.tail.size
<1>1. Proper(rdr)
  BY ReadersAreProper
<1>2. /\ rdr.tail.kind \in Kinds /\ rdr.tail.size \in Nat
      /\ rdr.tail.kind = "fitting" => rdr.tail.size # 0
      /\ rdr.tail.kind \in {"exact", "fitting", "ifFits"} => off = Size(rdr.layout)
  BY <1>1 DEF Proper, WellFormed, Tails
<1>3. announced \in Nat /\ announced * rdr.tail.size \in Nat /\ Size(rdr.layout) \in Nat
  BY <1>1, Announced, LayoutOffset DEF announced
<1>4. PICK n \in Nat, o \in Nat, a \in Nat, z \in Nat, s \in Nat :
        n = dataLen /\ o = off /\ a = announced /\ z = rdr.tail.size /\ s = Size(rdr.layout)
  BY <1>2, <1>3 DEF Holds
<1>5. PICK v \in Nat : v = a * z
  BY Product
<1>6. o <= n /\ n - o \in Nat /\ Left = n - o
  BY <1>4 DEF Left
<1>7. Word32 \in Nat \ {0}
  BY RecordAssumption
<1>8. CASE rdr.tail.kind \in {"none", "slots"}
  <2>1. Taken = 0
    BY <1>8 DEF Taken
  <2>. QED
    BY <1>4, <1>6, <1>8, <2>1
<1>9. CASE rdr.tail.kind = "rest"
  <2>1. Taken = n - o
    BY <1>6, <1>9 DEF Taken
  <2>. QED
    BY <1>4, <1>6, <1>9, <2>1
<1>10. CASE rdr.tail.kind = "exact"
  <2>1. Taken = v
    BY <1>4, <1>5, <1>10 DEF Taken
  <2>2. v <= n - o
    BY <1>4, <1>5, <1>6, <1>10 DEF TailError
  <2>. QED
    BY <1>4, <1>5, <1>6, <2>1, <2>2
<1>11. CASE rdr.tail.kind = "fitting"
  <2>1. Taken = z * (IF v <= n - o THEN a ELSE (n - o) \div z)
    BY <1>4, <1>5, <1>6, <1>11 DEF Taken
  <2>2. z \in Nat \ {0} /\ o = s
    BY <1>2, <1>4, <1>11
  <2>3. CASE v <= n - o
    <3>1. Taken = v
      BY <1>5, <2>1, <2>3
    <3>. QED
      BY <1>4, <1>5, <1>6, <2>3, <3>1
  <2>4. CASE ~(v <= n - o)
    <3>1. PICK q \in Nat, r \in Nat : q = (n - o) \div z /\ n - o = q * z + r
      BY <1>6, <2>2, Division
    <3>2. Taken = q * z
      BY <2>1, <2>4, <3>1
    <3>3. q * z \in Nat /\ q * z <= n - o
      <4>1. q * z \in Nat
        BY Product
      <4>. QED
        BY <1>6, <3>1, <4>1
    <3>4. ~(n >= s + v)
      BY <1>6, <2>2, <2>4
    <3>. QED
      BY <1>4, <1>5, <1>6, <3>2, <3>3, <3>4
  <2>. QED
    BY <2>3, <2>4
<1>12. CASE rdr.tail.kind = "clamped"
  <2>1. PICK e \in Nat : e = (o + a) % Word32
    BY <1>7, Division
  <2>2. Taken = LET end == IF e > n THEN n ELSE e IN IF end > o THEN end - o ELSE 0
    BY <1>4, <1>12, <2>1 DEF Taken
  <2>3. Taken \in Nat /\ Taken <= n - o
    BY <1>6, <2>2
  <2>. QED
    BY <1>4, <1>6, <1>12, <2>3
<1>13. CASE rdr.tail.kind = "ifFits"
  <2>1. PICK d \in Nat : d = v % Word32
    BY <1>7, Division
  <2>2. Taken = IF d <= n - o THEN d ELSE 0
    BY <1>4, <1>5, <1>6, <1>13, <2>1 DEF Taken
  <2>3. Taken \in Nat /\ Taken <= n - o
    BY <1>6, <2>2
  <2>4. ASSUME n >= s + v PROVE Taken = v
    <3>1. o = s /\ n < Word32
      BY <1>2, <1>4, <1>13 DEF Holds
    <3>2. v < Word32 /\ v <= n - o
      BY <1>6, <1>7, <2>4, <3>1
    <3>3. v = 0 * Word32 + v /\ 0 \in Int /\ v \in Int
      BY <1>7
    <3>4. d = v
      BY <1>7, <2>1, <3>2, <3>3, RemainderIs
    <3>. QED
      BY <2>2, <3>2, <3>4
  <2>. QED
    BY <1>4, <1>5, <1>6, <2>3, <2>4
<1>. QED
  BY <1>2, <1>8, <1>9, <1>10, <1>11, <1>12, <1>13 DEF Kinds

LEMMA FillsSize == ASSUME NEW r, Proper(r) PROVE Size(r.fills) \in Nat /\ r.fills \in Seq(Int)
<1>1. r.fills \in Seq(Int)
  BY PositiveFields DEF Proper, WellFormed
<1>2. Len(r.fills) \in 0..Len(r.fills)
  BY <1>1
<1>. QED
  BY <1>1, <1>2, OffsetBelowSize

\* A part as its reader finds it.
LEMMA PartBegins == ASSUME NEW r, Proper(r), NEW n \in Nat PROVE Within(r, n, 0, 0, 0, "reading")
<1>1. PICK a \in Nat, b \in Nat : a = Len(r.layout) /\ b = Len(r.opt)
  BY LayoutOffset
<1>2. 0 \in 0..(a + b) /\ 0 + 0 <= n /\ ~(0 > 0)
  OBVIOUS
<1>3. Offset(r.layout, 0) = 0
  BY LayoutOffset
<1>. QED
  BY <1>1, <1>2, <1>3 DEF Within

LEMMA RecInvInit == RecInit => RecInv
<1> SUFFICES ASSUME RecInit PROVE RecInv
  OBVIOUS
<1>1. Word32 \in Nat \ {0} /\ Counts \subseteq 0..(Word32 - 1)
  BY RecordAssumption
<1>2. /\ part = 1 /\ pos = 0 /\ off = 0 /\ took = 0 /\ out = "reading"
  BY DEF RecInit
<1>3. ASSUME NEW parts PROVE CountsOf(parts) \subseteq Counts \cup {0}
  <2>1. CountsOf(parts) = Counts \/ CountsOf(parts) = {0}
    BY Zenon DEF CountsOf
  <2>2. Counts \subseteq Counts \cup {0} /\ {0} \subseteq Counts \cup {0}
    OBVIOUS
  <2>. QED
    BY <2>1, <2>2, Zenon
<1>4. \A r \in AllReaders, m \in Counts \cup {0} : \A l \in LengthsOf(r, m) : l \in Nat /\ l < Word32
  <2>1. \A r \in AllReaders, m \in Counts \cup {0} : LengthsOf(r, m) \subseteq 0..(Word32 - 1)
    BY LengthAssumption
  <2>. QED
    BY <1>1, <2>1
<1>5. /\ Len(rec) \in Nat /\ 1 \in 1..Len(rec) /\ count \in Counts \cup {0}
      /\ \A k \in 1..Len(rec) : rec[k] \in AllReaders /\ Holds(rec[k], lens[k])
  <2>1. CASE \E r \in Singles : /\ rec = <<r>> /\ count \in CountsOf(<<r>>)
                                /\ \E l \in LengthsOf(r, count) : lens = <<l>>
    <3>1. PICK r \in Singles : /\ rec = <<r>> /\ count \in CountsOf(<<r>>)
                               /\ \E l \in LengthsOf(r, count) : lens = <<l>>
      BY <2>1
    <3>2. PICK l \in LengthsOf(r, count) : lens = <<l>>
      BY <3>1
    <3>3. r \in AllReaders /\ count \in Counts \cup {0}
      BY <1>3, <3>1 DEF AllReaders
    <3>4. Holds(r, l)
      BY <1>4, <3>2, <3>3 DEF Holds
    <3>5. Len(rec) = 1 /\ \A k \in 1..1 : rec[k] = r /\ lens[k] = l
      BY <3>1, <3>2
    <3>. QED
      BY <3>3, <3>4, <3>5
  <2>2. CASE \E p \in Pairs : /\ rec = p /\ count \in CountsOf(p)
                              /\ \E k \in LengthsOf(p[1], count), v \in LengthsOf(p[2], count) : lens = <<k, v>>
    <3>1. PICK p \in Pairs : /\ rec = p /\ count \in CountsOf(p)
                             /\ \E k \in LengthsOf(p[1], count), v \in LengthsOf(p[2], count) : lens = <<k, v>>
      BY <2>2
    <3>2. PICK k \in LengthsOf(p[1], count), v \in LengthsOf(p[2], count) : lens = <<k, v>>
      BY <3>1
    <3>3. p[1] \in AllReaders /\ p[2] \in AllReaders /\ count \in Counts \cup {0}
      BY <1>3, <3>1 DEF AllReaders
    <3>4. Holds(p[1], k) /\ Holds(p[2], v)
      BY <1>4, <3>2, <3>3 DEF Holds
    <3>5. Len(p) = 2
      BY <3>1 DEF Pairs, NewDataStreamIDReader, NewFileExtentReader, NewPhysicalExtentReader,
        NewSiblingLinkReader, NewSiblingMapReader, NewSnapMetadataReader, NewSnapNameReader,
        NewDirectoryStatsReader, NewExtendedAttributeReader, NewInodeReader, NewFileInfoReader,
        NewCryptoStateReader, NewDirectoryEntryReader
    <3>6. \A i \in 1..2 : i = 1 \/ i = 2
      OBVIOUS
    <3>7. lens[1] = k /\ lens[2] = v
      BY <3>2
    <3>. QED
      BY <3>1, <3>3, <3>4, <3>5, <3>6, <3>7
  <2>3. CASE \E r \in Rewritten : rec = <<r>> /\ count = 0 /\ lens = <<Size(r.fills)>>
    <3>1. PICK r \in Rewritten : rec = <<r>> /\ count = 0 /\ lens = <<Size(r.fills)>>
      BY <2>3
    <3>2. r \in AllReaders /\ r.tail = None /\ r.fills \in Seq(Int)
      BY <3>1, PlainRewritten, PositiveFields DEF AllReaders, Own, Plain
    <3>3. Size(r.fills) \in Nat
      <4>1. Len(r.fills) \in 0..Len(r.fills)
        BY <3>2
      <4>. QED
        BY <3>2, <4>1, OffsetBelowSize
    <3>4. Holds(r, Size(r.fills))
      BY <3>2, <3>3 DEF Holds, None, Then
    <3>5. Len(rec) = 1 /\ \A k \in 1..1 : rec[k] = r /\ lens[k] = Size(r.fills)
      BY <3>1
    <3>. QED
      BY <3>1, <3>2, <3>4, <3>5
  <2>. QED
    BY <2>1, <2>2, <2>3 DEF RecInit
<1>6. rdr \in AllReaders /\ Holds(rdr, dataLen) /\ count \in Nat
  BY <1>1, <1>2, <1>5 DEF rdr, dataLen
<1>7. Within(rdr, dataLen, 0, 0, 0, "reading")
  <2>1. Proper(rdr) /\ dataLen \in Nat
    BY <1>6, ReadersAreProper DEF Holds
  <2>. QED
    BY <2>1, PartBegins
<1>8. Judged(rdr, dataLen, count, sound, took, out)
  BY <1>2 DEF Judged
<1>. QED
  BY <1>2, <1>5, <1>6, <1>7, <1>8 DEF RecInv

\* What does not change, or changes only with the next part.
LEMMA RecInvSamePart ==
  ASSUME RecInv, UNCHANGED <<rec, lens, count, sound, part>>,
         Within(rdr, dataLen, pos', off', took', out'),
         Judged(rdr, dataLen, count, sound, took', out')
  PROVE  RecInv'
BY DEF RecInv, rdr, dataLen

LEMMA RecInvNext == RecInv /\ [RecNext]_recVars => RecInv'
<1> SUFFICES ASSUME RecInv, [RecNext]_recVars PROVE RecInv'
  OBVIOUS
<1>1. /\ rdr \in AllReaders /\ Holds(rdr, dataLen) /\ dataLen \in Nat /\ count \in Nat
      /\ Within(rdr, dataLen, pos, off, took, out)
      /\ Judged(rdr, dataLen, count, sound, took, out)
  BY DEF RecInv, Holds, rdr, dataLen
<1>2. Proper(rdr)
  BY <1>1, ReadersAreProper
<1>3. announced \in Nat /\ announced <= count /\ announced * rdr.tail.size \in Nat
  BY <1>1, <1>2, Announced DEF announced
<1>4. /\ Len(rdr.layout) \in Nat /\ Len(rdr.opt) \in Nat /\ Size(rdr.layout) \in Nat
      /\ Size(rdr.layout) = Offset(rdr.layout, Len(rdr.layout))
  BY <1>2, LayoutOffset
<1>6. CASE TooShort
  <2>1. out = "reading" /\ dataLen < rdr.min /\ out' = "error" /\ UNCHANGED <<rec, lens, count, sound, part, pos, off, took>>
    BY <1>6 DEF TooShort
  <2>2. Within(rdr, dataLen, pos', off', took', out')
    BY <1>1, <2>1 DEF Within
  <2>3. rdr \in Demanding \/ dataLen < Size(rdr.fills) + announced * rdr.tail.size
    <3>1. ASSUME rdr \notin Demanding PROVE dataLen < Size(rdr.fills) + announced * rdr.tail.size
      <4>1. rdr.min <= Size(rdr.fills) /\ rdr.min \in Nat
        BY <1>2, <3>1 DEF Proper, Accepting, WellFormed
      <4>2. Size(rdr.fills) \in Nat
        BY <1>2, FillsSize
      <4>. QED
        BY <1>1, <1>3, <2>1, <4>1, <4>2
    <3>. QED
      BY <3>1
  <2>4. Judged(rdr, dataLen, count, sound, took', out')
    BY <2>1, <2>3 DEF Judged, announced
  <2>. QED
    BY <2>1, <2>2, <2>4, RecInvSamePart
<1>7. CASE CheckFails
  <2>1. out = "reading" /\ ~sound /\ out' = "error" /\ UNCHANGED <<rec, lens, count, sound, part, pos, off, took>>
    BY <1>7 DEF CheckFails
  <2>2. Within(rdr, dataLen, pos', off', took', out')
    BY <1>1, <2>1 DEF Within
  <2>3. Judged(rdr, dataLen, count, sound, took', out')
    BY <2>1 DEF Judged
  <2>. QED
    BY <2>1, <2>2, <2>3, RecInvSamePart
<1>8. CASE ReadField
  <2>1. /\ out = "reading" /\ dataLen >= rdr.min /\ pos < Len(rdr.layout)
        /\ rdr.layout[pos + 1] < 0 \/ off + rdr.layout[pos + 1] <= dataLen
        /\ pos' = pos + 1 /\ off' = off + Width(rdr.layout[pos + 1])
        /\ UNCHANGED <<rec, lens, count, sound, part, took, out>>
    BY <1>8 DEF ReadField, Reading, InLayout
  <2>2. Within(rdr, dataLen, pos, off, took, "reading")
    BY <1>1, <2>1
  <2>3. Within(rdr, dataLen, pos + 1, off + Width(rdr.layout[pos + 1]), took, "reading")
    BY <1>1, <1>2, <2>1, <2>2, FieldRead
  <2>4. Within(rdr, dataLen, pos', off', took', out') /\ Judged(rdr, dataLen, count, sound, took', out')
    BY <1>1, <2>1, <2>3
  <2>. QED
    BY <2>1, <2>4, RecInvSamePart
<1>9. CASE ReadBeyond
  <2>1. /\ out = "reading" /\ dataLen >= rdr.min /\ pos < Len(rdr.layout)
        /\ rdr.layout[pos + 1] > 0 /\ off + rdr.layout[pos + 1] > dataLen
        /\ out' = "panic" /\ UNCHANGED <<rec, lens, count, sound, part, pos, off, took>>
    BY <1>9 DEF ReadBeyond, Reading, InLayout
  <2>2. Within(rdr, dataLen, pos, off, took, "reading")
    BY <1>1, <2>1
  <2>3. rdr \in Understated /\ dataLen < Size(rdr.layout)
    BY <1>1, <1>2, <2>1, <2>2, FieldBeyond
  <2>4. Within(rdr, dataLen, pos', off', took', out')
    BY <1>1, <2>1 DEF Within
  <2>5. Judged(rdr, dataLen, count, sound, took', out')
    BY <2>1, <2>3 DEF Judged
  <2>. QED
    BY <2>1, <2>4, <2>5, RecInvSamePart
<1>10. CASE ReadOptional
  <2> DEFINE w == rdr.opt[pos - Len(rdr.layout) + 1]
  <2>1. /\ out = "reading" /\ dataLen >= rdr.min /\ ~(pos < Len(rdr.layout))
        /\ pos < Len(rdr.layout) + Len(rdr.opt)
        /\ pos' = pos + 1 /\ off' = IF off + w <= dataLen THEN off + w ELSE off
        /\ UNCHANGED <<rec, lens, count, sound, part, took, out>>
    BY <1>10 DEF ReadOptional, Reading, InLayout
  <2>2. Within(rdr, dataLen, pos, off, took, "reading")
    BY <1>1, <2>1
  <2>3. PICK q : q = off'
    OBVIOUS
  <2>4. Within(rdr, dataLen, pos + 1, q, took, "reading")
    BY <1>1, <1>2, <2>1, <2>2, <2>3, OptionRead
  <2>5. Within(rdr, dataLen, pos', off', took', out') /\ Judged(rdr, dataLen, count, sound, took', out')
    BY <1>1, <2>1, <2>3, <2>4
  <2>. QED
    BY <2>1, <2>5, RecInvSamePart
<1>11. ASSUME AtTail
       PROVE  /\ out = "reading" /\ took = 0 /\ off \in Nat /\ off <= dataLen
              /\ rdr.opt = <<>> => off = Size(rdr.layout)
  <2>1. out = "reading" /\ pos = Len(rdr.layout) + Len(rdr.opt)
    BY <1>11 DEF AtTail, Reading
  <2>2. took = 0 /\ off \in Nat /\ off + took <= dataLen
    BY <1>1, <2>1 DEF Within
  <2>3. off + 0 <= dataLen
    BY <2>2
  <2>4. off <= dataLen
    BY <1>1, <2>2, <2>3
  <2>5. ASSUME rdr.opt = <<>> PROVE off = Size(rdr.layout)
    <3>1. Len(rdr.opt) = 0
      BY <2>5
    <3>2. pos = Len(rdr.layout)
      BY <1>4, <2>1, <3>1
    <3>. QED
      BY <1>1, <1>4, <3>2 DEF Within
  <2>. QED
    BY <2>1, <2>2, <2>4, <2>5
<1>12. CASE TailRefused
  <2>1. /\ AtTail /\ TailError /\ out' = "error"
        /\ UNCHANGED <<rec, lens, count, sound, part, pos, off, took>>
    BY <1>12 DEF TailRefused
  <2>2. Within(rdr, dataLen, pos', off', took', out')
    BY <1>1, <2>1 DEF Within
  <2>3. \/ rdr \in Demanding \/ announced > rdr.tail.max
        \/ dataLen < Size(rdr.fills) + announced * rdr.tail.size
    <3>1. ASSUME rdr \notin Demanding, ~(announced > rdr.tail.max)
          PROVE  dataLen < Size(rdr.fills) + announced * rdr.tail.size
      <4>1. rdr.tail.kind = "exact" /\ announced * rdr.tail.size > dataLen - off
        BY <2>1, <3>1 DEF TailError, Left
      <4>2. off = Size(rdr.layout) /\ Size(rdr.layout) <= Size(rdr.fills)
        BY <1>2, <1>11, <2>1, <3>1, <4>1 DEF Proper, WellFormed, Accepting
      <4>3. Size(rdr.fills) \in Nat
        BY <1>2, FillsSize
      <4>. QED
        BY <1>1, <1>3, <1>4, <4>1, <4>2, <4>3
    <3>. QED
      BY <3>1
  <2>4. Judged(rdr, dataLen, count, sound, took', out')
    BY <2>1, <2>3 DEF Judged, announced
  <2>. QED
    BY <2>1, <2>2, <2>4, RecInvSamePart
<1>13. CASE SlotBeyond
  <2>1. /\ AtTail /\ TailPanics /\ out' = "panic"
        /\ UNCHANGED <<rec, lens, count, sound, part, pos, off, took>>
    BY <1>13 DEF SlotBeyond
  <2>2. Within(rdr, dataLen, pos', off', took', out')
    BY <1>1, <2>1 DEF Within
  <2>3. rdr = VolumeOIDs /\ count > NxMaxFileSystems
    <3>1. rdr.tail.kind = "slots" /\ announced > rdr.tail.max
      BY <2>1 DEF TailPanics
    <3>2. rdr = VolumeOIDs /\ rdr.tail.max = NxMaxFileSystems /\ NxMaxFileSystems = 100
      BY <1>2, <3>1 DEF Proper, WellFormed, Tails, NxMaxFileSystems
    <3>3. announced > 100 /\ announced \in Nat /\ announced <= count /\ count \in Nat
      BY <1>1, <1>3, <3>1, <3>2
    <3>4. count > 100
      BY <3>3
    <3>. QED
      BY <3>2, <3>4
  <2>4. Judged(rdr, dataLen, count, sound, took', out')
    BY <2>1, <2>3 DEF Judged
  <2>. QED
    BY <2>1, <2>2, <2>4, RecInvSamePart
<1>14. CASE TakeTail /\ part < Len(rec)
  <2>1. /\ out = "reading" /\ part' = part + 1 /\ pos' = 0 /\ off' = 0 /\ took' = 0 /\ out' = "reading"
        /\ UNCHANGED <<rec, lens, count, sound>>
    BY <1>14 DEF TakeTail, AtTail, Reading
  <2>2. PICK m \in Nat, i \in Nat : m = Len(rec) /\ i = part /\ i \in 1..m
    BY DEF RecInv
  <2>3. i + 1 \in 1..m
    BY <1>14, <2>2
  <2>4. rec[i + 1] \in AllReaders /\ Holds(rec[i + 1], lens[i + 1])
    BY <2>2, <2>3 DEF RecInv
  <2>5. Within(rec[i + 1], lens[i + 1], 0, 0, 0, "reading")
    <3>1. Proper(rec[i + 1]) /\ lens[i + 1] \in Nat
      BY <2>4, ReadersAreProper DEF Holds
    <3>. QED
      BY <3>1, PartBegins
  <2>6. Judged(rec[i + 1], lens[i + 1], count, sound, 0, "reading")
    BY DEF Judged
  <2>7. rec[part]' = rec[i + 1] /\ lens[part]' = lens[i + 1]
    BY <2>1, <2>2
  <2>. QED
    BY <2>1, <2>2, <2>3, <2>5, <2>6, <2>7 DEF RecInv, rdr, dataLen
<1>15. CASE TakeTail /\ ~(part < Len(rec))
  <2>1. /\ AtTail /\ ~TailError /\ out' = "ok" /\ took' = Taken
        /\ UNCHANGED <<rec, lens, count, sound, part, pos, off>>
    BY <1>15 DEF TakeTail
  <2>2. /\ off \in Nat /\ off <= dataLen
        /\ rdr.opt = <<>> => off = Size(rdr.layout)
    BY <1>11, <2>1
  <2>3. PICK t : t = Taken
    OBVIOUS
  <2>4. /\ t \in Nat /\ off + t <= dataLen
        /\ rdr.tail.kind \in {"exact", "fitting", "ifFits"} /\ dataLen >= Size(rdr.layout) + announced * rdr.tail.size
             => t = announced * rdr.tail.size
    BY <1>1, <2>1, <2>2, <2>3, TailTaken
  <2>5. Within(rdr, dataLen, pos, off, t, "ok")
    BY <1>1, <2>4 DEF Within
  <2>6. Judged(rdr, dataLen, count, sound, t, "ok")
    BY <2>4 DEF Judged, announced
  <2>7. Within(rdr, dataLen, pos', off', took', out') /\ Judged(rdr, dataLen, count, sound, took', out')
    BY <2>1, <2>3, <2>5, <2>6
  <2>. QED
    BY <2>1, <2>7, RecInvSamePart
<1>16. CASE UNCHANGED recVars
  <2>1. Within(rdr, dataLen, pos', off', took', out') /\ Judged(rdr, dataLen, count, sound, took', out')
    BY <1>1, <1>16 DEF recVars
  <2>. QED
    BY <1>16, <2>1, RecInvSamePart DEF recVars
<1>. QED
  BY <1>6, <1>7, <1>8, <1>9, <1>10, <1>12, <1>13, <1>14, <1>15, <1>16 DEF RecNext

\* Every behaviour of the readers satisfies RecInv.
LEMMA RecordsAreRead == RecSpec => []RecInv
BY RecInvInit, RecInvNext, PTL DEF RecSpec

\* ReadersTakeCompleteRecords holds in every behaviour: no reader leaves its
\* data, or refuses a record that is complete, but for those named in it.
THEOREM CompleteRecordsTaken == RecSpec => []ReadersTakeCompleteRecords
<1>1. RecInv => ReadersTakeCompleteRecords
  <2> SUFFICES ASSUME RecInv PROVE ReadersTakeCompleteRecords
    OBVIOUS
  <2>1. /\ Within(rdr, dataLen, pos, off, took, out)
        /\ Judged(rdr, dataLen, count, sound, took, out) /\ dataLen \in Nat
    BY DEF RecInv, Holds, rdr, dataLen
  <2>2. off + took <= dataLen /\ off <= dataLen
    <3>1. PICK o \in Nat, t \in Nat : o = off /\ t = took
      BY <2>1 DEF Within
    <3>2. o + t <= dataLen
      BY <2>1, <3>1 DEF Within
    <3>. QED
      BY <2>1, <3>1, <3>2
  <2>3. ReadsStayInData
    BY <2>1, <2>2 DEF ReadsStayInData, Judged
  <2>4. CompleteRecordsAreRead
    BY <2>1 DEF CompleteRecordsAreRead, Judged, announced
  <2>. QED
    BY <2>3, <2>4 DEF ReadersTakeCompleteRecords
<1>. QED
  BY <1>1, RecordsAreRead, PTL

\* FieldsMatchStruct holds in every behaviour: every field is read where the
\* structure of internal/types has it, up to the field FieldsInPlace names.
THEOREM FieldsReadInPlace == RecSpec => []FieldsMatchStruct
<1>1. RecInv => FieldsMatchStruct
  <2> SUFFICES ASSUME RecInv PROVE FieldsMatchStruct
    OBVIOUS
  <2>1. rdr \in AllReaders /\ Within(rdr, dataLen, pos, off, took, out)
    BY DEF RecInv, rdr, dataLen
  <2>2. Proper(rdr)
    BY <2>1, ReadersAreProper
  <2>3. PICK r : r = rdr
    OBVIOUS
  <2>4. PICK k : k = FieldsInPlace(r)
    OBVIOUS
  <2>5. /\ k \in 0..Len(r.layout) /\ k <= Len(r.fills) /\ k \in Nat
        /\ \A i \in 1..k : Width(r.layout[i]) = Width(r.fills[i])
        /\ k < Len(r.layout) =>
             /\ k < Len(r.fills)
             /\ r.layout[k + 1] < 0 \/ Width(r.layout[k + 1]) # Width(r.fills[k + 1])
    BY <2>2, <2>3, <2>4, LayoutOffset DEF Proper, Mirrors
  <2>6. /\ r.layout \in Seq(Int) /\ r.fills \in Seq(Int)
        /\ Len(r.layout) \in Nat /\ Len(r.fills) \in Nat
    BY <2>2, <2>3, LayoutOffset, FillsSize
  <2>7. \A j \in 0..k : Offset(r.layout, j) = Offset(r.fills, j)
    BY <2>5, <2>6, SameOffset
  <2>8. pos \in Nat /\ (pos <= Len(r.layout) => off = Offset(r.layout, pos))
    BY <2>1, <2>2, <2>3, LayoutOffset DEF Within
  <2>9. ASSUME pos <= k PROVE off = Offset(r.fills, pos)
    <3>1. pos \in 0..k /\ pos <= Len(r.layout)
      BY <2>5, <2>6, <2>8, <2>9
    <3>. QED
      BY <2>7, <2>8, <3>1
  <2>10. ASSUME k < Len(r.layout), pos = k + 1, ~(r.layout[pos] < 0)
         PROVE  off # Offset(r.fills, pos)
    <3>1. k \in 0..(Len(r.layout) - 1) /\ k \in 0..(Len(r.fills) - 1) /\ k \in 0..k
          /\ pos <= Len(r.layout) /\ k + 1 \in 1..Len(r.layout) /\ k + 1 \in 1..Len(r.fills)
      BY <2>5, <2>6, <2>10
    <3>2. PICK x : x = Offset(r.layout, k) /\ x = Offset(r.fills, k) /\ x \in Nat
      BY <2>5, <2>6, <2>7, <3>1, OffsetNext
    <3>3. off = x + Width(r.layout[k + 1]) /\ Offset(r.fills, pos) = x + Width(r.fills[k + 1])
      BY <2>6, <2>8, <2>10, <3>1, <3>2, OffsetNext
    <3>4. PICK v \in Nat, w \in Nat : v = Width(r.layout[k + 1]) /\ w = Width(r.fills[k + 1])
      <4>1. r.layout[k + 1] \in Int /\ r.fills[k + 1] \in Int
        BY <2>6, <3>1
      <4>2. Width(r.layout[k + 1]) \in Nat /\ Width(r.fills[k + 1]) \in Nat
        BY <4>1, WidthType
      <4>. QED
        BY <4>2
    <3>5. v # w
      BY <2>5, <2>10, <3>4
    <3>. QED
      BY <3>2, <3>3, <3>4, <3>5
  <2>. QED
    BY <2>3, <2>4, <2>9, <2>10 DEF FieldsMatchStruct
<1>. QED
  BY <1>1, RecordsAreRead, PTL

================================================================================
