----------------------------- MODULE BTreeSearch -----------------------------
(***************************************************************************)
(* BinarySearcher of parsers/btrees/btree_binary_searcher.go: the binary   *)
(* searches of one B-tree node, by OID and by OID and XID, over tables of  *)
(* fixed-size (kvoff_t) and variable-size (kvloc_t) entries.               *)
(*                                                                         *)
(* A node to search is a record of                                         *)
(*   n          its key count,                                             *)
(*   fixed      HasFixedKVSize,                                            *)
(*   inData     its table begins inside the node's data,                   *)
(*   fit        how many entries of the table lie inside the data,         *)
(*   oid, xid   the key of each entry, indexed from 0 as in the code,      *)
(*   keySize    the key's length in its table entry,                       *)
(*   room       the bytes from the key's start to the end of the data.     *)
(***************************************************************************)
EXTENDS Integers

CONSTANTS
  SearchNodes,  \* the nodes searched
  Targets       \* the OIDs and XIDs searched for

ASSUME SearchAssumption ==
  /\ Targets \subseteq Nat
  /\ \A s \in SearchNodes :
       /\ s.n \in Nat /\ s.fit \in Nat
       /\ s.fixed \in BOOLEAN /\ s.inData \in BOOLEAN
       /\ \A f \in {s.oid, s.xid, s.keySize, s.room} : f \in [0..(s.n - 1) -> Nat]

VARIABLES
  snode,      \* the node
  composite,  \* FindEntryByOIDAndXID, or FindEntryByOID
  tOID, tXID, \* the key searched for
  low, high,  \* the range that is left
  best,       \* bestMatch, -1 for none
  found,      \* index of the entry returned, -1 for none
  answer      \* "called", "searching", "found", "absent" or "error"

searchVars == <<snode, composite, tOID, tXID, low, high, best, found, answer>>

SearchInit ==
  /\ snode \in SearchNodes
  /\ composite \in BOOLEAN
  /\ tOID \in Targets /\ tXID \in Targets
  /\ low = 0 /\ high = -1 /\ best = -1 /\ found = -1
  /\ answer = "called"

Stop(a) == answer' = a /\ UNCHANGED <<snode, composite, tOID, tXID, low, high, best>>

FindEntryRefused ==
  /\ answer = "called"
  /\ snode.n = 0 \/ ~snode.inData
  /\ Stop("error") /\ UNCHANGED found

FindEntry ==
  /\ answer = "called"
  /\ snode.n > 0 /\ snode.inData
  /\ high' = snode.n - 1
  /\ answer' = "searching"
  /\ UNCHANGED <<snode, composite, tOID, tXID, low, best, found>>

-----------------------------------------------------------------------------
mid == (low + high) \div 2

\* Length of the key an extracted entry has: of a fixed-size entry eight bytes
\* are kept, whatever the tree's key size; a key that does not fit is empty.
extractFixedSizeEntry(i) == IF snode.room[i] >= 8 THEN 8 ELSE 0
extractVariableSizeEntry(i) == IF snode.room[i] >= snode.keySize[i] THEN snode.keySize[i] ELSE 0
KeyLen(i) == IF snode.fixed THEN extractFixedSizeEntry(i) ELSE extractVariableSizeEntry(i)

Extracted(i) == i < snode.fit
extractOIDFromKey(i) == Extracted(i) /\ KeyLen(i) >= 8
extractOIDXIDFromKey(i) == Extracted(i) /\ KeyLen(i) >= 16
Comparable(i) == IF composite THEN extractOIDXIDFromKey(i) ELSE extractOIDFromKey(i)

Searching == answer = "searching" /\ low <= high

ExtractFails ==
  /\ Searching
  /\ ~Comparable(mid)
  /\ Stop("error") /\ UNCHANGED found

\* The entries a search by OID and XID may return.
Candidate(i) == composite /\ snode.oid[i] = tOID /\ snode.xid[i] <= tXID

\* Mutant: the middle entry stays in the range.
GoRightKeeps ==
  /\ Searching
  /\ Comparable(mid)
  /\ snode.oid[mid] < tOID \/ Candidate(mid)
  /\ low' = mid
  /\ best' = IF Candidate(mid) THEN mid ELSE best
  /\ UNCHANGED <<snode, composite, tOID, tXID, high, found, answer>>

GoRight ==
  /\ Searching
  /\ Comparable(mid)
  /\ snode.oid[mid] < tOID \/ Candidate(mid)
  /\ low' = mid + 1
  /\ best' = IF Candidate(mid) THEN mid ELSE best
  /\ UNCHANGED <<snode, composite, tOID, tXID, high, found, answer>>

GoLeft ==
  /\ Searching
  /\ Comparable(mid)
  /\ \/ snode.oid[mid] > tOID
     \/ composite /\ snode.oid[mid] = tOID /\ ~Candidate(mid)
  /\ high' = mid - 1
  /\ UNCHANGED <<snode, composite, tOID, tXID, low, best, found, answer>>

\* FindEntryByOID stops at the first entry it meets with the OID.
Match ==
  /\ Searching
  /\ Comparable(mid)
  /\ ~composite /\ snode.oid[mid] = tOID
  /\ Stop("found") /\ found' = mid

Exhausted == answer = "searching" /\ low > high

\* Without a match the search by OID returns the last entry below, the child
\* to follow in an internal node, and does so for leaves as well.
fallback == high

FallBack ==
  /\ Exhausted /\ ~composite
  /\ 0 <= fallback /\ fallback < snode.n /\ Extracted(fallback)
  /\ Stop("found") /\ found' = fallback

NotFound ==
  /\ Exhausted /\ ~composite
  /\ ~(0 <= fallback /\ fallback < snode.n /\ Extracted(fallback))
  /\ Stop("absent") /\ UNCHANGED found

BestMatch ==
  /\ Exhausted /\ composite /\ best >= 0
  /\ Stop("found") /\ found' = best

NoMatch ==
  /\ Exhausted /\ composite /\ best < 0
  /\ Stop("absent") /\ UNCHANGED found

SearchNext ==
  \/ FindEntryRefused \/ FindEntry \/ ExtractFails \/ GoRight \/ GoLeft
  \/ Match \/ FallBack \/ NotFound \/ BestMatch \/ NoMatch

\* A search runs in the caller's goroutine until it returns.
SearchFairness == WF_searchVars(SearchNext)
SearchSpec == SearchInit /\ [][SearchNext]_searchVars /\ SearchFairness

-----------------------------------------------------------------------------
(* Properties.                                                             *)

Indices == 0..(snode.n - 1)
Ordered ==
  \A i, j \in Indices : i < j =>
    snode.oid[i] < snode.oid[j] \/ (snode.oid[i] = snode.oid[j] /\ snode.xid[i] <= snode.xid[j])

\* The entries of the object that are not newer than asked for.
Visible(i) == snode.oid[i] = tOID /\ snode.xid[i] <= tXID

SearchTypeOK ==
  /\ snode \in SearchNodes
  /\ composite \in BOOLEAN
  /\ tOID \in Targets /\ tXID \in Targets
  /\ low \in 0..snode.n
  /\ high \in -1..(snode.n - 1)
  /\ best \in -1..(snode.n - 1) /\ found \in -1..(snode.n - 1)
  /\ answer \in {"called", "searching", "found", "absent", "error"}

\* In an ordered node the search by OID and XID returns the newest entry of the
\* object that is not newer than asked for, and "not found" only when there is
\* none (58-78, 124-172, 217-259).  It never finds anything in a node with
\* fixed-size entries, whose keys are cut to eight bytes (278).
CompositeFindsNewest ==
  composite /\ Ordered =>
    /\ answer = "found" => /\ Visible(found)
                           /\ \A j \in Indices : Visible(j) => j <= found
    /\ answer = "absent" => \A j \in Indices : ~Visible(j)
    /\ answer \in {"found", "absent"} => ~snode.fixed

\* In an ordered node the search by OID returns an entry of the object if there
\* is one, otherwise the last entry below it, and "not found" only if every
\* entry is above it or the one below cannot be read (35-54, 81-121, 175-214).
OIDFindsLastBelow ==
  ~composite /\ Ordered =>
    /\ answer = "found" =>
         \/ snode.oid[found] = tOID
         \/ /\ snode.oid[found] < tOID
            /\ \A j \in Indices : j > found => snode.oid[j] > tOID
    /\ answer = "absent" =>
         \A j \in Indices : snode.oid[j] > tOID \/ (snode.oid[j] < tOID /\ j <= high /\ ~Extracted(high))

\* Every round leaves at most half of the range, so that a node of n keys is
\* searched in about log n rounds (81-259).
Remaining == high - low + 1
RangeHalves ==
  [][answer = "searching" /\ answer' = "searching" => 2 * Remaining' <= Remaining]_searchVars

\* What a search returns is what a linear search of the node finds (35-259).
SearchIsRight == CompositeFindsNewest /\ OIDFindsLastBelow

=============================================================================
