--------------------------- MODULE BTreeValidator ---------------------------
(***************************************************************************)
(* BTreeValidator.ValidateNode of btrees/btree_validator.go: a parsed node *)
(* is judged by its key count, its table, its entries, its free lists and  *)
(* flags.  Errors and warnings are counted by what they are about.         *)
(* Offsets are uint16 (Word16 = 2^16).                                     *)
(***************************************************************************)
EXTENDS Integers, FiniteSets

CONSTANTS
  VNodes,     \* [root, leaf, fixed, level, keys, data, toc : [off, len],
              \*  entry : 0.. -> [k, klen, v, vlen], free : set of offsets, space]
  NodeSize,   \* 4096
  ManyKeys, TooManyKeys, FullLeaf, \* 1000, 10000, 256
  MaxReported,\* entry errors after which the check stops, 5
  Invalid, ListEnd, \* BtoffInvalid and 0xf000
  Word16

\* Offsets, lengths and counts of a node are unsigned fields.
ASSUME ValidatorAssumption ==
  /\ {NodeSize, ManyKeys, TooManyKeys, FullLeaf, MaxReported, Invalid, ListEnd, Word16} \subseteq Nat \ {0}
  /\ ManyKeys <= TooManyKeys
  /\ \A n \in VNodes : /\ n.fixed \in BOOLEAN
                       /\ {n.keys, n.data, n.toc.off, n.toc.len} \subseteq Nat
                       /\ n.entry \in [0..(n.keys - 1) -> [k : Nat, klen : Nat, v : Nat, vlen : Nat]]

VARIABLES
  vnode,       \* the node
  entry,       \* next entry to check
  errorCount,  \* errors of entries
  errors,      \* what errors are about
  warnings,    \* what warnings are about
  more,        \* the number of errors said to be left out
  judged       \* TRUE once the result is given

valVars == <<vnode, entry, errorCount, errors, warnings, more, judged>>

About(p, x) == IF p THEN {x} ELSE {}

checkKeyCount(n) ==
  [e |-> About(n.keys = 0 /\ n.root, "zero keys") \cup About(n.keys > TooManyKeys, "excessive"),
   w |-> About(n.keys > ManyKeys /\ n.keys <= TooManyKeys, "many keys")]

entrySize(n) == IF n.fixed THEN 4 ELSE 8

checkTableOfContents(n) ==
  [e |-> About(n.toc.off + n.toc.len > n.data, "table"),
   w |-> About(n.toc.off + n.toc.len <= n.data /\ n.toc.len # (n.keys * entrySize(n)) % Word16, "table size")]

checkFreeLists(n) ==
  About(\E f \in n.free : f # Invalid /\ f < ListEnd /\ f >= n.data, "free list")
    \cup About(n.space > 0 /\ n.space >= n.data, "free space")

checkNodeConsistency(n) ==
  About(n.leaf # (n.level = 0), "level") \cup About(n.root /\ n.leaf /\ n.keys = 0, "empty tree")
    \cup About(n.fixed /\ n.keys > FullLeaf /\ n.leaf, "large leaf")

checkFooterIfRoot(n) == About(n.root /\ n.data < 56, "footer")

\* ValidateNode up to the entries.
ValInit ==
  /\ vnode \in VNodes
  /\ entry = 0 /\ errorCount = 0 /\ more = 0 /\ judged = FALSE
  /\ errors = checkKeyCount(vnode).e \cup checkTableOfContents(vnode).e
  /\ warnings = checkKeyCount(vnode).w \cup checkTableOfContents(vnode).w

Checking == ~judged /\ vnode.data # 0 /\ entry < vnode.keys /\ errorCount < MaxReported

OutOfTable(n, i) == n.toc.off + i * entrySize(n) + entrySize(n) > n.data
Bounds(n, e) == IF n.fixed THEN <<e.k, e.v>> ELSE <<(e.k + e.klen) % Word16, (e.v + e.vlen) % Word16>>

\* Mutant: only the end of the key is checked.
BadBoundsFirst(n, e) == {j \in {1} : Bounds(n, e)[j] > NodeSize}

\* keyOffset+keySize is a uint16 and wraps.
BadBounds(n, e) == {j \in 1..2 : Bounds(n, e)[j] > NodeSize}

EntryOutOfTable ==
  /\ Checking /\ OutOfTable(vnode, entry)
  /\ errors' = errors \cup {"entry"} /\ errorCount' = errorCount + 1
  /\ entry' = entry + 1
  /\ UNCHANGED <<vnode, warnings, more, judged>>

CheckEntry ==
  /\ Checking /\ ~OutOfTable(vnode, entry)
  /\ LET e == vnode.entry[entry]
     IN  /\ errorCount' = errorCount + Cardinality(BadBounds(vnode, e))
         /\ errors' = errors \cup About(BadBounds(vnode, e) # {}, "bounds")
         /\ warnings' = warnings \cup
              About(vnode.fixed /\ ~vnode.leaf /\ e.v > 0 /\ 56 + e.v + 8 > vnode.data, "child")
  /\ entry' = entry + 1
  /\ UNCHANGED <<vnode, more, judged>>

\* The rest of ValidateNode.
Judge ==
  /\ ~judged /\ ~Checking /\ judged' = TRUE
  /\ errors' = errors \cup About(errorCount >= MaxReported, "more")
  /\ more' = IF errorCount >= MaxReported THEN vnode.keys - errorCount ELSE 0
  /\ warnings' = warnings \cup checkFreeLists(vnode) \cup checkNodeConsistency(vnode) \cup checkFooterIfRoot(vnode)
  /\ UNCHANGED <<vnode, entry, errorCount>>

NodeIsValid == judged /\ errors = {}

ValNext == EntryOutOfTable \/ CheckEntry \/ Judge
ValEnded == judged /\ UNCHANGED valVars
ValSpec == ValInit /\ [][ValNext \/ ValEnded]_valVars

-----------------------------------------------------------------------------
(* Properties.                                                             *)

\* A node found valid has its whole table within its data and the ends of its
\* keys and values within the node, every one of them, whatever the limit on
\* reported errors, except where offset and size together exceed a uint16.
ValidNodesAreWithinBounds ==
  NodeIsValid /\ vnode.data # 0 =>
    \A i \in 0..(vnode.keys - 1) :
      /\ vnode.toc.off + (i + 1) * entrySize(vnode) <= vnode.data
      /\ LET e == vnode.entry[i]
             ends == IF vnode.fixed THEN {e.k, e.v} ELSE {e.k + e.klen, e.v + e.vlen}
         IN  \A x \in ends : x < Word16 => x <= NodeSize

\* Nothing wrong is found in a node without anything wrong, and at most
\* MaxReported + 1 errors of entries are counted, however many there are.
IntactNodesAreValid ==
  /\ judged /\ vnode.keys \in 1..ManyKeys /\ vnode.toc.off + vnode.toc.len <= vnode.data
       /\ vnode.toc.len >= vnode.keys * entrySize(vnode)
       /\ (\A i \in 0..(vnode.keys - 1) :
             vnode.entry[i].k + vnode.entry[i].klen <= NodeSize /\ vnode.entry[i].v + vnode.entry[i].vlen <= NodeSize)
     => NodeIsValid
  /\ errorCount <= MaxReported + 1
\* The validator accepts the nodes within bounds and only those, as far as it
\* looks (NewBTreeValidator's limits and the uint16 sums are the gaps).
ValidatorIsExact == ValidNodesAreWithinBounds /\ IntactNodesAreValid

=============================================================================
