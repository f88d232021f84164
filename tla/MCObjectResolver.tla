--------------------------- MODULE MCObjectResolver ---------------------------
(***************************************************************************)
(* Images for ObjectResolver.                                              *)
(***************************************************************************)
EXTENDS ObjectResolver, TLC

E(o, x, v) == [oid |-> o, xid |-> x, val |-> v, ok |-> TRUE]
Bad(o, x, v) == [E(o, x, v) EXCEPT !.ok = FALSE]
Leaf(es) == [leaf |-> TRUE, entries |-> es]
Inner(es) == [leaf |-> FALSE, entries |-> es]
Image(tree, snap, manual, nodes) ==
  [readable |-> TRUE, tree |-> tree, snap |-> snap, manual |-> manual, nodes |-> nodes]

\* One leaf with several versions of an object, in and out of key order.
OneLeaf(snap, manual) ==
  Image(9, snap, manual,
        9 :> Leaf(<<E(1, 1, 11), E(1, 3, 13), Bad(1, 4, 99), E(1, 2, 12), E(2, 2, 22)>>))

\* Two levels; the separator is the first key of the child, as APFS writes it.
FirstKeyTree(snap) ==
  Image(9, snap, <<>>,
        9 :> Inner(<<E(1, 1, 7), E(2, 3, 8)>>)
        @@ 7 :> Leaf(<<E(1, 1, 11), E(2, 2, 22)>>)
        @@ 8 :> Leaf(<<E(2, 3, 23), E(3, 1, 31)>>))

\* Two levels with a child that is not a node, an undecodable separator and
\* an undecodable last one.
DamagedTree ==
  Image(9, 0, <<>>,
        9 :> Inner(<<Bad(0, 0, 5), E(1, 1, 7), E(1, 2, 6), Bad(3, 0, 7)>>)
        @@ 7 :> Leaf(<<E(1, 1, 11)>>))

MCImages ==
  { OneLeaf(0, <<>>), OneLeaf(2, <<>>),
    OneLeaf(2, <<E(2, 3, 5), E(1, 3, 6), E(0, 0, 0), E(1, 1, 7)>>),
    OneLeaf(1, <<E(1, 2, 6), E(1, 3, 8)>>),
    Image(0, 0, <<E(1, 2, 6), E(1, 3, 8)>>, <<>>),
    [OneLeaf(0, <<>>) EXCEPT !.readable = FALSE],
    FirstKeyTree(0), DamagedTree }

TwoLevelImages == {FirstKeyTree(0)}

-----------------------------------------------------------------------------
\* "use the key with the largest transaction identifier" (223): the answer is
\* the newest mapping not after the one asked for, and a mapping that exists
\* is found (searchLeafNode 224, findChildNode 294).
NewestMappingFound == \A c \in Callers : ToldNewest(c)

=============================================================================
