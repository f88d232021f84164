----------------------------- MODULE MCNodeLayout -----------------------------
EXTENDS NodeLayout

E(k, kl, v, vl) == [k |-> k, klen |-> kl, v |-> v, vlen |-> vl]
N(r, lf, f, n, off, len, toc) ==
  [root |-> r, leaf |-> lf, fixed |-> f, nkeys |-> n, tableOff |-> off, tableLen |-> len, toc |-> toc]

\* Offsets at the edges of the data, of a uint16, and of the header.
Offsets == {0, 16, 120, 144, 65535}
MCJunk == {E(k, l, v, l) : k \in Offsets, v \in Offsets, l \in {0, 16, 65535}}

\* Nodes damaged in every field the parser uses: the key count is larger than
\* the table, the table begins anywhere.
Damaged ==
  {N(FALSE, lf, f, n, off, 8, <<>>) : lf \in BOOLEAN, f \in BOOLEAN, n \in 0..2, off \in {0, 80, 86, 88, 65535}}

\* An undamaged node with two pairs, root or not.
Undamaged ==
  {N(r, lf, TRUE, 2, 0, 8, <<E(0, 16, 16, 16), E(16, 16, 32, 16)>>) : r \in BOOLEAN, lf \in BOOLEAN}

AllNodes == Damaged \cup Undamaged

NoJunk == {E(0, 16, 0, 16)}

=============================================================================
