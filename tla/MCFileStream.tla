----------------------------- MODULE MCFileStream -----------------------------
EXTENDS FileStream

X(l, s, b) == [logical |-> l, size |-> s, block |-> b]
F(size, found, es) == [size |-> size, found |-> found, extents |-> es]

\* Files of one extent: stored, sparse, with slack after the end, empty, and
\* without a record.
OneExtent ==
  { F(9, 1, <<X(0, 9, 3)>>), F(4, 1, <<X(0, 6, 0)>>), F(3, 1, <<X(0, 8, 3)>>),
    F(0, 0, <<>>), F(2, 0, <<>>) }

\* Files of two extents whose first record is found.
TwoExtents ==
  { F(6, 1, <<X(0, 4, 3), X(4, 4, 9)>>), F(8, 1, <<X(0, 4, 0), X(4, 4, 9)>>) }

\* A file whose extents are spread over two leaves, the second one reached.
SecondLeaf == { F(6, 2, <<X(0, 4, 3), X(4, 4, 9)>>) }

MCSeekBy == {-2, -1, 1, 7}

AllFiles == OneExtent \cup TwoExtents \cup SecondLeaf

=============================================================================
