---------------------------- MODULE MCFileSystem ----------------------------
(***************************************************************************)
(* The file system service and the streams it hands out, beside each       *)
(* other, one of them at work.                                             *)
(***************************************************************************)
EXTENDS FileSystem, MCFileStream

VARIABLE using  \* which of them

A == <<"a">>
B == <<"b">>
AA == <<"a", "a">>

Inode(d, private, parent) == [dir |-> d, private |-> private, parent |-> parent]
Extent(b, count) == [block |-> b, blocks |-> count]
Rec(id, type, k, v, val) == [id |-> id, type |-> type, keyAt |-> k, valAt |-> v, val |-> val]
LeafOf(recs) == [leaf |-> TRUE, fixed |-> TRUE, nkeys |-> Len(recs), recs |-> recs]
Raw(recs) == [node |-> FALSE, recs |-> recs]
Dirent(name, i, d) == [inode |-> i, name |-> name, dir |-> d, nameLen |-> Len(name)]

\* The root's node also holds the extents: 11 of the root, 12 and 15 of
\* directories.  Its keys and values alternate.
RootNode(root) == LeafOf(<<Rec(1, "inode", 0, 16, root),
                           Rec(11, "extent", 110, 130, Extent(100, 2)),
                           Rec(12, "extent", 160, 180, Extent(102, 1)),
                           Rec(15, "extent", 190, 210, Extent(103, 1))>>)
Single(i, val) == LeafOf(<<Rec(i, "inode", 0, 16, val)>>)

\* The number 3 resolves to an internal node; 4 resolves to nothing.
Nodes == 1 :> RootNode(Inode(TRUE, 11, 0)) @@ 2 :> Single(2, Inode(TRUE, 12, 1))
  @@ 3 :> [leaf |-> FALSE, fixed |-> TRUE, nkeys |-> 3,
           recs |-> <<Rec(2, "inode", 0, 16, 21), Rec(5, "inode", 30, 40, 22), Rec(8, "inode", 60, 70, 21)>>]
  @@ 21 :> LeafOf(<<Rec(9, "inode", 0, 20, Inode(FALSE, 0, 7))>>)
  @@ 22 :> LeafOf(<<Rec(9, "inode", 0, 20, Inode(FALSE, 0, 7)), Rec(3, "inode", 120, 140, Inode(FALSE, 0, 2))>>)
  @@ 5 :> Single(5, Inode(TRUE, 15, 1)) @@ 6 :> Single(6, Inode(TRUE, 0, 2))

\* /a/b, the empty directory /a/aa, /b and, in a second block, /aa/b, whose
\* inode cannot be found.
Plain == [nodes |-> Nodes,
          blocks |-> 100 :> Raw(<<Dirent(A, 2, TRUE), Dirent(B, 3, FALSE)>>)
                  @@ 101 :> Raw(<<Dirent(AA, 5, TRUE)>>)
                  @@ 102 :> Raw(<<Dirent(B, 3, FALSE), Dirent(AA, 6, TRUE)>>)
                  @@ 103 :> Raw(<<Dirent(B, 4, FALSE)>>)]

\* A name twice, a directory entry for a file, a B-tree node among the data
\* blocks, a record with no name.
Odd == [nodes |-> Nodes,
        blocks |-> 100 :> Raw(<<Dirent(A, 2, TRUE), Dirent(A, 5, TRUE), Dirent(<<>>, 5, TRUE), Dirent(B, 2, TRUE)>>)
                @@ 101 :> [node |-> TRUE, recs |-> <<Dirent(B, 2, TRUE)>>]
                @@ 102 :> Raw(<<Dirent(B, 3, FALSE)>>)
                @@ 103 :> Raw(<<Dirent(AA, 3, TRUE)>>)]

\* Key and value areas apart, as nodes are laid out: only the last value has a
\* length.  The inode of 5 is too short.
Apart == [nodes |-> 1 :> LeafOf(<<Rec(1, "inode", 0, 200, Inode(TRUE, 11, 0)),
                                  Rec(1, "inode", 20, 250, Inode(FALSE, 0, 0)),
                                  Rec(1, "inode", 40, 60, Inode(TRUE, 11, 0)),
                                  Rec(11, "extent", 40, 270, Extent(100, 1))>>)
                 @@ 2 :> [Single(2, Inode(TRUE, 0, 2)) EXCEPT !.nkeys = 2]
                 @@ 5 :> LeafOf(<<Rec(5, "inode", 0, 260, Inode(TRUE, 15, 1))>>),
          blocks |-> 100 :> Raw(<<Dirent(A, 5, TRUE)>>)]

\* The root's tree has two levels, and the extents are in the second leaf: when
\* it fails, directories can be listed no less, and look empty.
Deep == [nodes |-> 1 :> [leaf |-> FALSE, fixed |-> TRUE, nkeys |-> 2,
                         recs |-> <<Rec(10, "inode", 0, 16, 31), Rec(20, "inode", 30, 40, 32)>>]
                @@ 31 :> Single(1, Inode(TRUE, 11, 0))
                @@ 32 :> LeafOf(<<Rec(11, "extent", 0, 20, Extent(100, 1)), Rec(12, "extent", 60, 90, Extent(101, 1))>>)
                @@ 2 :> Single(2, Inode(TRUE, 12, 1)) @@ 5 :> Single(5, Inode(FALSE, 0, 1)),
         blocks |-> 100 :> Raw(<<Dirent(A, 2, TRUE), Dirent(B, 5, FALSE)>>) @@ 101 :> Raw(<<Dirent(B, 5, FALSE)>>)]

MCVolumes == {Plain, Odd, Apart, Deep}
MCPatterns == {<<"*">>, <<"a", "*">>, <<"a", "*", "b">>, B}
MCRanges == {<<0, 3>>, <<2, 4>>, <<0, 15>>, <<2, 15>>, <<3, 13>>, <<5, 0>>}
MCPaths == {<<>>, <<A>>, <<B>>, <<A, AA>>, <<AA, B>>, <<B, A>>}

Streaming == using = "stream"

MCInit ==
  /\ using \in {"service", "stream"}
  /\ IF Streaming THEN vol = Plain ELSE file = F(0, 0, <<>>)
  /\ Init /\ StreamInit

MCNext ==
  \/ ~Streaming /\ Next /\ UNCHANGED <<using, streamVars>>
  \/ Streaming /\ StreamNext /\ UNCHANGED <<using, vars>>

\* A walk and io.ReadAll are loops: nothing but their end stops them.
MCSpec ==
  /\ MCInit /\ [][MCNext]_<<using, vars, streamVars>>
  /\ WF_vars(~Streaming /\ WalkStep) /\ WF_streamVars(Streaming /\ Draining)

=============================================================================
