---------------------------- MODULE MCBTreeService ----------------------------
EXTENDS BTreeService

\* Two objects.  Object 1 has two versions, at blocks 11 and 12; once the
\* medium has been written, object 2 moves to the block that held the first.
MCPlace(oid, xid, v) ==
  IF oid = 1 THEN (IF xid = 1 /\ v = 0 THEN 11 ELSE 12)
  ELSE IF v = 0 THEN 13 ELSE 11

MCBlockNums == {11, 12, 13}
MCNodes == [at : MCBlockNums, ver : 0..MaxVersion]
MCBlocks == [len : {BlockLen}, at : MCBlockNums, ver : 0..MaxVersion]

=============================================================================
