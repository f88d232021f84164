------------------------ MODULE MCObjectMapBTreeCache ------------------------
(***************************************************************************)
(* The cache with the history of its use, on a small instance.             *)
(***************************************************************************)
EXTENDS WorkingSet, TLC

CONSTANTS BlockLens, BlockIds

MCBlocks == [len : BlockLens, id : BlockIds]
NodeSymmetry == Permutations(OIDs) \cup Permutations(Nodes)

=============================================================================
