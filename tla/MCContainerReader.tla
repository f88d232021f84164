-------------------------- MODULE MCContainerReader --------------------------
(***************************************************************************)
(* Two goroutines on a container of two blocks and a short third one, with *)
(* a cache of two blocks.  Block 3 is beyond the container; the offsets of *)
(* blocks 17 and 18, taken modulo 64, are those of block 1 and of the      *)
(* short one.                                                              *)
(***************************************************************************)
EXTENDS ContainerReader

=============================================================================
