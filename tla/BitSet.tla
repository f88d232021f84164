------------------------------- MODULE BitSet -------------------------------
(***************************************************************************)
(* What a bitmap promises: a set of bits below a capacity, of which single *)
(* bits are set and cleared.  Setting or clearing a bit beyond the         *)
(* capacity does nothing.                                                  *)
(***************************************************************************)
EXTENDS Integers

CONSTANT Indices
VARIABLES bits, capacity, stored

BitInit == bits = stored /\ capacity \in Nat
Set(i) == i \in Indices /\ bits' = IF i < capacity THEN bits \cup {i} ELSE bits
Clear(i) == i \in Indices /\ bits' = bits \ {i}
BitNext == (\E i \in Indices : Set(i) \/ Clear(i)) /\ UNCHANGED <<capacity, stored>>
BitSpec == BitInit /\ [][BitNext]_<<bits, capacity, stored>>
=============================================================================
