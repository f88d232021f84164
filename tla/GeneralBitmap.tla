---------------------------- MODULE GeneralBitmap ----------------------------
(***************************************************************************)
(* generalBitmapBlockReader of encryption_rolling/bitmap_reader.go: a      *)
(* block of bits read into words, the last of them from the bytes that are *)
(* left.  A word is the set of its bits that are one; a word has           *)
(* WordBytes bytes of ByteBits bits (8 of 8 in the code).                  *)
(***************************************************************************)
EXTENDS Integers

CONSTANTS
  WordBytes, ByteBits,
  MaxBytes,   \* bound: bytes of the block behind its header
  BitIndices  \* bit indices the callers use

ASSUME BitmapAssumption ==
  /\ WordBytes \in Nat \ {0} /\ ByteBits \in Nat \ {0} /\ MaxBytes \in Nat
  /\ BitIndices \subseteq Nat

WordBits == WordBytes * ByteBits
WordOffsets == 0..(WordBits - 1)

VARIABLES
  bytes,    \* bytes of the block behind its header
  content,  \* the bits of those bytes that are one
  bmbField  \* the words

bitmapVars == <<bytes, content, bmbField>>

fieldCount == (bytes \div WordBytes) + (IF bytes % WordBytes # 0 THEN 1 ELSE 0)

\* Mutant: the last word is taken from the end of the data as if it were whole.
ParsedWordFromEnd(k) ==
  {b \in WordOffsets :
     (IF k * WordBytes + WordBytes <= bytes THEN k * WordBits ELSE (bytes - WordBytes) * ByteBits) + b
        \in content}

\* Whole words as they are; the bytes left fill a word up with zeros.
ParsedWord(k) == {b \in WordOffsets : k * WordBits + b \in content}

parseBitmapField == bmbField = [k \in 0..(fieldCount - 1) |-> ParsedWord(k)]

\* A block of less than 40 bytes, 8 of them bits, is refused.
BitmapInit ==
  /\ bytes \in WordBytes..MaxBytes
  /\ content \in SUBSET (0..(bytes * ByteBits - 1))
  /\ parseBitmapField

fieldIndex(i) == i \div WordBits
bitOffset(i) == i % WordBits
InField(i) == fieldIndex(i) < fieldCount

IsBitSet(i) == InField(i) /\ bitOffset(i) \in bmbField[fieldIndex(i)]

SetBit(i) ==
  /\ bmbField' = IF InField(i) THEN [bmbField EXCEPT ![fieldIndex(i)] = @ \cup {bitOffset(i)}]
                 ELSE bmbField
  /\ UNCHANGED <<bytes, content>>

ClearBit(i) ==
  /\ bmbField' = IF InField(i) THEN [bmbField EXCEPT ![fieldIndex(i)] = @ \ {bitOffset(i)}]
                 ELSE bmbField
  /\ UNCHANGED <<bytes, content>>

BitmapNext == \E i \in BitIndices : SetBit(i) \/ ClearBit(i)
BitmapSpec == BitmapInit /\ [][BitmapNext]_bitmapVars

-----------------------------------------------------------------------------
Bits == {i \in 0..(fieldCount * WordBits - 1) : IsBitSet(i)}
BitSetView == INSTANCE BitSet WITH Indices <- BitIndices, bits <- Bits,
                                   capacity <- fieldCount * WordBits, stored <- content

\* The words are the set of bits that was stored, whatever the number of bytes,
\* and setting or clearing one bit changes that bit and no other (89-134,
\* 162-202).
BitmapIsASet == BitSetView!BitInit /\ [][BitSetView!BitNext]_<<Bits, fieldCount, content>>

=============================================================================
