--------------------------- MODULE ObjectChecksum ---------------------------
(***************************************************************************)
(* ChecksumInspector.VerifyChecksum and fletcher64 of                      *)
(* objects/object_checksum_verifier.go.  A payload is a sequence of words  *)
(* of 0..MaxWord (0xFFFFFFFF in the code) and of Rest more bytes; its      *)
(* first two words are the checksum, taken as zero.  The sums are reduced  *)
(* after every chunk, which keeps them below 2^64.                         *)
(***************************************************************************)
EXTENDS Integers, Sequences

CONSTANTS
  MaxWord,    \* modulus of the sums, the largest word
  ChunkWords, \* words of a chunk, 1024
  Payloads    \* [words, rest]: the payloads verified

ASSUME ChecksumAssumption ==
  /\ MaxWord \in Nat \ {0} /\ ChunkWords \in Nat \ {0}
  /\ \A p \in Payloads : p.words \in Seq(0..MaxWord) /\ p.rest \in 0..3

VARIABLES
  payload,     \* the payload
  oChecksum,   \* <<low, high>> of the object's header
  summed,      \* words summed
  sum1, sum2,
  computed,    \* <<low, high>>, <<>> until it is known
  verdict      \* "summing", "match", "differs", "panic"

sumVars == <<payload, oChecksum, summed, sum1, sum2, computed, verdict>>

SumInit ==
  /\ payload \in Payloads
  /\ oChecksum \in (0..MaxWord) \X (0..MaxWord)
  /\ summed = 0 /\ sum1 = 0 /\ sum2 = 0
  /\ computed = <<>> /\ verdict = "summing"

WordCount == Len(payload.words)

\* The copy the sums are taken of.
payloadCopy(k) == IF k <= 2 THEN 0 ELSE payload.words[k]

NotWords ==
  /\ verdict = "summing" /\ summed = 0 /\ payload.rest # 0
  /\ verdict' = "differs"
  /\ UNCHANGED <<payload, oChecksum, summed, sum1, sum2, computed>>

\* The eight bytes of the checksum are cleared without a look at the length.
NoRoomForChecksum ==
  /\ verdict = "summing" /\ payload.rest = 0 /\ WordCount < 2
  /\ verdict' = "panic"
  /\ UNCHANGED <<payload, oChecksum, summed, sum1, sum2, computed>>

Summing == verdict = "summing" /\ payload.rest = 0 /\ WordCount >= 2 /\ computed = <<>>

\* Mutant: the second sum takes the word, not the first sum.
SumWordPlain ==
  /\ Summing /\ summed < WordCount
  /\ LET word == payloadCopy(summed + 1)
         reduce == (summed + 1) % ChunkWords = 0 \/ summed + 1 = WordCount
     IN  /\ sum1' = IF reduce THEN (sum1 + word) % MaxWord ELSE sum1 + word
         /\ sum2' = IF reduce THEN (sum2 + word) % MaxWord ELSE sum2 + word
  /\ summed' = summed + 1
  /\ UNCHANGED <<payload, oChecksum, computed, verdict>>

SumWord ==
  /\ Summing /\ summed < WordCount
  /\ LET word == payloadCopy(summed + 1)
         reduce == (summed + 1) % ChunkWords = 0 \/ summed + 1 = WordCount
     IN  /\ sum1' = IF reduce THEN (sum1 + word) % MaxWord ELSE sum1 + word
         /\ sum2' = IF reduce THEN (sum2 + sum1 + word) % MaxWord ELSE sum2 + sum1 + word
  /\ summed' = summed + 1
  /\ UNCHANGED <<payload, oChecksum, computed, verdict>>

ckLow == MaxWord - ((sum1 + sum2) % MaxWord)

ckHigh == MaxWord - ((sum1 + ckLow) % MaxWord)

ComputeChecksum ==
  /\ Summing /\ summed = WordCount
  /\ computed' = <<ckLow, ckHigh>>
  /\ verdict' = IF <<ckLow, ckHigh>> = oChecksum THEN "match" ELSE "differs"
  /\ UNCHANGED <<payload, oChecksum, summed, sum1, sum2>>

SumNext == NotWords \/ NoRoomForChecksum \/ SumWord \/ ComputeChecksum
SumEnded == verdict # "summing" /\ UNCHANGED sumVars
SumSpec == SumInit /\ [][SumNext \/ SumEnded]_sumVars

-----------------------------------------------------------------------------
(* Properties.                                                             *)

SumUpTo(v) ==
  LET sum[k \in 0..Len(v)] == IF k = 0 THEN 0 ELSE sum[k - 1] + v[k]
  IN  sum
SumOf(v) == SumUpTo(v)[Len(v)]

\* The checksum of a payload from its definition, without chunks: of the sum of
\* its words, and of the sum in which a word counts as often as it is followed
\* by words and once more.
Body(w) == [k \in 1..Len(w) |-> IF k <= 2 THEN 0 ELSE w[k]]
Weighted(w) == [k \in 1..Len(w) |-> (Len(w) - k + 1) * Body(w)[k]]
Definition(w) ==
  LET s1 == SumOf(Body(w)) % MaxWord
      s2 == SumOf(Weighted(w)) % MaxWord
      low == MaxWord - ((s1 + s2) % MaxWord)
  IN  <<low, MaxWord - ((s1 + low) % MaxWord)>>

\* The sums of chunks give the checksum of the definition, and an object whose
\* checksum matches no longer matches when a single word of it
\* is changed (other than 0 to MaxWord or back) or two neighbouring words that
\* differ are exchanged; and only payloads shorter than a checksum panic.
DamageIsDetected ==
  /\ computed # <<>> => computed = Definition(payload.words)
  /\ verdict = "match" =>
       \A k \in 3..WordCount :
         /\ \A v \in 0..MaxWord : v % MaxWord # payload.words[k] % MaxWord =>
              Definition([payload.words EXCEPT ![k] = v]) # computed
         /\ k > 3 /\ payload.words[k] % MaxWord # payload.words[k - 1] % MaxWord =>
              Definition([payload.words EXCEPT ![k] = payload.words[k - 1], ![k - 1] = payload.words[k]])
                # computed
  /\ verdict = "panic" => WordCount < 2

=============================================================================
