--------------------------- MODULE FileSystemProofs ---------------------------
(***************************************************************************)
(* Proofs about FileSystem, for volumes of every size and shape and blocks *)
(* that fail at any moment, and about FileStream, for files, buffers and   *)
(* offsets of every size.                                                  *)
(***************************************************************************)
EXTENDS FileSystem, FileStream, FiniteSetTheorems, SequenceTheorems, NumberLemmas, TLAPS

-----------------------------------------------------------------------------
(* FileStream: the loops over extents, which run once.                     *)

\* Nothing comes before the first extent.
LEMMA FirstIsAtZero == ASSUME NEW es PROVE LogicalOffset(es, 1) = 0
<1> DEFINE seq == SubSeq(es, 1, 1 - 1)
<1>1. DOMAIN seq = {}
  OBVIOUS
<1> HIDE DEF seq
<1> DEFINE Iter(g) == g = [s \in SUBSET (DOMAIN seq) |->
                             IF s = {} THEN 0 ELSE LET x == Max(s) IN g[s \ {x}] + seq[x].size]
<1>2. Iter([s \in SUBSET (DOMAIN seq) |-> 0])
  BY <1>1
<1>3. PICK c : c = CHOOSE g : Iter(g)
  OBVIOUS
<1>4. Iter(c)
  BY <1>2, <1>3
<1>5. c[{}] = 0
  BY <1>1, <1>4
<1>6. FoldLeft(LAMBDA sum, e : sum + e.size, 0, seq) = c[DOMAIN seq]
  BY <1>3 DEF FoldLeft, MapThenFoldSet
<1>7. LogicalOffset(es, 1) = FoldLeft(LAMBDA sum, e : sum + e.size, 0, seq)
  BY DEF LogicalOffset, seq
<1>. QED
  BY <1>1, <1>5, <1>6, <1>7

\* Flattening a single sequence.
LEMMA FlattenOne == ASSUME NEW s PROVE FlattenSeq(<<s>>) = s
<1> DEFINE seqs == <<s>>
<1>1. Len(seqs) = 1 /\ seqs[1] = s
  OBVIOUS
<1> HIDE DEF seqs
<1> DEFINE Flatten(g) == g = [i \in 1..Len(seqs) |-> IF i = 1 THEN seqs[i] ELSE g[i - 1] \o seqs[i]]
<1>2. Flatten([i \in 1..Len(seqs) |-> seqs[i]])
  BY <1>1
<1>3. PICK c : c = CHOOSE g : Flatten(g)
  OBVIOUS
<1>4. Flatten(c)
  BY <1>2, <1>3
<1>5. c[1] = s
  BY <1>1, <1>4
<1>6. FlattenSeq(seqs) = c[Len(seqs)]
  BY <1>1, <1>3 DEF FlattenSeq
<1>. QED
  BY <1>1, <1>5, <1>6 DEF seqs

\* The record found, and the bytes of it that a range holds.
Record(f) == f.extents[f.found]
RangeEnd(off, len) == (off + len) % Word64
Holds(f, off, len) == Record(f).size > off /\ 0 < RangeEnd(off, len)
LastHeld(f, off, len) ==
  IF RangeEnd(off, len) < Record(f).size THEN RangeEnd(off, len) ELSE Record(f).size
Held(f, off, len) == IF Holds(f, off, len) THEN LastHeld(f, off, len) - off ELSE 0

\* What the assumption on files says of each extent.
LEMMA ExtentNumbers ==
  ASSUME NEW f \in Files, NEW k \in 1..Len(f.extents)
  PROVE  f.extents[k].logical \in Nat /\ f.extents[k].size \in Nat /\ f.extents[k].block \in Nat
<1>1. f.extents \in Seq([logical : Nat, size : Nat, block : Nat])
  BY StreamAssumption
<1>2. f.extents[k] \in [logical : Nat, size : Nat, block : Nat]
  BY <1>1, ElementOfSeq
<1>. QED
  BY <1>2

\* And of the file.
LEMMA FileNumbers ==
  ASSUME NEW f \in Files, f.found # 0
  PROVE  /\ f.found \in 1..Len(f.extents) /\ Extents(f) = <<Record(f)>>
         /\ Record(f).logical \in Nat /\ Record(f).size \in Nat /\ Record(f).block \in Nat
         /\ f.size \in Nat /\ f.size < Word64 /\ Word64 \in Nat /\ BlockSize \in Nat
<1>1. /\ f.found \in 1..Len(f.extents) /\ f.size \in 0..(Word64 - 1)
      /\ Word64 \in Nat /\ BlockSize \in Nat
  BY StreamAssumption
<1>2. PICK k \in 1..Len(f.extents) : k = f.found
  BY <1>1
<1>3. Record(f) = f.extents[k] /\ Extents(f) = <<f.extents[k]>>
  BY <1>2 DEF Record, Extents
<1>. QED
  BY <1>1, <1>3, ExtentNumbers

\* The only extent that is looked at overlaps the range from its first byte on.
LEMMA OverlapIs ==
  ASSUME NEW f \in Files, f.found # 0, NEW off \in Nat, NEW len \in Nat
  PROVE  Overlap(Extents(f), 1, off, len) =
           IF Holds(f, off, len) THEN [from |-> off, to |-> LastHeld(f, off, len)]
           ELSE [from |-> 0, to |-> 0]
<1>1. /\ Extents(f)[1] = Record(f) /\ Record(f).size \in Nat /\ Word64 \in Nat \ {0}
      /\ LogicalOffset(Extents(f), 1) = 0
  BY FileNumbers, FirstIsAtZero, StreamAssumption
<1>2. RangeEnd(off, len) \in Nat
  BY <1>1 DEF RangeEnd
<1>. QED
  BY <1>1, <1>2 DEF Overlap, Holds, LastHeld, RangeEnd

\* ReadFileRange returns the bytes of the record found that the range holds.
LEMMA RangeIs ==
  ASSUME NEW f \in Files, f.found # 0, NEW off \in Nat, NEW len \in Nat
  PROVE  /\ ReadFileRange(f, off, len) = ExtentData(Record(f), off, Held(f, off, len))
         /\ Held(f, off, len) \in Int
         /\ Wrapped(f, off, len) = {} => Held(f, off, len) >= 0
<1> DEFINE piece == Piece(Extents(f), 1, off, len)
<1>1. Extents(f) = <<Record(f)>> /\ Record(f).size \in Nat
  BY FileNumbers
<1>2. ReadFileRange(f, off, len) = FlattenSeq(<<piece>>)
  <2>1. [k \in 1..Len(Extents(f)) |-> Piece(Extents(f), k, off, len)] = <<piece>>
    BY <1>1
  <2>. QED
    BY <2>1 DEF ReadFileRange
<1>3. ReadFileRange(f, off, len) = piece
  BY <1>2, FlattenOne
<1>4. CASE Holds(f, off, len)
  <2>1. /\ Overlap(Extents(f), 1, off, len).from = off
        /\ Overlap(Extents(f), 1, off, len).to = LastHeld(f, off, len)
    BY <1>4, OverlapIs
  <2>2. piece = ExtentData(Record(f), off, LastHeld(f, off, len) - off)
    BY <1>1, <2>1 DEF Piece
  <2>3. Wrapped(f, off, len) = {} => LastHeld(f, off, len) >= off
    <3>1. RangeEnd(off, len) \in Nat
      BY StreamAssumption DEF RangeEnd
    <3>2. LastHeld(f, off, len) \in Nat
      BY <1>1, <3>1 DEF LastHeld
    <3>3. 1 \in 1..Len(Extents(f))
      BY <1>1
    <3>. QED
      BY <2>1, <3>2, <3>3 DEF Wrapped
  <2>4. LastHeld(f, off, len) \in Int
    BY <1>1, StreamAssumption DEF LastHeld, RangeEnd
  <2>. QED
    BY <1>3, <1>4, <2>2, <2>3, <2>4 DEF Held
<1>5. CASE ~Holds(f, off, len)
  <2>1. /\ Overlap(Extents(f), 1, off, len).from = 0
        /\ Overlap(Extents(f), 1, off, len).to = 0
    BY <1>5, OverlapIs
  <2>2. piece = ExtentData(Record(f), 0, 0)
    BY <1>1, <2>1 DEF Piece
  <2>3. ExtentData(Record(f), 0, 0) = ExtentData(Record(f), off, 0)
    BY DEF ExtentData
  <2>4. Held(f, off, len) = 0
    BY <1>5 DEF Held
  <2>. QED
    BY <1>3, <2>2, <2>3, <2>4
<1>. QED
  BY <1>4, <1>5

\* A record that lies before the first byte, or behind the record of pos, does not
\* hold pos.
LEMMA Apart ==
  ASSUME NEW l \in Nat, NEW held \in Nat, NEW size \in Nat, NEW pos \in Nat,
         pos < size, l + held <= 0 \/ 0 + size <= l
  PROVE  l + held <= pos \/ pos < l
OBVIOUS

\* The position in the file of every byte held, and how many there are.
LEMMA HeldBytes ==
  ASSUME NEW f \in Files, f.found # 0, Record(f).logical = 0,
         NEW off \in Nat, NEW len \in Nat, NEW m \in Nat, m = Held(f, off, len)
  PROVE  /\ ReadFileRange(f, off, len) \in Seq(Nat)
         /\ Len(ReadFileRange(f, off, len)) = m
         /\ \A i \in 1..m : ReadFileRange(f, off, len)[i] = ByteAt(f, off + i - 1)
<1> DEFINE e == Record(f)
<1>1. /\ e.logical = 0 /\ e.size \in Nat /\ e.block \in Nat /\ BlockSize \in Nat
      /\ f.found \in 1..Len(f.extents) /\ Len(f.extents) \in Nat
  BY FileNumbers, StreamAssumption
<1>2. ReadFileRange(f, off, len) = ExtentData(e, off, m)
  BY RangeIs
<1>3. m = 0 \/ (m > 0 /\ off + m <= e.size)
  <2>1. m = 0 \/ m = LastHeld(f, off, len) - off
    BY DEF Held
  <2>2. PICK size \in Nat : size = e.size
    BY <1>1
  <2>3. RangeEnd(off, len) \in Int
    BY StreamAssumption DEF RangeEnd
  <2>4. PICK end \in Int : end = RangeEnd(off, len)
    BY <2>3
  <2>5. LastHeld(f, off, len) = size \/ (LastHeld(f, off, len) = end /\ end <= size)
    BY <2>2, <2>4 DEF LastHeld
  <2> HIDE DEF e
  <2>6. PICK final \in Int : final = LastHeld(f, off, len) /\ final <= size
    BY <2>5
  <2>7. m = 0 \/ m = final - off
    BY <2>1, <2>6, Zenon
  <2>. QED
    BY <2>2, <2>6, <2>7
<1>4. ASSUME NEW i \in 1..m
      PROVE  /\ ExtentData(e, off, m)[i] = ByteAt(f, off + i - 1)
             /\ ExtentData(e, off, m)[i] \in Nat
  <2> DEFINE pos == off + i - 1
             at == {k \in 1..Len(f.extents) :
                      f.extents[k].logical <= pos /\ pos < f.extents[k].logical + f.extents[k].size}
  <2>1. pos \in Nat /\ pos < e.size
    BY <1>1, <1>3
  <2>2. at = {f.found}
    <3>1. f.found \in at
      <4>1. f.extents[f.found].logical = 0 /\ f.extents[f.found].size = e.size
        BY <1>1 DEF Record
      <4>. QED
        BY <1>1, <2>1, <4>1
    <3>2. ASSUME NEW k \in 1..Len(f.extents), k # f.found
          PROVE  k \notin at
      <4>1. f.extents[k].logical \in Nat /\ f.extents[k].size \in Nat
        BY ExtentNumbers
      <4>2. PICK j \in 1..Len(f.extents) : j = f.found
        BY <1>1
      <4>3. /\ k < j => f.extents[k].logical + f.extents[k].size <= f.extents[j].logical
            /\ j < k => f.extents[j].logical + f.extents[j].size <= f.extents[k].logical
        BY StreamAssumption
      <4>4. e = f.extents[j]
        BY <4>2 DEF Record
      <4>5. k < j \/ j < k
        BY <1>1, <3>2, <4>2
      <4>6. f.extents[k].logical + f.extents[k].size <= pos \/ pos < f.extents[k].logical
        <5>1. f.extents[j].logical = 0 /\ f.extents[j].size = e.size
          BY <1>1, <4>4
        <5> HIDE DEF pos, e
        <5>2. k < j => f.extents[k].logical + f.extents[k].size <= 0
          BY <4>3, <5>1, Zenon
        <5>3. j < k => 0 + e.size <= f.extents[k].logical
          BY <4>3, <5>1, Zenon
        <5>. QED
          BY <1>1, <2>1, <4>1, <4>5, <5>2, <5>3, Apart, Zenon
      <4>7. pos \in Nat
        BY <2>1
      <4> HIDE DEF pos
      <4>. QED
        BY <4>1, <4>6, <4>7
    <3>. QED
      BY <3>1, <3>2
  <2>3. (CHOOSE k \in at : TRUE) = f.found
    BY <2>2
  <2> HIDE DEF at
  <2>4. ByteAt(f, pos) = IF e.block = 0 THEN 0 ELSE e.block * BlockSize + pos - e.logical
    BY <2>2, <2>3 DEF ByteAt, Record, at
  <2>5. ExtentData(e, off, m)[i] = IF e.block = 0 THEN 0 ELSE e.block * BlockSize + off + i - 1
    BY DEF ExtentData
  <2>6. e.block * BlockSize \in Nat
    BY <1>1
  <2>7. CASE e.block = 0
    BY <2>4, <2>5, <2>7
  <2>8. CASE e.block # 0
    <3> DEFINE base == e.block * BlockSize
    <3>1. base \in Nat /\ i \in Nat /\ i >= 1
      BY <2>6
    <3>2. ByteAt(f, pos) = base + pos - e.logical /\ ExtentData(e, off, m)[i] = base + off + i - 1
      BY <2>4, <2>5, <2>8
    <3> HIDE DEF base
    <3>3. base + pos - e.logical = base + off + i - 1 /\ base + off + i - 1 \in Nat
      BY <1>1, <3>1
    <3>. QED
      BY <3>2, <3>3
  <2>. QED
    BY <2>7, <2>8
<1>5. ExtentData(e, off, m) \in Seq(Nat) /\ Len(ExtentData(e, off, m)) = m
  <2>1. DOMAIN ExtentData(e, off, m) = 1..m /\ ExtentData(e, off, m) \in [1..m -> Nat]
    BY <1>4 DEF ExtentData
  <2>. QED
    BY <2>1
<1>. QED
  BY <1>2, <1>4, <1>5

-----------------------------------------------------------------------------
(* Streams.                                                                *)

StreamTypeOK ==
  /\ file \in Files /\ offset \in Nat /\ start \in Nat
  /\ out \in Seq(Nat)
  /\ err \in {"nil", "EOF", "err"}
  /\ ranged \in [off : Nat, len : Nat, how : {"none", "ok", "err", "panic"}, bytes : Seq(Nat)]

\* Bytes of a record that is not the file's first are some bytes.
LEMMA RangeType ==
  ASSUME NEW f \in Files, f.found # 0, NEW off \in Nat, NEW len \in Nat, NEW m \in Nat, m = Held(f, off, len)
  PROVE  ReadFileRange(f, off, len) \in Seq(Nat) /\ Len(ReadFileRange(f, off, len)) = m
<1> DEFINE e == Record(f)
<1>1. e.block \in Nat /\ e.block * BlockSize \in Nat
  BY FileNumbers
<1>2. ReadFileRange(f, off, len) = ExtentData(e, off, m)
  BY RangeIs
<1> DEFINE base == e.block * BlockSize
<1>3. ExtentData(e, off, m) = [i \in 1..m |-> IF e.block = 0 THEN 0 ELSE base + off + i - 1]
  BY DEF ExtentData
<1> HIDE DEF base, e
<1>4. base \in Nat
  BY <1>1 DEF base
<1>5. ExtentData(e, off, m) \in [1..m -> Nat]
  BY <1>3, <1>4
<1>. QED
  BY <1>2, <1>5

\* A read within the file does not wrap around, and returns at most what is
\* asked for.
LEMMA ReadHolds ==
  ASSUME StreamTypeOK, NEW len \in Nat, offset < file.size, Extents(file) # <<>>
  PROVE  /\ file.found # 0 /\ ToRead(len) \in Nat /\ offset + ToRead(len) <= file.size
         /\ Held(file, offset, ToRead(len)) \in Nat
         /\ Held(file, offset, ToRead(len)) <= ToRead(len)
<1>1. file \in Files /\ offset \in Nat /\ file.found # 0
  BY DEF StreamTypeOK, Extents
<1>2. file.size \in Nat /\ file.size < Word64 /\ Word64 \in Nat /\ Record(file).size \in Nat
  BY <1>1, FileNumbers
<1>3. ToRead(len) \in Nat /\ offset + ToRead(len) <= file.size
  BY <1>1, <1>2 DEF ToRead
<1> DEFINE t == ToRead(len)
<1> HIDE DEF t
<1>4. t \in Nat /\ offset + t < Word64
  BY <1>1, <1>2, <1>3 DEF t
<1>5. RangeEnd(offset, t) = offset + t
  BY <1>1, <1>2, <1>4 DEF RangeEnd
<1>6. Held(file, offset, t) \in Nat /\ Held(file, offset, t) <= t
  BY <1>1, <1>2, <1>4, <1>5 DEF Held, Holds, LastHeld
<1>. QED
  BY <1>1, <1>3, <1>6 DEF t

\* A call of Read with a buffer of a length.
LEMMA ReadStep ==
  ASSUME StreamTypeOK, StreamIsContent, NEW len \in Nat, Read(len)
  PROVE  /\ out' \in Seq(Nat) /\ offset' \in Nat /\ err' \in {"nil", "EOF"}
         /\ StreamIsContent'
<1> DEFINE t == ToRead(len)
           m == Held(file, offset, t)
           data == ReadFileRange(file, offset, t)
<1>1. /\ file \in Files /\ file.found # 0 /\ offset \in Nat /\ start \in Nat /\ out \in Seq(Nat)
      /\ t \in Nat /\ m \in Nat /\ m <= t /\ offset + t <= file.size /\ file.size \in Nat
  BY ReadHolds, FileNumbers DEF Read, StreamTypeOK
<1>2. data \in Seq(Nat) /\ Len(data) = m
  BY <1>1, RangeType
<1>3. /\ UNCHANGED <<file, start>> /\ offset' = offset + Len(data) /\ out' = out \o data
      /\ err' = IF offset' >= file.size /\ n' = 0 THEN "EOF" ELSE "nil"
  BY DEF Read
<1>4. FirstFound => \A i \in 1..m : data[i] = ByteAt(file, offset + i - 1)
  <2> SUFFICES ASSUME FirstFound PROVE \A i \in 1..m : data[i] = ByteAt(file, offset + i - 1)
    OBVIOUS
  <2>1. Record(file).logical = 0
    BY <1>1 DEF FirstFound, Record
  <2>. QED
    BY <1>1, <2>1, HeldBytes
<1> HIDE DEF data, t, m
<1>5. /\ out' \in Seq(Nat) /\ Len(out') = Len(out) + m
      /\ \A i \in 1..(Len(out) + m) : out'[i] = IF i <= Len(out) THEN out[i] ELSE data[i - Len(out)]
  <2>1. out \in Seq(Nat) /\ data \in Seq(Nat) /\ Len(data) = m /\ out' = out \o data
    BY <1>1, <1>2, <1>3
  <2>. QED
    BY <2>1, ConcatProperties
<1>6. offset = start + Len(out)
  BY DEF StreamIsContent
<1>7. FirstFound => \A i \in 1..Len(out') : out'[i] = ByteAt(file, start + i - 1)
  <2> SUFFICES ASSUME FirstFound, NEW i \in 1..Len(out') PROVE out'[i] = ByteAt(file, start + i - 1)
    OBVIOUS
  <2>1. out = [j \in 1..Len(out) |-> ByteAt(file, start + j - 1)] /\ Len(out) \in Nat
    BY <1>1 DEF StreamIsContent
  <2>2. CASE i <= Len(out)
    BY <1>1, <1>5, <2>1, <2>2
  <2>3. CASE i > Len(out)
    <3>1. PICK l \in Nat : l = Len(out)
      BY <2>1
    <3>2. i \in 1..(l + m)
      BY <1>5, <3>1
    <3>3. PICK k \in 1..m : k = i - l /\ offset + k - 1 = start + i - 1 /\ ~(i <= l)
      <4>1. offset = start + l /\ start \in Nat /\ m \in Nat
        BY <1>1, <1>6, <3>1
      <4>2. i > l
        BY <2>3, <3>1
      <4>3. ~(i <= l) /\ i - l \in 1..m /\ offset + (i - l) - 1 = start + i - 1
        BY <3>2, <4>1, <4>2
      <4>. QED
        BY <4>3, Zenon
    <3>4. out'[i] = IF i <= l THEN out[i] ELSE data[i - l]
      BY <1>5, <3>1, <3>2, Zenon
    <3>5. out'[i] = data[k]
      BY <3>3, <3>4, Zenon
    <3>6. data[k] = ByteAt(file, offset + k - 1)
      BY <1>4, <3>3, Zenon
    <3>. QED
      BY <3>3, <3>5, <3>6, Zenon
  <2>. QED
    BY <1>1, <1>5, <2>1, <2>2, <2>3
<1>8. out' = [i \in 1..Len(out') |-> out'[i]]
  BY <1>5
<1>9. FirstFound' => out' = [i \in 1..Len(out') |-> ByteAt(file', start' + i - 1)]
  BY <1>3, <1>7, <1>8 DEF FirstFound
<1>10. offset' = start' + Len(out') /\ offset' \in Nat /\ offset' <= file'.size
  <2>1. Len(out) \in Nat
    BY <1>1
  <2>. QED
    BY <1>1, <1>2, <1>3, <1>5, <1>6, <2>1
<1>11. err' = "EOF" => offset' >= file'.size
  BY <1>3
<1>. QED
  BY <1>3, <1>5, <1>9, <1>10, <1>11 DEF StreamIsContent

\* The invariant: the properties of the stream, and that what a direct call
\* returned is what ReadFileRange gives for its range.
StreamInv ==
  /\ StreamTypeOK
  /\ StreamIsContent
  /\ ranged.how = "ok" =>
       /\ file.found # 0 /\ Wrapped(file, ranged.off, ranged.len) = {}
       /\ ranged.bytes = ReadFileRange(file, ranged.off, ranged.len)

\* A reader starts consistent.
LEMMA StreamInvInit == StreamInit => StreamInv
<1> SUFFICES ASSUME StreamInit PROVE StreamInv
  OBVIOUS
<1>1. Len(out) = 0 /\ out \in Seq(Nat) /\ ranged.bytes \in Seq(Nat)
  BY DEF StreamInit
<1>2. StreamTypeOK
  BY <1>1 DEF StreamInit, StreamTypeOK
<1>3. out = [i \in 1..Len(out) |-> ByteAt(file, start + i - 1)]
  BY <1>1 DEF StreamInit
<1>. QED
  BY <1>1, <1>2, <1>3 DEF StreamInit, StreamInv, StreamIsContent

\* Steps of the adapters.
LEMMA ReaderStep ==
  ASSUME StreamTypeOK, StreamIsContent, ReaderNext
  PROVE  /\ file' = file /\ offset' \in Nat /\ start' \in Nat
         /\ out' \in Seq(Nat) /\ err' \in {"nil", "EOF", "err"}
         /\ StreamIsContent'
<1> USE DEF StreamTypeOK
<1>1. CASE ReadAtEnd \/ ReadFails
  BY <1>1 DEF ReadAtEnd, ReadFails, StreamIsContent, FirstFound
<1>2. ASSUME NEW len \in BufLens, Read(len)
      PROVE  /\ file' = file /\ offset' \in Nat /\ start' \in Nat
             /\ out' \in Seq(Nat) /\ err' \in {"nil", "EOF", "err"}
             /\ StreamIsContent'
  <2>1. len \in Nat
    BY StreamAssumption
  <2>2. UNCHANGED <<file, start>>
    BY <1>2 DEF Read
  <2>. QED
    BY <1>2, <2>1, <2>2, ReadStep
<1>3. ASSUME NEW base \in Bases, NEW by \in SeekBy, Seek(base, by)
      PROVE  /\ file' = file /\ offset' \in Nat /\ start' \in Nat
             /\ out' \in Seq(Nat) /\ err' \in {"nil", "EOF", "err"}
             /\ StreamIsContent'
  <2>1. /\ file' = file /\ offset' = start' /\ start' \in 0..MaxOffset
        /\ out' = <<>> /\ err' = "nil"
    BY <1>3 DEF Seek
  <2>2. Len(out') = 0 /\ out' \in Seq(Nat) /\ start' \in Nat
    BY <2>1, StreamAssumption
  <2>3. out' = [i \in 1..Len(out') |-> ByteAt(file', start' + i - 1)]
    BY <2>1, <2>2
  <2>4. offset' = start' + Len(out') /\ err' # "EOF" /\ ~(out' # <<>>)
    <3>0. start' \in Nat
      BY <2>2
    <3>1. \A x \in Nat : x + 0 = x
      OBVIOUS
    <3>2. offset' = start' + Len(out')
      BY <2>1, <2>2, <3>0, <3>1, Zenon
    <3>. QED
      BY <2>1, <3>2
  <2>5. StreamIsContent'
    BY <2>3, <2>4 DEF StreamIsContent
  <2>. QED
    BY <2>1, <2>2, <2>5
<1>4. CASE ReadAll
  BY <1>4 DEF ReadAll, StreamIsContent, FirstFound
<1>5. CASE /\ draining /\ err # "nil"
           /\ draining' = FALSE
           /\ UNCHANGED <<file, offset, n, err, start, out, odd>>
  BY <1>5 DEF StreamIsContent, FirstFound
<1>. QED
  BY <1>1, <1>2, <1>3, <1>4, <1>5 DEF ReaderNext, AnyRead, Drain

\* Every read, seek and failure keeps the reader consistent.
LEMMA StreamInvStep == StreamInv /\ [StreamNext]_streamVars => StreamInv'
<1> SUFFICES ASSUME StreamInv, [StreamNext]_streamVars PROVE StreamInv'
  OBVIOUS
<1>1. CASE ReaderNext /\ UNCHANGED ranged
  <2>1. /\ file' = file /\ offset' \in Nat /\ start' \in Nat
        /\ out' \in Seq(Nat) /\ err' \in {"nil", "EOF", "err"}
        /\ StreamIsContent'
    <3>1. StreamTypeOK /\ StreamIsContent /\ ReaderNext
      BY <1>1 DEF StreamInv
    <3>. QED
      BY <3>1, ReaderStep
  <2>. QED
    BY <1>1, <2>1 DEF StreamInv, StreamTypeOK
<1>2. CASE RangeCall
  <2>1. PICK r \in Ranges :
          ranged' = [off |-> r[1], len |-> r[2], how |-> RangeHow(file, r[1], r[2]),
                     bytes |-> IF RangeHow(file, r[1], r[2]) = "ok" THEN ReadFileRange(file, r[1], r[2]) ELSE <<>>]
    BY <1>2 DEF RangeCall
  <2>2. r[1] \in Nat /\ r[2] \in Nat /\ file \in Files
    BY StreamAssumption DEF StreamInv, StreamTypeOK
  <2>3. UNCHANGED readerVars
    BY <1>2 DEF RangeCall
  <2>4. /\ ranged'.off = r[1] /\ ranged'.len = r[2] /\ ranged'.how = RangeHow(file, r[1], r[2])
        /\ ranged'.how = "ok" => ranged'.bytes = ReadFileRange(file, r[1], r[2])
        /\ ranged'.how # "ok" => ranged'.bytes = <<>>
    BY <2>1
  <2>5. /\ ranged'.how \in {"ok", "err", "panic"}
        /\ ranged'.how = "ok" => file.found # 0 /\ Wrapped(file, r[1], r[2]) = {}
    BY <2>4 DEF RangeHow, Extents
  <2>6. ranged'.bytes \in Seq(Nat)
    <3>1. CASE ranged'.how = "ok"
      <4>1. Held(file, r[1], r[2]) \in Nat
        BY <2>2, <2>4, <2>5, <3>1, RangeIs
      <4>2. ReadFileRange(file, r[1], r[2]) \in Seq(Nat)
        BY <2>2, <2>4, <2>5, <3>1, <4>1, RangeType
      <4>. QED
        BY <2>4, <3>1, <4>2
    <3>2. CASE ranged'.how # "ok"
      <4>1. <<>> \in Seq(Nat)
        OBVIOUS
      <4>. QED
        BY <2>4, <3>2, <4>1
    <3>. QED
      BY <3>1, <3>2
  <2>7. ranged' \in [off : Nat, len : Nat, how : {"none", "ok", "err", "panic"}, bytes : Seq(Nat)]
    BY <2>1, <2>2, <2>4, <2>5, <2>6
  <2>8. StreamIsContent'
    BY <2>3 DEF StreamInv, StreamIsContent, readerVars, FirstFound
  <2>. QED
    BY <2>3, <2>4, <2>5, <2>7, <2>8 DEF StreamInv, StreamTypeOK, readerVars
<1>3. CASE UNCHANGED streamVars
  BY <1>3 DEF streamVars, readerVars, StreamInv, StreamTypeOK, StreamIsContent, FirstFound
<1>. QED
  BY <1>1, <1>2, <1>3 DEF StreamNext

-----------------------------------------------------------------------------

\* What a stream has returned since it was opened or moved is the file's
\* content from there on, for every file, buffer and seek.
THEOREM StreamReturnsContent == StreamSpec => []StreamIsContent
<1>1. StreamInv => StreamIsContent
  BY DEF StreamInv
<1>. QED
  BY <1>1, StreamInvInit, StreamInvStep, PTL DEF StreamSpec

\* A read before the end of a file that one extent holds returns bytes.
LEMMA CoveredReadTakes ==
  ASSUME StreamTypeOK, Covered, NEW len \in Nat, len > 0, Read(len)
  PROVE  offset' > offset
<1> DEFINE t == ToRead(len)
<1>1. /\ file \in Files /\ file.found # 0 /\ offset \in Nat /\ offset < file.size
      /\ t \in Nat /\ offset + t <= file.size /\ Held(file, offset, t) \in Nat
  BY ReadHolds DEF Read, StreamTypeOK
<1>2. /\ file.size \in Nat /\ file.size < Word64 /\ Word64 \in Nat
      /\ Record(file).size \in Nat /\ Record(file).size >= file.size
  BY <1>1, FileNumbers DEF Covered, Record
<1>3. t > 0
  BY <1>1, <1>2 DEF ToRead
<1>4. offset' = offset + Len(ReadFileRange(file, offset, t))
  BY DEF Read
<1> HIDE DEF t
<1>5. RangeEnd(offset, t) = offset + t
  BY <1>1, <1>2 DEF RangeEnd
<1>6. Held(file, offset, t) = t
  BY <1>1, <1>2, <1>3, <1>5 DEF Held, Holds, LastHeld
<1>7. Len(ReadFileRange(file, offset, t)) = t
  BY <1>1, <1>6, RangeType
<1>. QED
  BY <1>1, <1>3, <1>4, <1>7

\* io.ReadAll of a file that one extent holds never stays where it is, for files
\* and buffers of every size: as its position is bounded by the file's size, it
\* can call Read only so often before it gets an error.
THEOREM ReadAllMovesOn == StreamSpec => ReadAllAdvances
<1>1. ASSUME StreamInv, [StreamNext]_streamVars
      PROVE  [draining /\ Covered /\ odd' # odd /\ err' = "nil" => offset' > offset]_streamVars
  <2> SUFFICES ASSUME StreamNext, draining, Covered, odd' # odd, err' = "nil"
               PROVE  offset' > offset
    BY <1>1
  <2>1. ReaderNext
    BY DEF StreamNext, RangeCall, readerVars
  <2>2. Drain
    BY <2>1 DEF ReaderNext, Seek, ReadAll
  <2>3. ReadAtEnd \/ ReadFails \/ \E len \in BufLens \ {0} : Read(len)
    BY <2>2 DEF Drain
  <2>4. PICK len \in BufLens \ {0} : Read(len)
    BY <2>3 DEF ReadAtEnd, ReadFails
  <2>5. len \in Nat /\ len > 0
    BY StreamAssumption
  <2>. QED
    BY <1>1, <2>4, <2>5, CoveredReadTakes DEF StreamInv
<1>. QED
  BY <1>1, StreamInvInit, StreamInvStep, PTL DEF StreamSpec, ReadAllAdvances

\* A direct call of ReadFileRange returns the bytes of its range that the
\* extent found holds, and nothing else when offset and length overflow.
THEOREM RangeReturnsContent == StreamSpec => []RangeIsContent
<1>1. StreamInv => RangeIsContent
  <2> SUFFICES ASSUME StreamInv, ranged.how = "ok", FirstFound
               PROVE  /\ ranged.bytes = [i \in 1..Len(ranged.bytes) |-> ByteAt(file, ranged.off + i - 1)]
                      /\ ranged.off + ranged.len < Word64 =>
                           LET held == Extents(file)[1].size - ranged.off
                           IN  Len(ranged.bytes) = IF held <= 0 THEN 0 ELSE IF held < ranged.len THEN held ELSE ranged.len
    BY DEF RangeIsContent
  <2> DEFINE off == ranged.off
             len == ranged.len
             m == Held(file, off, len)
  <2>1. /\ file \in Files /\ file.found # 0 /\ off \in Nat /\ len \in Nat
        /\ Wrapped(file, off, len) = {} /\ ranged.bytes = ReadFileRange(file, off, len)
    BY DEF StreamInv, StreamTypeOK
  <2> HIDE DEF off, len
  <2>2. m \in Nat
    BY <2>1, RangeIs
  <2>3. Record(file).logical = 0
    BY <2>1 DEF FirstFound, Record
  <2>4. /\ ranged.bytes \in Seq(Nat) /\ Len(ranged.bytes) = m
        /\ \A i \in 1..m : ranged.bytes[i] = ByteAt(file, off + i - 1)
    <3>1. m = Held(file, off, len)
      OBVIOUS
    <3> HIDE DEF m
    <3>2. /\ ReadFileRange(file, off, len) \in Seq(Nat) /\ Len(ReadFileRange(file, off, len)) = m
          /\ \A i \in 1..m : ReadFileRange(file, off, len)[i] = ByteAt(file, off + i - 1)
      <4>1. file \in Files /\ file.found # 0 /\ off \in Nat /\ len \in Nat
        BY <2>1, Zenon
      <4>. QED
        BY <4>1, <2>2, <2>3, <3>1, HeldBytes
    <3>. QED
      BY <2>1, <3>2, Zenon
  <2>5. ranged.bytes = [i \in 1..Len(ranged.bytes) |-> ByteAt(file, off + i - 1)]
    <3>1. ranged.bytes = [i \in 1..Len(ranged.bytes) |-> ranged.bytes[i]]
      BY <2>4
    <3>. QED
      BY <2>4, <3>1
  <2>6. ASSUME off + len < Word64
        PROVE  LET held == Extents(file)[1].size - off
               IN  m = IF held <= 0 THEN 0 ELSE IF held < len THEN held ELSE len
    <3>1. /\ Extents(file)[1] = Record(file) /\ Record(file).size \in Nat /\ Word64 \in Nat
      BY <2>1, FileNumbers
    <3>2. RangeEnd(off, len) = off + len
      BY <2>1, <2>6, <3>1 DEF RangeEnd
    <3>. QED
      BY <2>1, <3>1, <3>2 DEF Held, Holds, LastHeld
  <2>. QED
    BY <2>4, <2>5, <2>6 DEF off, len
<1>. QED
  BY <1>1, StreamInvInit, StreamInvStep, PTL DEF StreamSpec

-----------------------------------------------------------------------------
(* File systems: what the operators that may fail come to.                 *)

\* "if err != nil { return err }", spelled out.
LEMMA One == ASSUME NEW x PROVE (CHOOSE y \in {x} : TRUE) = x
  OBVIOUS

\* The operators that chain results with Then, spelled out case by case.
LEMMA LeafIs ==
  ASSUME NEW oid, NEW id, NEW keyLen
  PROVE  LET d == Descent(oid, id, keyLen)[Depth]
         IN  Leaf(oid, id, keyLen) =
               IF d.ok THEN IF d.val.node.leaf THEN Ok(d.val.node) ELSE Err("endless") ELSE d
<1> DEFINE d == Descent(oid, id, keyLen)[Depth]
           f(v) == IF v.ok THEN IF v.val.node.leaf THEN Ok(v.val.node) ELSE Err("endless") ELSE v
<1>1. {f(v) : v \in {d}} = {f(d)}
  OBVIOUS
<1>2. Leaf(oid, id, keyLen) = CHOOSE y \in {f(v) : v \in {d}} : TRUE
  BY DEF Leaf, Then
<1>. QED
  BY <1>1, <1>2, One, Zenon

LEMMA EnteringIs ==
  ASSUME NEW oid
  PROVE  Entering(oid) = IF oid \notin DOMAIN vol.nodes THEN Err("not found")
                         ELSE IF oid \in broken THEN Err("unreadable")
                         ELSE Ok([oid |-> oid, node |-> vol.nodes[oid]])
<1> DEFINE f(v) == IF v.ok THEN Ok([oid |-> oid, node |-> v.val]) ELSE v
<1>1. {f(v) : v \in {Node(oid)}} = {f(Node(oid))}
  OBVIOUS
<1>2. Entering(oid) = CHOOSE y \in {f(v) : v \in {Node(oid)}} : TRUE
  BY DEF Entering, Then
<1>3. Entering(oid) = f(Node(oid))
  BY <1>1, <1>2, One, Zenon
<1>. QED
  BY <1>3 DEF Node, Ok, Err

LEMMA StepDownIs ==
  ASSUME NEW at, NEW id, NEW keyLen
  PROVE  LET c == Child(at.node, id, keyLen)
         IN  StepDown(at, id, keyLen) =
               IF at.node.leaf THEN Ok(at) ELSE IF c.ok THEN Entering(c.val) ELSE c
<1> DEFINE c == Child(at.node, id, keyLen)
           f(v) == IF v.ok THEN Entering(v.val) ELSE v
<1>1. {f(v) : v \in {c}} = {f(c)}
  OBVIOUS
<1>2. StepDown(at, id, keyLen) = IF at.node.leaf THEN Ok(at) ELSE CHOOSE y \in {f(v) : v \in {c}} : TRUE
  BY DEF StepDown, Then
<1>. QED
  BY <1>1, <1>2, One, Zenon

LEMMA loadInodeIs ==
  ASSUME NEW oid
  PROVE  LET nd == Leaf(oid, oid, 8)
         IN  loadInode(oid) = IF nd.ok THEN InodeIn(nd.val, inodeRecords(nd.val, oid)) ELSE nd
<1> DEFINE nd == Leaf(oid, oid, 8)
           f(v) == IF v.ok THEN InodeIn(v.val, inodeRecords(v.val, oid)) ELSE v
<1>1. {f(v) : v \in {nd}} = {f(nd)}
  OBVIOUS
<1>2. loadInode(oid) = CHOOSE y \in {f(v) : v \in {nd}} : TRUE
  BY DEF loadInode, Then
<1>. QED
  BY <1>1, <1>2, One, Zenon

LEMMA getFileExtentsIs ==
  ASSUME NEW inode
  PROVE  LET nd == Leaf(RootTree, inode.private, 16)
             x == FirstExtent(nd.val, extentRecords(nd.val, inode.private))
         IN  getFileExtents(inode) =
               IF inode.private # 0 /\ RootTree # 0 /\ nd.ok /\ x.ok THEN <<x.val>> ELSE <<>>
<1> DEFINE nd == Leaf(RootTree, inode.private, 16)
           f(v) == IF v.ok THEN FirstExtent(v.val, extentRecords(v.val, inode.private)) ELSE v
           t == CHOOSE y \in {f(v) : v \in {nd}} : TRUE
<1>1. {f(v) : v \in {nd}} = {f(nd)}
  OBVIOUS
<1>2. t = f(nd)
  BY <1>1, One, Zenon
<1>3. getFileExtents(inode) =
        IF inode.private = 0 \/ RootTree = 0 THEN <<>> ELSE IF t.ok THEN <<t.val>> ELSE <<>>
  BY DEF getFileExtents, Then
<1> HIDE DEF t
<1>. QED
  BY <1>2, <1>3

LEMMA listIs ==
  ASSUME NEW dir
  PROVE  LET nd == loadInode(dir)
             xs == getFileExtents(nd.val)
         IN  listDirectoryContents(dir) =
               IF ~nd.ok THEN nd
               ELSE IF ~nd.val.dir THEN Err("not a directory")
               ELSE Ok(IF xs = <<>> THEN <<>> ELSE ExtentEntries(xs[1]))
<1> DEFINE nd == loadInode(dir)
           g(inode) == IF ~inode.dir THEN Err("not a directory")
                       ELSE LET xs == getFileExtents(inode)
                            IN  Ok(IF xs = <<>> THEN <<>> ELSE ExtentEntries(xs[1]))
           f(v) == IF v.ok THEN g(v.val) ELSE v
<1>1. {f(v) : v \in {nd}} = {f(nd)}
  OBVIOUS
<1>2. listDirectoryContents(dir) = CHOOSE y \in {f(v) : v \in {nd}} : TRUE
  BY DEF listDirectoryContents, Then
<1>3. listDirectoryContents(dir) = f(nd)
  BY <1>1, <1>2, One, Zenon
<1>. QED
  BY <1>3

\* One component of a path.
Looked(dir, name) ==
  LET list == listDirectoryContents(dir) IN IF list.ok THEN EntryNamed(list.val, name) ELSE list

LEMMA StepIs ==
  ASSUME NEW cur, NEW name
  PROVE  Step(cur, name) = IF cur.ok THEN Looked(cur.val, name) ELSE cur
<1> DEFINE g(v) == IF v.ok THEN EntryNamed(v.val, name) ELSE v
           h(dir) == CHOOSE y \in {g(v) : v \in {listDirectoryContents(dir)}} : TRUE
           f(v) == IF v.ok THEN h(v.val) ELSE v
<1>1. {f(v) : v \in {cur}} = {f(cur)}
  OBVIOUS
<1>2. Step(cur, name) = CHOOSE y \in {f(v) : v \in {cur}} : TRUE
  BY DEF Step, Then
<1>3. Step(cur, name) = f(cur)
  BY <1>1, <1>2, One, Zenon
<1>4. ASSUME NEW dir PROVE h(dir) = g(listDirectoryContents(dir))
  <2>1. {g(v) : v \in {listDirectoryContents(dir)}} = {g(listDirectoryContents(dir))}
    OBVIOUS
  <2>. QED
    BY <2>1, One, Zenon
<1> HIDE DEF h
<1>. QED
  BY <1>3, <1>4 DEF Looked

LEMMA ListDirectoryIs ==
  ASSUME NEW path
  PROVE  LET r == getInodeByPath(path)
             list == listDirectoryContents(r.val)
         IN  ListDirectory(path) =
               IF ~r.ok THEN r ELSE IF ~list.ok THEN list ELSE Ok([dir |-> r.val, entries |-> list.val])
<1> DEFINE r == getInodeByPath(path)
           g(v, dir) == IF v.ok THEN Ok([dir |-> dir, entries |-> v.val]) ELSE v
           h(dir) == CHOOSE y \in {g(v, dir) : v \in {listDirectoryContents(dir)}} : TRUE
           f(v) == IF v.ok THEN h(v.val) ELSE v
<1>1. {f(v) : v \in {r}} = {f(r)}
  OBVIOUS
<1>2. ListDirectory(path) = CHOOSE y \in {f(v) : v \in {r}} : TRUE
  BY DEF ListDirectory, Then
<1>3. ListDirectory(path) = f(r)
  BY <1>1, <1>2, One, Zenon
<1>4. h(r.val) = g(listDirectoryContents(r.val), r.val)
  <2>1. {g(v, r.val) : v \in {listDirectoryContents(r.val)}} = {g(listDirectoryContents(r.val), r.val)}
    OBVIOUS
  <2>. QED
    BY <2>1, One, Zenon
<1> HIDE DEF h, r
<1>5. ListDirectory(path) = IF r.ok THEN g(listDirectoryContents(r.val), r.val) ELSE r
  BY <1>3, <1>4
<1>. QED
  BY <1>5 DEF r

\* The least index of a set of positions is one of them.
LEMMA MinIn ==
  ASSUME NEW m \in Nat, NEW I \in SUBSET (1..m), I # {}
  PROVE  Min(I) \in I /\ \A j \in I : Min(I) <= j
<1>1. I \subseteq Nat
  OBVIOUS
<1>2. PICK i \in I : \A j \in I : i <= j
  BY <1>1, NatHasMin
<1>. QED
  BY <1>2 DEF Min

\* The records a descent follows.
Followed(node, id, keyLen) ==
  {i \in Readable(node, keyLen) : node.recs[i].id >= id /\ node.recs[i].valAt + 8 <= DataLen}

\* A child a search goes on to is the value of a record of the node.
LEMMA ChildIs ==
  ASSUME NEW node, IsNode(node), NEW id, NEW keyLen
  PROVE  \/ Child(node, id, keyLen) = Err("no suitable child")
         \/ \E i \in Followed(node, id, keyLen) : Child(node, id, keyLen) = Ok(node.recs[i].val)
<1> DEFINE m == Len(node.recs)
           I == {i \in 1..m : /\ node.fixed /\ node.recs[i].keyAt + keyLen <= DataLen
                              /\ node.recs[i].id >= id /\ node.recs[i].valAt + 8 <= DataLen}
           k == IF I # {} THEN Min(I) ELSE 0
<1>1. m \in Nat /\ I \in SUBSET (1..m)
  BY DEF IsNode
<1>2. Child(node, id, keyLen) = IF k = 0 \/ node.recs[k].val = 0 THEN Err("no suitable child") ELSE Ok(node.recs[k].val)
  BY DEF Child, SelectInSeq
<1>3. I = Followed(node, id, keyLen)
  BY DEF Followed, Readable
<1> HIDE DEF I, m
<1>4. k = 0 \/ k \in I
  BY <1>1, MinIn
<1> HIDE DEF k
<1>. QED
  BY <1>2, <1>3, <1>4

\* Where the records of the tree's nodes may point to.
Values == UNION {{vol.nodes[o].recs[i].val : i \in 1..Len(vol.nodes[o].recs)} : o \in DOMAIN vol.nodes}

At(r) == /\ r.ok \in BOOLEAN
         /\ r.ok => /\ r.val.oid \in DOMAIN vol.nodes /\ r.val.oid \notin broken
                    /\ r.val.node = vol.nodes[r.val.oid]

DescentFrom(oid, id, keyLen) ==
  LET d == Descent(oid, id, keyLen)
  IN  /\ d[0] = Entering(oid)
      /\ \A k \in 1..Depth :
           /\ ~d[k - 1].ok => d[k] = d[k - 1]
           /\ d[k - 1].ok => \A at : at = d[k - 1].val => d[k] = StepDown(at, id, keyLen)
      /\ \A k \in 0..Depth : At(d[k])
DescentGoesDown == \A oid, id, keyLen : DescentFrom(oid, id, keyLen)

\* What the assumption on volumes says of the one considered.
LEMMA VolumeIs ==
  ASSUME vol \in Volumes
  PROVE  /\ Depth \in Nat /\ IsFiniteSet(DOMAIN vol.nodes)
         /\ \A o \in DOMAIN vol.nodes : IsNode(vol.nodes[o])
         /\ \A b \in DOMAIN vol.blocks : vol.blocks[b].recs \in Seq(DirectoryEntry)
<1>1. IsVolume(vol)
  BY TreeAssumption
<1>. QED
  BY <1>1, FS_CardinalityType DEF IsVolume, Depth

\* A node that can be entered is the one stored under its OID.
LEMMA AtEntering ==
  ASSUME NEW oid PROVE At(Entering(oid))
BY EnteringIs DEF At, Ok, Err

\* The recursive descent, step by step.
LEMMA DescentIs ==
  ASSUME vol \in Volumes, NEW oid, NEW id, NEW keyLen
  PROVE  DescentFrom(oid, id, keyLen)
<1> DEFINE V == {Entering(o) : o \in {oid} \cup Values} \cup {Err("no suitable child")}
           stepFrom(r) == IF r.ok THEN StepDown(r.val, id, keyLen) ELSE r
           next == [x \in (1..Depth) \X V |-> stepFrom(x[2])]
           down[k \in 0..Depth] ==
             IF k = 0 THEN Entering(oid) ELSE Then(down[k - 1], LAMBDA at : StepDown(at, id, keyLen))
<1>0. Depth \in Nat
  BY VolumeIs
<1>15. ASSUME NEW r \in V PROVE r = Err("no suitable child") \/ \E o \in {oid} \cup Values : r = Entering(o)
  OBVIOUS
<1>1. ASSUME NEW r \in V PROVE At(r)
  <2>1. At(Err("no suitable child"))
    BY DEF At, Err
  <2> HIDE DEF V
  <2>. QED
    BY <1>15, <2>1, AtEntering, Zenon
<1>2. ASSUME NEW r \in V PROVE stepFrom(r) \in V
  <2>1. CASE ~r.ok
    BY <2>1
  <2>2. CASE r.ok
    <3> DEFINE c == Child(r.val.node, id, keyLen)
    <3>0. ~Err("no suitable child").ok
      BY DEF Err
    <3>1. PICK o \in {oid} \cup Values : r = Entering(o)
      <4> HIDE DEF V
      <4>. QED
        BY <1>15, <2>2, <3>0, Zenon
    <3>2. r = Ok([oid |-> o, node |-> vol.nodes[o]]) /\ o \in DOMAIN vol.nodes
      BY <2>2, <3>1, EnteringIs DEF Err
    <3>3. r.val.node = vol.nodes[o] /\ r = Ok(r.val)
      BY <3>2 DEF Ok
    <3>4. stepFrom(r) = IF r.val.node.leaf THEN r ELSE IF c.ok THEN Entering(c.val) ELSE c
      BY <2>2, <3>3, StepDownIs
    <3>5. c = Err("no suitable child") \/ (c.ok /\ c.val \in Values)
      <4>1. IsNode(r.val.node)
        BY <3>2, <3>3, VolumeIs
      <4>2. \/ c = Err("no suitable child")
            \/ \E i \in Followed(r.val.node, id, keyLen) : c = Ok(r.val.node.recs[i].val)
        BY <4>1, ChildIs
      <4> HIDE DEF c
      <4>3. CASE \E i \in Followed(r.val.node, id, keyLen) : c = Ok(r.val.node.recs[i].val)
        <5>1. PICK i \in Followed(r.val.node, id, keyLen) : c = Ok(r.val.node.recs[i].val)
          BY <4>3
        <5>2. i \in 1..Len(vol.nodes[o].recs)
          BY <3>3 DEF Followed, Readable
        <5>3. c.ok /\ c.val = vol.nodes[o].recs[i].val
          BY <3>3, <5>1 DEF Ok
        <5> DEFINE vals == {vol.nodes[o].recs[k].val : k \in 1..Len(vol.nodes[o].recs)}
        <5>4. c.val \in vals
          BY <5>2, <5>3
        <5>5. vals \in {{vol.nodes[w].recs[k].val : k \in 1..Len(vol.nodes[w].recs)} : w \in DOMAIN vol.nodes}
          BY <3>2
        <5> HIDE DEF vals
        <5>. QED
          BY <5>3, <5>4, <5>5, Zenon DEF Values
      <4>. QED
        BY <4>2, <4>3
    <3>6. Err("no suitable child") \in V /\ \A w \in Values : Entering(w) \in V
      BY Zenon
    <3> HIDE DEF c, stepFrom, V
    <3>. QED
      BY <3>0, <3>4, <3>5, <3>6
  <2>. QED
    BY <2>1, <2>2
<1>3. ASSUME NEW r PROVE Then(r, LAMBDA at : StepDown(at, id, keyLen)) = stepFrom(r)
  <2>1. {stepFrom(v) : v \in {r}} = {stepFrom(r)}
    OBVIOUS
  <2>2. Then(r, LAMBDA at : StepDown(at, id, keyLen)) = CHOOSE y \in {stepFrom(v) : v \in {r}} : TRUE
    BY DEF Then
  <2>. QED
    BY <2>1, <2>2, One, Zenon
<1>4. next \in [(1..Depth) \X V -> V]
  BY <1>2
<1>5. \A k \in 1..Depth, r \in V : next[<<k, r>>] = stepFrom(r)
  OBVIOUS
<1>6. Entering(oid) \in V
  OBVIOUS
<1>7. \E d : IsRecursion(d, Depth, V, Entering(oid), next)
  <2> HIDE DEF next, V
  <2>. QED
    BY <1>0, <1>4, <1>6, RecursionExists
<1>8. PICK d : IsRecursion(d, Depth, V, Entering(oid), next)
  BY <1>7
<1> HIDE DEF next, stepFrom, V
<1>9. d = [k \in 0..Depth |->
             IF k = 0 THEN Entering(oid) ELSE Then(d[k - 1], LAMBDA at : StepDown(at, id, keyLen))]
  <2>1. ASSUME NEW k \in 0..Depth, k # 0
        PROVE  d[k] = Then(d[k - 1], LAMBDA at : StepDown(at, id, keyLen))
    <3>1. k \in 1..Depth /\ k - 1 \in 0..Depth
      BY <1>0, <2>1
    <3>2. d[k] = next[<<k, d[k - 1]>>] /\ d[k - 1] \in V
      BY <1>8, <3>1 DEF IsRecursion
    <3>. QED
      BY <1>3, <1>5, <3>1, <3>2
  <2>. QED
    BY <1>8, <2>1 DEF IsRecursion
<1>10. Descent(oid, id, keyLen) = down
  BY DEF Descent
<1>11. down = [k \in 0..Depth |->
                IF k = 0 THEN Entering(oid) ELSE Then(down[k - 1], LAMBDA at : StepDown(at, id, keyLen))]
  BY <1>9
<1> HIDE DEF down
<1>12. down[0] = Entering(oid) /\ \A k \in 1..Depth : down[k] = stepFrom(down[k - 1])
  <2>1. 0 \in 0..Depth /\ \A k \in 1..Depth : k \in 0..Depth /\ k # 0
    BY <1>0
  <2>. QED
    BY <1>3, <1>11, <2>1, Zenon
<1>13. \A k \in 0..Depth : down[k] \in V
  <2> DEFINE T == {k \in 0..Depth : down[k] \in V}
  <2>1. 0 \in T /\ \A k \in 1..Depth : k - 1 \in T => k \in T
    BY <1>0, <1>2, <1>6, <1>12
  <2> HIDE DEF T
  <2>2. \A k \in 0..Depth : k \in T
    BY <1>0, <2>1, UpTo
  <2>. QED
    BY <2>2 DEF T
<1>14. \A k \in 0..Depth : At(down[k])
  BY <1>1, <1>13
<1>. QED
  BY <1>10, <1>12, <1>14, Zenon DEF DescentFrom, stepFrom

\* The same operators after a step.
StillThere == vol' = vol /\ broken \subseteq broken'

DescentSpelledOut ==
  \A oid, id, keyLen :
    /\ DescentFrom(oid, id, keyLen)
    /\ LET d == Descent(oid, id, keyLen)[Depth]
       IN  Leaf(oid, id, keyLen) = IF d.ok THEN IF d.val.node.leaf THEN Ok(d.val.node) ELSE Err("endless") ELSE d
EnteringSpelledOut ==
  \A oid : Entering(oid) = IF oid \notin DOMAIN vol.nodes THEN Err("not found")
                           ELSE IF oid \in broken THEN Err("unreadable")
                           ELSE Ok([oid |-> oid, node |-> vol.nodes[oid]])

\* The same as state predicates, so that they may be primed.
LEMMA DescentSpelled == vol \in Volumes => DescentSpelledOut
  BY DescentIs, LeafIs DEF DescentSpelledOut
LEMMA EnteringSpelled == EnteringSpelledOut
  BY EnteringIs DEF EnteringSpelledOut
LEMMA DescentSpelledNext == (vol \in Volumes)' => DescentSpelledOut'
  BY DescentSpelled, PTL
LEMMA EnteringSpelledNext == EnteringSpelledOut'
  BY EnteringSpelled, PTL

\* What can be read after a step could be read before it, and is the same.
LEMMA EnteringStays ==
  ASSUME StillThere, NEW oid, Entering(oid)'.ok
  PROVE  Entering(oid)' = Entering(oid)
<1>1. Entering(oid)' = IF oid \notin DOMAIN vol'.nodes THEN Err("not found")
                       ELSE IF oid \in broken' THEN Err("unreadable")
                       ELSE Ok([oid |-> oid, node |-> vol'.nodes[oid]])
  BY EnteringSpelledNext DEF EnteringSpelledOut, Ok, Err
<1>2. ~Err("not found").ok /\ ~Err("unreadable").ok
  BY DEF Err
<1>3. oid \in DOMAIN vol'.nodes /\ oid \notin broken'
  BY <1>1, <1>2, Zenon
<1>4. oid \in DOMAIN vol.nodes /\ oid \notin broken /\ vol'.nodes[oid] = vol.nodes[oid]
  BY <1>3 DEF StillThere
<1>5. Entering(oid) = Ok([oid |-> oid, node |-> vol.nodes[oid]])
  BY <1>4, EnteringIs
<1>. QED
  BY <1>1, <1>3, <1>4, <1>5

StepDownSpelledOut ==
  \A at, id, keyLen :
    StepDown(at, id, keyLen) = LET c == Child(at.node, id, keyLen)
                               IN  IF at.node.leaf THEN Ok(at) ELSE IF c.ok THEN Entering(c.val) ELSE c
LEMMA StepDownSpelled == StepDownSpelledOut
  BY StepDownIs DEF StepDownSpelledOut
LEMMA StepDownSpelledNext == StepDownSpelledOut'
  BY StepDownSpelled, PTL

\* So a step down that still succeeds leads where it led.
LEMMA StepDownStays ==
  ASSUME StillThere, NEW at, NEW id, NEW keyLen, StepDown(at, id, keyLen)'.ok
  PROVE  StepDown(at, id, keyLen)' = StepDown(at, id, keyLen)
<1> DEFINE c == Child(at.node, id, keyLen)
<1>1. StepDown(at, id, keyLen)' = IF at.node.leaf THEN Ok(at) ELSE IF c.ok THEN Entering(c.val)' ELSE c
  BY StepDownSpelledNext DEF StepDownSpelledOut
<1>2. StepDown(at, id, keyLen) = IF at.node.leaf THEN Ok(at) ELSE IF c.ok THEN Entering(c.val) ELSE c
  BY StepDownSpelled DEF StepDownSpelledOut
<1> HIDE DEF c
<1>3. CASE ~at.node.leaf /\ c.ok
  <2>1. Entering(c.val)'.ok
    BY <1>1, <1>3
  <2>2. Entering(c.val)' = Entering(c.val)
    BY <2>1, EnteringStays
  <2>. QED
    BY <1>1, <1>2, <1>3, <2>2
<1>. QED
  BY <1>1, <1>2, <1>3

\* A descent that still gets down to a leaf gets to the one it got to before.
LEMMA LeafStays ==
  ASSUME vol \in Volumes, StillThere, NEW oid, NEW id, NEW keyLen, Leaf(oid, id, keyLen)'.ok
  PROVE  Leaf(oid, id, keyLen)' = Leaf(oid, id, keyLen)
<1> DEFINE old == Descent(oid, id, keyLen)
           new == Descent(oid, id, keyLen)'
           T == {k \in 0..Depth : new[k].ok => new[k] = old[k]}
<1>1. Depth \in Nat /\ Depth' = Depth /\ vol' \in Volumes
  BY VolumeIs DEF StillThere, Depth
<1>2. /\ new[0] = Entering(oid)'
      /\ \A k \in 1..Depth :
           /\ ~new[k - 1].ok => new[k] = new[k - 1]
           /\ new[k - 1].ok => \A at : at = new[k - 1].val => new[k] = StepDown(at, id, keyLen)'
  BY <1>1, DescentSpelledNext DEF DescentSpelledOut, DescentFrom
<1>3. /\ old[0] = Entering(oid)
      /\ \A k \in 1..Depth :
           /\ ~old[k - 1].ok => old[k] = old[k - 1]
           /\ old[k - 1].ok => \A at : at = old[k - 1].val => old[k] = StepDown(at, id, keyLen)
  BY DescentSpelled DEF DescentSpelledOut, DescentFrom
<1>4. Leaf(oid, id, keyLen)' = IF new[Depth].ok THEN IF new[Depth].val.node.leaf THEN Ok(new[Depth].val.node) ELSE Err("endless")
                               ELSE new[Depth]
  BY <1>1, DescentSpelledNext DEF DescentSpelledOut
<1>5. Leaf(oid, id, keyLen) = IF old[Depth].ok THEN IF old[Depth].val.node.leaf THEN Ok(old[Depth].val.node) ELSE Err("endless")
                              ELSE old[Depth]
  BY DescentSpelled DEF DescentSpelledOut
<1> HIDE DEF old, new
<1>6. 0 \in T
  BY <1>1, <1>2, <1>3, EnteringStays
<1>7. ASSUME NEW k \in 1..Depth, k - 1 \in T PROVE k \in T
  <2> SUFFICES ASSUME new[k].ok PROVE new[k] = old[k]
    BY <1>1
  <2>1. new[k - 1].ok
    BY <1>2
  <2>2. new[k - 1] = old[k - 1]
    BY <1>7, <2>1
  <2>3. PICK at : at = new[k - 1].val
    OBVIOUS
  <2>4. new[k] = StepDown(at, id, keyLen)' /\ old[k] = StepDown(at, id, keyLen)
    BY <1>2, <1>3, <2>1, <2>2, <2>3
  <2>. QED
    BY <2>4, StepDownStays
<1>8. Depth \in T
  <2> HIDE DEF T
  <2>. QED
    BY <1>1, <1>6, <1>7, UpTo
<1>. QED
  BY <1>4, <1>5, <1>8

InodesSpelledOut ==
  \A oid : \A nd : nd = Leaf(oid, oid, 8) =>
    loadInode(oid) = IF nd.ok THEN InodeIn(nd.val, inodeRecords(nd.val, oid)) ELSE nd
ExtentsSpelledOut ==
  \A inode : \A nd : nd = Leaf(RootTree, inode.private, 16) =>
    LET x == FirstExtent(nd.val, extentRecords(nd.val, inode.private))
    IN  getFileExtents(inode) =
          IF inode.private # 0 /\ RootTree # 0 /\ nd.ok /\ x.ok THEN <<x.val>> ELSE <<>>
ListsSpelledOut ==
  \A dir : \A nd : nd = loadInode(dir) =>
    /\ ~nd.ok => listDirectoryContents(dir) = nd
    /\ nd.ok /\ ~nd.val.dir => listDirectoryContents(dir) = Err("not a directory")
    /\ nd.ok /\ nd.val.dir => \A xs : xs = getFileExtents(nd.val) =>
         /\ xs = <<>> => listDirectoryContents(dir) = Ok(<<>>)
         /\ xs # <<>> => \A x : x = xs[1] => listDirectoryContents(dir) = Ok(ExtentEntries(x))
LEMMA InodesSpelled == InodesSpelledOut
  BY loadInodeIs DEF InodesSpelledOut
LEMMA ExtentsSpelled == ExtentsSpelledOut
  BY getFileExtentsIs DEF ExtentsSpelledOut
LEMMA ListsSpelled == ListsSpelledOut
  BY listIs DEF ListsSpelledOut
LEMMA InodesSpelledNext == InodesSpelledOut'
  BY InodesSpelled, PTL
LEMMA ExtentsSpelledNext == ExtentsSpelledOut'
  BY ExtentsSpelled, PTL
LEMMA ListsSpelledNext == ListsSpelledOut'
  BY ListsSpelled, PTL

\* An inode that can still be loaded is the one it was, and so is an extent.
LEMMA InodeStays ==
  ASSUME vol \in Volumes, StillThere, NEW oid, loadInode(oid)'.ok
  PROVE  loadInode(oid)' = loadInode(oid)
<1>1. PICK new : new = Leaf(oid, oid, 8)'
  OBVIOUS
<1>2. loadInode(oid)' = IF new.ok THEN InodeIn(new.val, inodeRecords(new.val, oid)) ELSE new
  BY <1>1, InodesSpelledNext DEF InodesSpelledOut
<1>3. new.ok /\ new = Leaf(oid, oid, 8)
  <2>1. new.ok
    BY <1>2
  <2>. QED
    BY <1>1, <2>1, LeafStays
<1>4. loadInode(oid) = IF new.ok THEN InodeIn(new.val, inodeRecords(new.val, oid)) ELSE new
  BY <1>3, InodesSpelled DEF InodesSpelledOut
<1>. QED
  BY <1>2, <1>4

\* So does the search for a file's extent, once one is found.
LEMMA ExtentsStay ==
  ASSUME vol \in Volumes, StillThere, NEW inode, getFileExtents(inode)' # <<>>
  PROVE  getFileExtents(inode)' = getFileExtents(inode)
<1> DEFINE x(w) == FirstExtent(w.val, extentRecords(w.val, inode.private))
<1>1. PICK new : new = Leaf(RootTree, inode.private, 16)'
  OBVIOUS
<1>2. getFileExtents(inode)' =
        IF inode.private # 0 /\ RootTree # 0 /\ new.ok /\ x(new).ok THEN <<x(new).val>> ELSE <<>>
  BY <1>1, ExtentsSpelledNext DEF ExtentsSpelledOut
<1>3. new.ok /\ new = Leaf(RootTree, inode.private, 16)
  <2>1. new.ok
    BY <1>2
  <2>. QED
    BY <1>1, <2>1, LeafStays
<1>4. getFileExtents(inode) =
        IF inode.private # 0 /\ RootTree # 0 /\ new.ok /\ x(new).ok THEN <<x(new).val>> ELSE <<>>
  BY <1>3, ExtentsSpelled DEF ExtentsSpelledOut
<1>. QED
  BY <1>2, <1>4

\* Among the counts up to a bound that satisfy a condition there is a greatest.
LEMMA HasGreatest ==
  ASSUME NEW m \in Nat, NEW S \in SUBSET (0..m), S # {}
  PROVE  \E k \in S : \A j \in S : j <= k
<1> DEFINE Left == {m - j : j \in S}
<1>0. \A j \in S : m - j \in Nat
  OBVIOUS
<1>1. Left \subseteq Nat /\ Left # {}
  BY <1>0
<1>2. PICK w \in Left : \A v \in Left : w <= v
  <2> HIDE DEF Left
  <2>. QED
    BY <1>1, NatHasMin
<1>3. PICK k \in S : w = m - k
  BY <1>2
<1>4. ASSUME NEW j \in S PROVE j <= k
  <2>1. m - k <= m - j
    BY <1>2, <1>3
  <2>. QED
    BY <2>1
<1>. QED
  BY <1>4

\* The records parsed from a block are a prefix of those in it.
LEMMA ParsedRecords ==
  ASSUME NEW recs \in Seq(DirectoryEntry)
  PROVE  \E m \in 0..Len(recs) : parseDirectoryRecords(recs) = SubSeq(recs, 1, m)
<1> DEFINE good == {k \in 0..Len(recs) : \A i \in 1..k : Fits(recs, i)}
           most == CHOOSE m \in good : \A k \in good : k <= m
<1>1. Len(recs) \in Nat /\ good \in SUBSET (0..Len(recs)) /\ 0 \in good
  OBVIOUS
<1>2. parseDirectoryRecords(recs) = SubSeq(recs, 1, most)
  BY DEF parseDirectoryRecords
<1> HIDE DEF good
<1>3. \E m \in good : \A k \in good : k <= m
  BY <1>1, HasGreatest
<1>4. most \in good
  BY <1>3
<1>. QED
  BY <1>1, <1>2, <1>4

\* The records of a block that are found, and where.
LEMMA ParsedBlock ==
  ASSUME vol \in Volumes, NEW b
  PROVE  LET list == parseDirectoryBlock(b)
         IN  /\ list \in Seq(DirectoryEntry) /\ Len(list) \in Nat
             /\ \A i \in 1..Len(list) :
                  /\ list[i] \in DirectoryEntry
                  /\ b \in DOMAIN vol.blocks /\ b \notin broken /\ ~vol.blocks[b].node
                  /\ i \in 1..Len(vol.blocks[b].recs) /\ list[i] = vol.blocks[b].recs[i]
<1>1. CASE b \notin DOMAIN vol.blocks \/ b \in broken \/ vol.blocks[b].node
  <2>1. parseDirectoryBlock(b) = <<>>
    BY <1>1 DEF parseDirectoryBlock
  <2>. QED
    BY <2>1
<1>2. CASE ~(b \notin DOMAIN vol.blocks \/ b \in broken \/ vol.blocks[b].node)
  <2>1. PICK recs \in Seq(DirectoryEntry) : recs = vol.blocks[b].recs
    BY <1>2, VolumeIs
  <2>2. PICK m \in 0..Len(recs) : parseDirectoryRecords(recs) = SubSeq(recs, 1, m)
    BY ParsedRecords
  <2>3. parseDirectoryBlock(b) = SubSeq(recs, 1, m)
    BY <1>2, <2>1, <2>2 DEF parseDirectoryBlock
  <2>4. Len(recs) \in Nat /\ \A i \in 1..Len(recs) : recs[i] \in DirectoryEntry
    BY ElementOfSeq
  <2> DEFINE s == SubSeq(recs, 1, m)
  <2>5. s \in Seq(DirectoryEntry) /\ Len(s) = m /\ \A i \in 1..m : s[i] = recs[i]
    BY <2>4
  <2>6. \A i \in 1..m : i \in 1..Len(recs)
    BY <2>4
  <2> HIDE DEF s
  <2>. QED
    BY <1>2, <2>1, <2>3, <2>4, <2>5, <2>6 DEF s
<1>. QED
  BY <1>1, <1>2

IsExtent(x) == x.block \in Nat /\ x.blocks \in Nat
Blocks(x, k) == x.block..(x.block + k - 1)

\* The entries of an extent, block by block.
LEMMA EntriesUpToIs ==
  ASSUME vol \in Volumes, NEW x, IsExtent(x)
  PROVE  LET upTo == EntriesUpTo(x)
         IN  /\ upTo[0] = <<>>
             /\ \A k \in 1..x.blocks : upTo[k] = upTo[k - 1] \o parseDirectoryBlock(x.block + k - 1)
             /\ \A k \in 0..x.blocks : upTo[k] \in Seq(DirectoryEntry)
<1> DEFINE V == Seq(DirectoryEntry)
           next == [w \in (1..x.blocks) \X V |-> w[2] \o parseDirectoryBlock(x.block + w[1] - 1)]
           all[k \in 0..x.blocks] == IF k = 0 THEN <<>> ELSE all[k - 1] \o parseDirectoryBlock(x.block + k - 1)
<1>0. x.blocks \in Nat /\ x.block \in Nat /\ <<>> \in V
  BY DEF IsExtent
<1>1. ASSUME NEW list \in V, NEW k PROVE list \o parseDirectoryBlock(x.block + k - 1) \in V
  <2>1. parseDirectoryBlock(x.block + k - 1) \in V
    BY ParsedBlock
  <2>. QED
    BY <2>1, ConcatProperties
<1>2. next \in [(1..x.blocks) \X V -> V]
  <2> HIDE DEF V
  <2>. QED
    BY <1>1
<1>3. \A k \in 1..x.blocks, list \in V : next[<<k, list>>] = list \o parseDirectoryBlock(x.block + k - 1)
  OBVIOUS
<1>4. \E d : IsRecursion(d, x.blocks, V, <<>>, next)
  <2> HIDE DEF next, V
  <2>. QED
    BY <1>0, <1>2, RecursionExists
<1>5. PICK d : IsRecursion(d, x.blocks, V, <<>>, next)
  BY <1>4
<1> HIDE DEF next, V
<1>6. d = [k \in 0..x.blocks |-> IF k = 0 THEN <<>> ELSE d[k - 1] \o parseDirectoryBlock(x.block + k - 1)]
  <2>1. ASSUME NEW k \in 0..x.blocks, k # 0
        PROVE  d[k] = d[k - 1] \o parseDirectoryBlock(x.block + k - 1)
    <3>1. k \in 1..x.blocks /\ k - 1 \in 0..x.blocks
      BY <1>0, <2>1
    <3>2. d[k] = next[<<k, d[k - 1]>>] /\ d[k - 1] \in V
      BY <1>5, <3>1 DEF IsRecursion
    <3>. QED
      BY <1>3, <3>1, <3>2
  <2>. QED
    BY <1>5, <2>1 DEF IsRecursion
<1>7. EntriesUpTo(x) = all
  BY DEF EntriesUpTo
<1>8. all = [k \in 0..x.blocks |-> IF k = 0 THEN <<>> ELSE all[k - 1] \o parseDirectoryBlock(x.block + k - 1)]
  BY <1>6
<1> HIDE DEF all
<1>9. all[0] = <<>> /\ \A k \in 1..x.blocks : all[k] = all[k - 1] \o parseDirectoryBlock(x.block + k - 1)
  <2>1. 0 \in 0..x.blocks /\ \A k \in 1..x.blocks : k \in 0..x.blocks /\ k # 0
    BY <1>0
  <2>. QED
    BY <1>8, <2>1, Zenon
<1>10. \A k \in 0..x.blocks : all[k] \in V
  <2> DEFINE T == {k \in 0..x.blocks : all[k] \in V}
  <2>0. ASSUME NEW k \in 1..x.blocks, all[k - 1] \in V PROVE all[k] \in V
    BY <1>1, <1>9, <2>0, Zenon
  <2>1. 0 \in T /\ \A k \in 1..x.blocks : k - 1 \in T => k \in T
    BY <1>0, <1>9, <2>0
  <2> HIDE DEF T
  <2>2. \A k \in 0..x.blocks : k \in T
    BY <1>0, <2>1, UpTo
  <2>. QED
    BY <2>2 DEF T
<1>. QED
  BY <1>7, <1>9, <1>10, Zenon DEF V

\* A list holds what the first k blocks of an extent hold, each entry once.
Collected(list, x, k) ==
  /\ list \in Seq(DirectoryEntry)
  /\ \A i \in 1..Len(list) : \E b \in Blocks(x, k) : \E j \in 1..Len(parseDirectoryBlock(b)) : list[i] = parseDirectoryBlock(b)[j]
  /\ \A b \in Blocks(x, k) : \A j \in 1..Len(parseDirectoryBlock(b)) : \E i \in 1..Len(list) : list[i] = parseDirectoryBlock(b)[j]

\* No two entries of a list, or records of an extent, have the same name.
Distinct(list) == \A i, j \in 1..Len(list) : list[i].name = list[j].name => i = j
Unique(x) == \A a, b \in Records(x) : NameOf(a) = NameOf(b) => a = b

\* The next block adds entries of that block only, at places of their own.
LEMMA AppendBlock ==
  ASSUME vol \in Volumes, NEW x, IsExtent(x), NEW k \in 1..x.blocks, NEW list, Collected(list, x, k - 1),
         Unique(x) => Distinct(list)
  PROVE  LET new == list \o parseDirectoryBlock(x.block + k - 1)
         IN  Collected(new, x, k) /\ (Unique(x) => Distinct(new))
<1> DEFINE block == x.block + k - 1
           piece == parseDirectoryBlock(block)
           new == list \o piece
<1>0. /\ k \in Nat /\ x.block \in Nat /\ x.blocks \in Nat
      /\ block \in Blocks(x, k) /\ Blocks(x, k - 1) \subseteq Blocks(x, k) /\ block \notin Blocks(x, k - 1)
      /\ \A b \in Blocks(x, k) : b = block \/ b \in Blocks(x, k - 1)
      /\ Blocks(x, k) \subseteq Blocks(x, x.blocks)
  BY DEF IsExtent, Blocks
<1>1. piece \in Seq(DirectoryEntry) /\ Len(piece) \in Nat
  BY ParsedBlock
<1>2. list \in Seq(DirectoryEntry) /\ Len(list) \in Nat
  BY DEF Collected
<1>3. /\ new \in Seq(DirectoryEntry) /\ Len(new) = Len(list) + Len(piece)
      /\ \A i \in 1..(Len(list) + Len(piece)) : new[i] = IF i <= Len(list) THEN list[i] ELSE piece[i - Len(list)]
  <2> HIDE DEF piece
  <2>. QED
    BY <1>1, <1>2, ConcatProperties
<1> HIDE DEF block, piece, new
<1>4. ASSUME NEW i \in 1..Len(new)
      PROVE  \/ i \in 1..Len(list) /\ new[i] = list[i]
             \/ i > Len(list) /\ i - Len(list) \in 1..Len(piece) /\ new[i] = piece[i - Len(list)]
  BY <1>1, <1>2, <1>3
<1>5. /\ \A i \in 1..Len(list) : i \in 1..Len(new) /\ new[i] = list[i]
      /\ \A j \in 1..Len(piece) : Len(list) + j \in 1..Len(new) /\ new[Len(list) + j] = piece[j]
  <2>1. PICK l \in Nat, h \in Nat : l = Len(list) /\ h = Len(piece)
    BY <1>1, <1>2
  <2>2. \A i \in 1..l : i \in 1..(l + h) /\ i <= l
    OBVIOUS
  <2>3. \A j \in 1..h : l + j \in 1..(l + h) /\ ~(l + j <= l) /\ (l + j) - l = j
    OBVIOUS
  <2>. QED
    BY <1>3, <2>1, <2>2, <2>3, Zenon
<1>6. piece = parseDirectoryBlock(block)
  BY DEF piece
<1>7. Collected(new, x, k)
  <2>1. ASSUME NEW i \in 1..Len(new)
        PROVE  \E b \in Blocks(x, k) : \E j \in 1..Len(parseDirectoryBlock(b)) : new[i] = parseDirectoryBlock(b)[j]
    <3>1. CASE i \in 1..Len(list) /\ new[i] = list[i]
      <4>1. PICK b \in Blocks(x, k - 1) : \E j \in 1..Len(parseDirectoryBlock(b)) : list[i] = parseDirectoryBlock(b)[j]
        BY <3>1, Zenon DEF Collected
      <4>. QED
        BY <1>0, <3>1, <4>1, Zenon
    <3>2. CASE i - Len(list) \in 1..Len(piece) /\ new[i] = piece[i - Len(list)]
      BY <1>0, <1>6, <3>2, Zenon
    <3>. QED
      BY <1>4, <3>1, <3>2
  <2>2. ASSUME NEW b \in Blocks(x, k), NEW j \in 1..Len(parseDirectoryBlock(b))
        PROVE  \E i \in 1..Len(new) : new[i] = parseDirectoryBlock(b)[j]
    <3>1. CASE b \in Blocks(x, k - 1)
      <4>1. PICK i \in 1..Len(list) : list[i] = parseDirectoryBlock(b)[j]
        BY <3>1, Zenon DEF Collected
      <4>. QED
        BY <1>5, <4>1, Zenon
    <3>2. CASE b = block
      BY <1>5, <1>6, <3>2, Zenon
    <3>. QED
      BY <1>0, <3>1, <3>2
  <2>. QED
    BY <1>3, <2>1, <2>2, Zenon DEF Collected
<1>8. ASSUME NEW i \in 1..Len(new)
      PROVE  \E r \in Records(x) : /\ NameOf(r) = new[i].name
                                   /\ IF i \in 1..Len(list) THEN r[1] # block ELSE r = <<block, i - Len(list)>>
  <2>1. ASSUME NEW b \in Blocks(x, k), NEW j \in 1..Len(parseDirectoryBlock(b)),
               new[i] = parseDirectoryBlock(b)[j]
        PROVE  <<b, j>> \in Records(x) /\ NameOf(<<b, j>>) = new[i].name
    <3>1. b \in DOMAIN vol.blocks /\ j \in 1..Len(vol.blocks[b].recs) /\ new[i] = vol.blocks[b].recs[j]
      BY <2>1, ParsedBlock
    <3>2. b \in (x.block..(x.block + x.blocks - 1)) \cap DOMAIN vol.blocks
      BY <1>0, <3>1 DEF Blocks
    <3> DEFINE at == {<<b, w>> : w \in 1..Len(vol.blocks[b].recs)}
    <3>3. <<b, j>> \in at
      BY <3>1
    <3>4. at \in {{<<c, w>> : w \in 1..Len(vol.blocks[c].recs)} : c \in (x.block..(x.block + x.blocks - 1)) \cap DOMAIN vol.blocks}
      BY <3>2
    <3> HIDE DEF at
    <3>5. <<b, j>> \in Records(x)
      BY <3>3, <3>4, Zenon DEF Records
    <3>. QED
      BY <3>1, <3>5 DEF NameOf
  <2>2. CASE i \in 1..Len(list)
    <3>1. PICK b \in Blocks(x, k - 1) : \E j \in 1..Len(parseDirectoryBlock(b)) : list[i] = parseDirectoryBlock(b)[j]
      BY <2>2 DEF Collected
    <3>2. PICK j \in 1..Len(parseDirectoryBlock(b)) : list[i] = parseDirectoryBlock(b)[j]
      BY <3>1
    <3>3. b \in Blocks(x, k) /\ b # block /\ new[i] = parseDirectoryBlock(b)[j]
      BY <1>0, <1>5, <2>2, <3>2
    <3>4. <<b, j>> \in Records(x) /\ NameOf(<<b, j>>) = new[i].name /\ <<b, j>>[1] # block
      BY <2>1, <3>3
    <3>. QED
      BY <2>2, <3>4
  <2>3. CASE i \notin 1..Len(list)
    <3>1. PICK j \in 1..Len(piece) : j = i - Len(list) /\ new[i] = piece[j]
      BY <1>4, <2>3
    <3>2. <<block, j>> \in Records(x) /\ NameOf(<<block, j>>) = new[i].name
      BY <1>0, <1>6, <2>1, <3>1
    <3>. QED
      BY <2>3, <3>1, <3>2
  <2>. QED
    BY <2>2, <2>3
<1>9. ASSUME Unique(x), NEW i \in 1..Len(new), NEW j \in 1..Len(new), new[i].name = new[j].name
      PROVE  i = j
  <2>1. PICK q \in Records(x) : /\ NameOf(q) = new[i].name
                                /\ IF i \in 1..Len(list) THEN q[1] # block ELSE q = <<block, i - Len(list)>>
    BY <1>8
  <2>2. PICK r \in Records(x) : /\ NameOf(r) = new[j].name
                                /\ IF j \in 1..Len(list) THEN r[1] # block ELSE r = <<block, j - Len(list)>>
    BY <1>8
  <2>3. q = r
    BY <1>9, <2>1, <2>2 DEF Unique
  <2>4. CASE i \in 1..Len(list) /\ j \in 1..Len(list)
    <3>1. list[i].name = list[j].name
      BY <1>5, <1>9, <2>4
    <3>. QED
      BY <1>9, <2>4, <3>1 DEF Distinct
  <2>5. CASE i \notin 1..Len(list) /\ j \notin 1..Len(list)
    <3>1. i - Len(list) = j - Len(list)
      BY <2>1, <2>2, <2>3, <2>5
    <3>. QED
      BY <1>2, <1>3, <3>1
  <2>. QED
    BY <2>1, <2>2, <2>3, <2>4, <2>5
<1>10. Unique(x) => Distinct(new)
  BY <1>9 DEF Distinct
<1>. QED
  BY <1>7, <1>10 DEF new, piece, block

\* The entries of an extent are those of its blocks, each once.
EntriesCollected ==
  \A x : IsExtent(x) => /\ Collected(ExtentEntries(x), x, x.blocks)
                        /\ Unique(x) => Distinct(ExtentEntries(x))

\* Every entry of an extent comes from a record of one of its blocks, no two from
\* one.
LEMMA EntriesAreCollected == vol \in Volumes => EntriesCollected
<1> SUFFICES ASSUME vol \in Volumes, NEW x, IsExtent(x)
             PROVE  /\ Collected(ExtentEntries(x), x, x.blocks)
                    /\ Unique(x) => Distinct(ExtentEntries(x))
  BY DEF EntriesCollected
<1> DEFINE upTo == EntriesUpTo(x)
           T == {k \in 0..x.blocks : Collected(upTo[k], x, k) /\ (Unique(x) => Distinct(upTo[k]))}
<1>1. /\ upTo[0] = <<>>
      /\ \A k \in 1..x.blocks : upTo[k] = upTo[k - 1] \o parseDirectoryBlock(x.block + k - 1)
  BY EntriesUpToIs
<1> HIDE DEF upTo
<1>2. x.blocks \in Nat /\ x.block \in Nat
  BY DEF IsExtent
<1>3. 0 \in T
  <2>1. Blocks(x, 0) = {}
    BY <1>2 DEF Blocks
  <2>2. Collected(<<>>, x, 0) /\ Distinct(<<>>)
    BY <2>1 DEF Collected, Distinct
  <2>. QED
    BY <1>1, <1>2, <2>2
<1>4. ASSUME NEW k \in 1..x.blocks, k - 1 \in T PROVE k \in T
  <2>0. Collected(upTo[k - 1], x, k - 1) /\ (Unique(x) => Distinct(upTo[k - 1]))
    BY <1>4
  <2> HIDE DEF T
  <2>1. /\ Collected(upTo[k - 1] \o parseDirectoryBlock(x.block + k - 1), x, k)
        /\ Unique(x) => Distinct(upTo[k - 1] \o parseDirectoryBlock(x.block + k - 1))
    BY <2>0, AppendBlock
  <2>2. Collected(upTo[k], x, k) /\ (Unique(x) => Distinct(upTo[k]))
    BY <1>1, <2>1, Zenon
  <2>. QED
    BY <1>2, <2>2 DEF T
<1>5. x.blocks \in T
  <2> HIDE DEF T
  <2>. QED
    BY <1>2, <1>3, <1>4, UpTo
<1>. QED
  BY <1>5 DEF ExtentEntries, upTo
LEMMA EntriesAreCollectedNext == (vol \in Volumes)' => EntriesCollected'
  BY EntriesAreCollected, PTL

BlocksSpelledOut ==
  \A b : IF b \notin DOMAIN vol.blocks \/ b \in broken \/ vol.blocks[b].node THEN parseDirectoryBlock(b) = <<>>
         ELSE \A recs : recs = vol.blocks[b].recs => parseDirectoryBlock(b) = parseDirectoryRecords(recs)
LEMMA BlocksSpelled == BlocksSpelledOut
  BY DEF BlocksSpelledOut, parseDirectoryBlock
LEMMA BlocksSpelledNext == BlocksSpelledOut'
  BY BlocksSpelled, PTL

\* A block that can still be read parses to the same entries.
LEMMA BlockStays ==
  ASSUME vol \in Volumes, StillThere, NEW b, NEW j \in 1..Len(parseDirectoryBlock(b)')
  PROVE  j \in 1..Len(parseDirectoryBlock(b)) /\ parseDirectoryBlock(b)'[j] = parseDirectoryBlock(b)[j]
<1>1. CASE b \notin DOMAIN vol'.blocks \/ b \in broken' \/ vol'.blocks[b].node
  <2>1. parseDirectoryBlock(b)' = <<>>
    BY <1>1, BlocksSpelledNext DEF BlocksSpelledOut
  <2>2. Len(parseDirectoryBlock(b)') = 0
    BY <2>1
  <2>. QED
    BY <2>2
<1>2. CASE ~(b \notin DOMAIN vol'.blocks \/ b \in broken' \/ vol'.blocks[b].node)
  <2>1. PICK recs : recs = vol.blocks[b].recs
    OBVIOUS
  <2>2. recs = vol'.blocks[b].recs
    BY <2>1 DEF StillThere
  <2>3. parseDirectoryBlock(b)' = parseDirectoryRecords(recs)
    BY <1>2, <2>2, BlocksSpelledNext, Zenon DEF BlocksSpelledOut
  <2>4. ~(b \notin DOMAIN vol.blocks \/ b \in broken \/ vol.blocks[b].node)
    BY <1>2 DEF StillThere
  <2>5. parseDirectoryBlock(b) = parseDirectoryRecords(recs)
    BY <2>1, <2>4, BlocksSpelled, Zenon DEF BlocksSpelledOut
  <2>6. parseDirectoryBlock(b)' = parseDirectoryBlock(b)
    BY <2>3, <2>5
  <2>. QED
    BY <2>6
<1>. QED
  BY <1>1, <1>2

\* The entries left after blocks failed were there before.
LEMMA EntriesStay ==
  ASSUME vol \in Volumes, StillThere, NEW x, IsExtent(x), NEW i \in 1..Len(ExtentEntries(x)')
  PROVE  \E k \in 1..Len(ExtentEntries(x)) : ExtentEntries(x)'[i] = ExtentEntries(x)[k]
<1>1. vol' \in Volumes
  BY DEF StillThere
<1>2. \A b \in Blocks(x, x.blocks) : \A j \in 1..Len(parseDirectoryBlock(b)) :
        \E k \in 1..Len(ExtentEntries(x)) : ExtentEntries(x)[k] = parseDirectoryBlock(b)[j]
  BY EntriesAreCollected DEF EntriesCollected, Collected
<1>3. \E b \in Blocks(x, x.blocks) : \E j \in 1..Len(parseDirectoryBlock(b)') :
        ExtentEntries(x)'[i] = parseDirectoryBlock(b)'[j]
  BY <1>1, EntriesAreCollectedNext DEF EntriesCollected, Collected
<1>4. PICK b \in Blocks(x, x.blocks) : \E j \in 1..Len(parseDirectoryBlock(b)') :
        ExtentEntries(x)'[i] = parseDirectoryBlock(b)'[j]
  BY <1>3
<1>5. PICK j \in 1..Len(parseDirectoryBlock(b)') : ExtentEntries(x)'[i] = parseDirectoryBlock(b)'[j]
  BY <1>4
<1>6. j \in 1..Len(parseDirectoryBlock(b)) /\ parseDirectoryBlock(b)'[j] = parseDirectoryBlock(b)[j]
  BY BlockStays
<1>. QED
  BY <1>2, <1>5, <1>6

\* The leaf a search ends in is a node of the volume.
LEMMA LeafFound ==
  ASSUME vol \in Volumes, NEW oid, NEW id, NEW keyLen, Leaf(oid, id, keyLen).ok
  PROVE  \E k \in 0..Depth :
           LET d == Descent(oid, id, keyLen)[k]
           IN  /\ d.ok /\ d.val.oid \in DOMAIN vol.nodes /\ d.val.oid \notin broken
               /\ vol.nodes[d.val.oid].leaf /\ Leaf(oid, id, keyLen).val = vol.nodes[d.val.oid]
<1> DEFINE d == Descent(oid, id, keyLen)[Depth]
<1>1. Depth \in Nat
  BY VolumeIs
<1>2. Leaf(oid, id, keyLen) = IF d.ok THEN IF d.val.node.leaf THEN Ok(d.val.node) ELSE Err("endless") ELSE d
  BY LeafIs
<1>3. At(d)
  BY <1>1, DescentIs DEF DescentFrom
<1> HIDE DEF d
<1>4. d.ok /\ d.val.node.leaf /\ Leaf(oid, id, keyLen).val = d.val.node
  BY <1>2 DEF Ok, Err
<1>5. /\ d.ok /\ d.val.oid \in DOMAIN vol.nodes /\ d.val.oid \notin broken
      /\ vol.nodes[d.val.oid].leaf /\ Leaf(oid, id, keyLen).val = vol.nodes[d.val.oid]
  BY <1>3, <1>4 DEF At
<1>. QED
  BY <1>1, <1>5 DEF d

\* The extent of a file is one that a leaf of the volume holds.
LEMMA ExtentFound ==
  ASSUME vol \in Volumes, NEW inode, getFileExtents(inode) # <<>>
  PROVE  /\ getFileExtents(inode) = <<getFileExtents(inode)[1]>>
         /\ IsExtent(getFileExtents(inode)[1])
         /\ UniqueNames => Unique(getFileExtents(inode)[1])
<1> DEFINE nd == Leaf(RootTree, inode.private, 16)
           is == extentRecords(nd.val, inode.private)
           x == FirstExtent(nd.val, is)
<1>1. nd.ok /\ x.ok /\ getFileExtents(inode) = <<x.val>>
  BY getFileExtentsIs
<1>2. PICK o \in DOMAIN vol.nodes : nd.val = vol.nodes[o] /\ vol.nodes[o].leaf
  <2> DEFINE d == Descent(RootTree, inode.private, 16)
  <2>1. nd.ok
    BY <1>1
  <2>2. PICK k \in 0..Depth :
          /\ d[k].ok /\ d[k].val.oid \in DOMAIN vol.nodes /\ d[k].val.oid \notin broken
          /\ vol.nodes[d[k].val.oid].leaf /\ nd.val = vol.nodes[d[k].val.oid]
    BY <2>1, LeafFound
  <2> HIDE DEF d, x, is, nd
  <2>. QED
    BY <2>2
<1> HIDE DEF nd
<1>3. IsNode(nd.val) /\ nd.val.leaf
  BY <1>2, VolumeIs
<1>4. Len(nd.val.recs) \in Nat /\ is \subseteq 1..Len(nd.val.recs) /\ \A i \in is : nd.val.recs[i].type = "extent"
  BY <1>3 DEF extentRecords, Readable, IsNode
<1>5. is # {} /\ x.val = nd.val.recs[Least(is)].val
  BY <1>1 DEF FirstExtent, Ok, Err
<1> HIDE DEF is
<1>6. PICK i \in is : i = Least(is)
  <2>1. is \subseteq Nat
    BY <1>4
  <2>2. \E i \in is : \A j \in is : i <= j
    BY <1>5, <2>1, NatHasMin
  <2>. QED
    BY <2>2 DEF Least
<1>7. i \in 1..Len(nd.val.recs) /\ nd.val.recs[i].type = "extent" /\ x.val = nd.val.recs[i].val
  BY <1>4, <1>5, <1>6
<1> HIDE DEF x
<1>8. IsExtent(x.val)
  BY <1>3, <1>7 DEF IsNode, IsExtent
<1>9. ASSUME UniqueNames PROVE Unique(x.val)
  <2>1. nd.val.recs[i] \in Range(vol.nodes[o].recs)
    BY <1>2, <1>3, <1>7 DEF IsNode, Range
  <2>. QED
    BY <1>2, <1>7, <1>9, <2>1 DEF UniqueNames, Unique
<1>. QED
  BY <1>1, <1>8, <1>9

\* What listing a directory gives.
LEMMA ListingIs ==
  ASSUME vol \in Volumes, NEW dir, listDirectoryContents(dir).ok
  PROVE  LET list == listDirectoryContents(dir).val
         IN  list \in Seq(DirectoryEntry) /\ (UniqueNames => Distinct(list))
<1>1. PICK nd : nd = loadInode(dir)
  OBVIOUS
<1>2. PICK xs : xs = getFileExtents(nd.val)
  OBVIOUS
<1>0. ~Err("not a directory").ok
  BY DEF Err
<1>3. nd.ok /\ nd.val.dir
  BY <1>0, <1>1, ListsSpelled, Zenon DEF ListsSpelledOut
<1>4. CASE xs = <<>>
  <2>1. listDirectoryContents(dir) = Ok(<<>>)
    BY <1>1, <1>2, <1>3, <1>4, ListsSpelled DEF ListsSpelledOut
  <2>2. listDirectoryContents(dir).val = <<>>
    BY <2>1 DEF Ok
  <2>. QED
    BY <2>2 DEF Distinct
<1>5. CASE xs # <<>>
  <2>1. PICK x : x = xs[1]
    OBVIOUS
  <2>2. listDirectoryContents(dir) = Ok(ExtentEntries(x))
    BY <1>1, <1>2, <1>3, <1>5, <2>1, ListsSpelled, Zenon DEF ListsSpelledOut
  <2>3. listDirectoryContents(dir).val = ExtentEntries(x)
    BY <2>2 DEF Ok
  <2>4. IsExtent(x) /\ (UniqueNames => Unique(x))
    BY <1>2, <1>5, <2>1, ExtentFound
  <2>5. Collected(ExtentEntries(x), x, x.blocks) /\ (Unique(x) => Distinct(ExtentEntries(x)))
    BY <2>4, EntriesAreCollected DEF EntriesCollected
  <2>. QED
    BY <2>3, <2>4, <2>5 DEF Collected
<1>. QED
  BY <1>4, <1>5

\* A directory that can still be listed could be listed before, and no entry of
\* it is new.
LEMMA ListStays ==
  ASSUME vol \in Volumes, StillThere, NEW dir, listDirectoryContents(dir)'.ok
  PROVE  /\ listDirectoryContents(dir).ok
         /\ \A i \in 1..Len(listDirectoryContents(dir)'.val) :
              \E k \in 1..Len(listDirectoryContents(dir).val) :
                listDirectoryContents(dir)'.val[i] = listDirectoryContents(dir).val[k]
<1>1. PICK nd : nd = loadInode(dir)'
  OBVIOUS
<1>2. PICK xs : xs = getFileExtents(nd.val)'
  OBVIOUS
<1>0. ~Err("not a directory").ok
  BY DEF Err
<1>3. nd.ok /\ nd.val.dir
  <2>1. \A r : r = Err("not a directory") => ~r.ok
    BY <1>0
  <2>2. /\ ~nd.ok => listDirectoryContents(dir)' = nd
        /\ nd.ok /\ ~nd.val.dir => listDirectoryContents(dir)' = Err("not a directory")
    BY <1>1, ListsSpelledNext DEF ListsSpelledOut, Err
  <2>. QED
    BY <2>1, <2>2
<1>4. nd = loadInode(dir)
  BY <1>1, <1>3, InodeStays
<1>5. PICK old : old = getFileExtents(nd.val)
  OBVIOUS
<1>6. /\ old = <<>> => listDirectoryContents(dir) = Ok(<<>>)
      /\ old # <<>> => \A x : x = old[1] => listDirectoryContents(dir) = Ok(ExtentEntries(x))
  BY <1>3, <1>4, <1>5, ListsSpelled DEF ListsSpelledOut
<1>7. listDirectoryContents(dir).ok
  BY <1>6 DEF Ok
<1>8. CASE xs = <<>>
  <2>1. listDirectoryContents(dir)' = Ok(<<>>)
    BY <1>1, <1>2, <1>3, <1>8, ListsSpelledNext DEF ListsSpelledOut, Ok
  <2>2. Len(listDirectoryContents(dir)'.val) = 0
    BY <2>1 DEF Ok
  <2>. QED
    BY <1>7, <2>2
<1>9. CASE xs # <<>>
  <2>1. xs = old
    BY <1>2, <1>5, <1>9, ExtentsStay
  <2>2. PICK x : x = xs[1]
    OBVIOUS
  <2>3. listDirectoryContents(dir)' = Ok(ExtentEntries(x)')
    BY <1>1, <1>2, <1>3, <1>9, <2>2, ListsSpelledNext, Zenon DEF ListsSpelledOut, Ok
  <2>4. listDirectoryContents(dir) = Ok(ExtentEntries(x))
    BY <1>6, <1>9, <2>1, <2>2
  <2>5. IsExtent(x)
    BY <1>5, <1>9, <2>1, <2>2, ExtentFound
  <2>6. listDirectoryContents(dir)'.val = ExtentEntries(x)' /\ listDirectoryContents(dir).val = ExtentEntries(x)
    BY <2>3, <2>4 DEF Ok
  <2>. QED
    BY <1>7, <2>5, <2>6, EntriesStay
<1>. QED
  BY <1>8, <1>9

\* Looking a name up in a listing.
LEMMA EntryNamedIs ==
  ASSUME NEW list \in Seq(DirectoryEntry), NEW name
  PROVE  \/ EntryNamed(list, name) = Err("not found") /\ \A i \in 1..Len(list) : list[i].name # name
         \/ \E i \in 1..Len(list) : list[i].name = name /\ EntryNamed(list, name) = Ok(list[i].inode)
<1> DEFINE I == {i \in 1..Len(list) : list[i].name = name}
           k == IF I # {} THEN Min(I) ELSE 0
<1>1. Len(list) \in Nat /\ I \in SUBSET (1..Len(list))
  OBVIOUS
<1>2. EntryNamed(list, name) = IF k = 0 THEN Err("not found") ELSE Ok(list[k].inode)
  BY DEF EntryNamed, SelectInSeq
<1>3. IF I = {} THEN k = 0 ELSE k \in I
  <2> HIDE DEF I
  <2>. QED
    BY <1>1, MinIn
<1>4. CASE I = {}
  BY <1>2, <1>3, <1>4
<1>5. CASE I # {}
  <2> HIDE DEF k
  <2>1. k \in 1..Len(list) /\ list[k].name = name /\ k # 0
    BY <1>1, <1>3, <1>5
  <2>. QED
    BY <1>2, <2>1
<1>. QED
  BY <1>4, <1>5

Path == Seq(Seq(STRING))

\* A path resolves one name after the other.
ResolvedFrom(path) ==
  LET r == Resolved(path)
  IN  /\ r[0] = Ok(RootTree)
      /\ \A k \in 1..Len(path) : r[k] = Step(r[k - 1], path[k])
      /\ \A k \in 0..Len(path) : r[k].ok => \E d \in Nat : r[k] = Ok(d)

\* Looking up a name in a directory, spelled out.
LEMMA LookedIs ==
  ASSUME vol \in Volumes, NEW dir, NEW name
  PROVE  LET list == listDirectoryContents(dir)
         IN  IF ~list.ok THEN Looked(dir, name) = list
             ELSE \/ Looked(dir, name) = Err("not found")
                  \/ \E i \in 1..Len(list.val) : list.val[i].name = name /\ Looked(dir, name) = Ok(list.val[i].inode)
<1> DEFINE list == listDirectoryContents(dir)
<1>1. Looked(dir, name) = IF list.ok THEN EntryNamed(list.val, name) ELSE list
  BY DEF Looked
<1>2. ASSUME list.ok PROVE list.val \in Seq(DirectoryEntry)
  BY <1>2, ListingIs
<1> HIDE DEF list
<1>3. CASE list.ok
  <2>1. \/ EntryNamed(list.val, name) = Err("not found")
        \/ \E i \in 1..Len(list.val) : list.val[i].name = name /\ EntryNamed(list.val, name) = Ok(list.val[i].inode)
    BY <1>2, <1>3, EntryNamedIs
  <2>. QED
    BY <1>1, <1>3, <2>1 DEF list
<1>4. CASE ~list.ok
  BY <1>1, <1>4 DEF list
<1>. QED
  BY <1>3, <1>4

\* Resolving a path, component by component.
LEMMA ResolvedIs ==
  ASSUME vol \in Volumes, NEW path \in Path
  PROVE  ResolvedFrom(path)
<1> DEFINE V == {Ok(d) : d \in Nat} \cup {listDirectoryContents(d) : d \in {e \in Nat : ~listDirectoryContents(e).ok}}
                  \cup {Err("not found")}
           next == [w \in (1..Len(path)) \X V |-> Step(w[2], path[w[1]])]
           upTo[k \in 0..Len(path)] == IF k = 0 THEN Ok(RootTree) ELSE Step(upTo[k - 1], path[k])
<1>0. Len(path) \in Nat /\ RootTree \in Nat
  BY TreeAssumption DEF Path
<1>1. ASSUME NEW r \in V, r.ok PROVE \E d \in Nat : r = Ok(d)
  <2>1. ~Err("not found").ok
    BY DEF Err
  <2>2. \/ r \in {Ok(d) : d \in Nat}
        \/ r \in {listDirectoryContents(d) : d \in {e \in Nat : ~listDirectoryContents(e).ok}}
        \/ r = Err("not found")
    OBVIOUS
  <2>3. CASE r \in {listDirectoryContents(d) : d \in {e \in Nat : ~listDirectoryContents(e).ok}}
    <3>1. PICK d \in Nat : ~listDirectoryContents(d).ok /\ r = listDirectoryContents(d)
      BY <2>3
    <3>. QED
      BY <1>1, <3>1
  <2>4. CASE r = Err("not found")
    BY <1>1, <2>1, <2>4
  <2> HIDE DEF V
  <2>. QED
    BY <2>2, <2>3, <2>4
<1>2. ASSUME NEW r \in V, NEW name PROVE Step(r, name) \in V
  <2>1. CASE ~r.ok
    <3>1. Step(r, name) = r
      BY <2>1, StepIs
    <3>. QED
      BY <3>1
  <2>2. CASE r.ok
    <3>1. PICK d \in Nat : r = Ok(d)
      BY <1>1, <2>2
    <3>2. r.val = d
      BY <3>1 DEF Ok
    <3>3. Step(r, name) = Looked(d, name)
      BY <2>2, <3>2, StepIs
    <3> DEFINE list == listDirectoryContents(d)
    <3>4. /\ \A e \in Nat : Ok(e) \in V
          /\ ~list.ok => list \in V
          /\ Err("not found") \in V
      OBVIOUS
    <3> HIDE DEF V
    <3>5. CASE ~list.ok
      <4>1. Looked(d, name) = list
        BY <3>5, LookedIs
      <4>. QED
        BY <3>3, <3>4, <3>5, <4>1
    <3>6. CASE list.ok
      <4>1. \/ Looked(d, name) = Err("not found")
            \/ \E i \in 1..Len(list.val) : Looked(d, name) = Ok(list.val[i].inode)
        BY <3>6, LookedIs
      <4>2. \A i \in 1..Len(list.val) : list.val[i] \in DirectoryEntry
        BY <3>6, ListingIs, ElementOfSeq
      <4>3. \A i \in 1..Len(list.val) : list.val[i].inode \in Nat
        BY <4>2 DEF DirectoryEntry
      <4> HIDE DEF list
      <4>. QED
        BY <3>3, <3>4, <4>1, <4>3
    <3>. QED
      BY <3>5, <3>6
  <2>. QED
    BY <2>1, <2>2
<1>3. next \in [(1..Len(path)) \X V -> V]
  <2> HIDE DEF V
  <2>. QED
    BY <1>2
<1>4. \A k \in 1..Len(path), r \in V : next[<<k, r>>] = Step(r, path[k])
  OBVIOUS
<1>5. Ok(RootTree) \in V
  BY <1>0
<1>6. \E d : IsRecursion(d, Len(path), V, Ok(RootTree), next)
  <2> HIDE DEF next, V
  <2>. QED
    BY <1>0, <1>3, <1>5, RecursionExists
<1>7. PICK d : IsRecursion(d, Len(path), V, Ok(RootTree), next)
  BY <1>6
<1> HIDE DEF next, V
<1>8. d = [k \in 0..Len(path) |-> IF k = 0 THEN Ok(RootTree) ELSE Step(d[k - 1], path[k])]
  <2>1. ASSUME NEW k \in 0..Len(path), k # 0
        PROVE  d[k] = Step(d[k - 1], path[k])
    <3>1. k \in 1..Len(path) /\ k - 1 \in 0..Len(path)
      BY <1>0, <2>1
    <3>2. d[k] = next[<<k, d[k - 1]>>] /\ d[k - 1] \in V
      BY <1>7, <3>1 DEF IsRecursion
    <3>. QED
      BY <1>4, <3>1, <3>2
  <2>. QED
    BY <1>7, <2>1 DEF IsRecursion
<1>9. Resolved(path) = upTo
  BY DEF Resolved
<1>10. upTo = [k \in 0..Len(path) |-> IF k = 0 THEN Ok(RootTree) ELSE Step(upTo[k - 1], path[k])]
  BY <1>8
<1> HIDE DEF upTo
<1>11. upTo[0] = Ok(RootTree) /\ \A k \in 1..Len(path) : upTo[k] = Step(upTo[k - 1], path[k])
  <2>1. 0 \in 0..Len(path) /\ \A k \in 1..Len(path) : k \in 0..Len(path) /\ k # 0
    BY <1>0
  <2>. QED
    BY <1>10, <2>1, Zenon
<1>12. \A k \in 0..Len(path) : upTo[k] \in V
  <2> DEFINE T == {k \in 0..Len(path) : upTo[k] \in V}
  <2>0. ASSUME NEW k \in 1..Len(path), upTo[k - 1] \in V PROVE upTo[k] \in V
    BY <1>2, <1>11, <2>0, Zenon
  <2>1. 0 \in T /\ \A k \in 1..Len(path) : k - 1 \in T => k \in T
    BY <1>0, <1>5, <1>11, <2>0
  <2> HIDE DEF T
  <2>2. \A k \in 0..Len(path) : k \in T
    BY <1>0, <2>1, UpTo
  <2>. QED
    BY <2>2 DEF T
<1>. QED
  BY <1>1, <1>9, <1>11, <1>12, Zenon DEF ResolvedFrom

\* One name more is one step more.
LEMMA OneMore ==
  ASSUME vol \in Volumes, NEW path \in Path, NEW name \in Seq(STRING)
  PROVE  getInodeByPath(Append(path, name)) = Step(getInodeByPath(path), name)
<1> DEFINE long == Append(path, name)
           m == Len(path)
           T == {k \in 0..m : Resolved(long)[k] = Resolved(path)[k]}
<1>1. m \in Nat /\ long \in Path /\ Len(long) = m + 1 /\ long[m + 1] = name /\ \A k \in 1..m : long[k] = path[k]
  BY DEF Path
<1> HIDE DEF long
<1>2. /\ Resolved(path)[0] = Ok(RootTree)
      /\ \A k \in 1..m : Resolved(path)[k] = Step(Resolved(path)[k - 1], path[k])
  BY ResolvedIs DEF ResolvedFrom
<1>3. /\ Resolved(long)[0] = Ok(RootTree)
      /\ \A k \in 1..(m + 1) : Resolved(long)[k] = Step(Resolved(long)[k - 1], long[k])
  BY <1>1, ResolvedIs DEF ResolvedFrom
<1>4. getInodeByPath(long) = Resolved(long)[m + 1] /\ getInodeByPath(path) = Resolved(path)[m]
  BY <1>1 DEF getInodeByPath
<1> HIDE DEF m
<1>5. 0 \in T
  BY <1>1, <1>2, <1>3
<1>6. ASSUME NEW k \in 1..m, k - 1 \in T PROVE k \in T
  <2>1. k \in 1..(m + 1) /\ k \in 0..m
    BY <1>1
  <2>. QED
    BY <1>1, <1>2, <1>3, <1>6, <2>1
<1>7. m \in T
  <2>1. m \in Nat /\ \A k \in 1..m : k - 1 \in T => k \in T
    BY <1>1, <1>6
  <2> HIDE DEF T
  <2>2. \A k \in 0..m : k \in T
    BY <1>5, <2>1, UpTo
  <2>. QED
    BY <2>1, <2>2
<1>8. Resolved(long)[m + 1] = Step(Resolved(long)[m], name)
  <2>1. m + 1 \in 1..(m + 1) /\ (m + 1) - 1 = m
    BY <1>1
  <2>. QED
    BY <1>1, <1>3, <2>1
<1>. QED
  BY <1>4, <1>7, <1>8 DEF long

LookupsSpelledOut ==
  \A dir, wanted : \A list, r : list = listDirectoryContents(dir) /\ r = Looked(dir, wanted) /\ r.ok =>
    list.ok /\ \E i \in 1..Len(list.val) : list.val[i].name = wanted /\ r = [ok |-> TRUE, val |-> list.val[i].inode]
StepsSpelledOut == \A cur, wanted : Step(cur, wanted) = IF cur.ok THEN Looked(cur.val, wanted) ELSE cur
PathsSpelledOut ==
  \A path \in Path :
    /\ Resolved(path)[0] = Ok(RootTree)
    /\ \A k \in 1..Len(path) : \A r : r = Resolved(path)[k - 1] => Resolved(path)[k] = Step(r, path[k])
    /\ getInodeByPath(path) = Resolved(path)[Len(path)]
LEMMA LookupsSpelled == vol \in Volumes => LookupsSpelledOut
<1> SUFFICES ASSUME vol \in Volumes, NEW dir, NEW wanted, NEW list, NEW r,
                    list = listDirectoryContents(dir), r = Looked(dir, wanted), r.ok
             PROVE  list.ok /\ \E i \in 1..Len(list.val) :
                                 list.val[i].name = wanted /\ r = [ok |-> TRUE, val |-> list.val[i].inode]
  BY DEF LookupsSpelledOut
<1>1. list.ok
  BY DEF Looked
<1>2. PICK entries \in Seq(DirectoryEntry) : entries = list.val
  BY <1>1, ListingIs
<1>3. r = EntryNamed(entries, wanted)
  BY <1>1, <1>2 DEF Looked
<1>4. r # Err("not found")
  <2>1. ~Err("not found").ok
    BY DEF Err
  <2>. QED
    BY <2>1
<1>5. PICK i \in 1..Len(entries) : entries[i].name = wanted /\ r = Ok(entries[i].inode)
  <2>1. \/ EntryNamed(entries, wanted) = Err("not found") /\ \A w \in 1..Len(entries) : entries[w].name # wanted
        \/ \E w \in 1..Len(entries) : entries[w].name = wanted /\ EntryNamed(entries, wanted) = Ok(entries[w].inode)
    <3>1. entries \in Seq(DirectoryEntry)
      BY <1>2
    <3>. QED
      BY <3>1, EntryNamedIs
  <2>. QED
    BY <1>3, <1>4, <2>1
<1>. QED
  BY <1>1, <1>2, <1>5 DEF Ok
LEMMA StepsSpelled == StepsSpelledOut
  BY StepIs DEF StepsSpelledOut
LEMMA PathsSpelled == vol \in Volumes => PathsSpelledOut
  BY ResolvedIs DEF PathsSpelledOut, ResolvedFrom, getInodeByPath
LEMMA LookupsSpelledNext == (vol \in Volumes)' => LookupsSpelledOut'
  BY LookupsSpelled, PTL
LEMMA StepsSpelledNext == StepsSpelledOut'
  BY StepsSpelled, PTL
LEMMA PathsSpelledNext == (vol \in Volumes)' => PathsSpelledOut'
  BY PathsSpelled, PTL

\* A name that is still found is the same entry's.
LEMMA LookedStays ==
  ASSUME vol \in Volumes, StillThere, UniqueNames, NEW dir, NEW wanted, Looked(dir, wanted)'.ok
  PROVE  Looked(dir, wanted)' = Looked(dir, wanted)
<1>1. PICK new : new = listDirectoryContents(dir)'
  OBVIOUS
<1>2. PICK old : old = listDirectoryContents(dir)
  OBVIOUS
<1>3. PICK r : r = Looked(dir, wanted)'
  OBVIOUS
<1>4. vol' \in Volumes
  BY DEF StillThere
<1>5. new.ok /\ \E i \in 1..Len(new.val) : new.val[i].name = wanted /\ r = [ok |-> TRUE, val |-> new.val[i].inode]
  BY <1>1, <1>3, <1>4, LookupsSpelledNext DEF LookupsSpelledOut
<1>6. PICK i \in 1..Len(new.val) : new.val[i].name = wanted /\ r = [ok |-> TRUE, val |-> new.val[i].inode]
  BY <1>5
<1>7. old.ok /\ \E k \in 1..Len(old.val) : new.val[i] = old.val[k]
  BY <1>1, <1>2, <1>5, ListStays
<1>8. PICK k \in 1..Len(old.val) : new.val[i] = old.val[k]
  BY <1>7
<1>9. PICK list \in Seq(DirectoryEntry) : list = old.val /\ Distinct(list)
  BY <1>2, <1>7, ListingIs
<1>10. Looked(dir, wanted) = EntryNamed(list, wanted)
  BY <1>2, <1>7, <1>9 DEF Looked
<1>11. ~\A j \in 1..Len(list) : list[j].name # wanted
  BY <1>6, <1>8, <1>9
<1>12. PICK j \in 1..Len(list) : list[j].name = wanted /\ Looked(dir, wanted) = Ok(list[j].inode)
  <2>1. \/ EntryNamed(list, wanted) = Err("not found") /\ \A w \in 1..Len(list) : list[w].name # wanted
        \/ \E w \in 1..Len(list) : list[w].name = wanted /\ EntryNamed(list, wanted) = Ok(list[w].inode)
    <3>1. list \in Seq(DirectoryEntry)
      BY <1>9
    <3>. QED
      BY <3>1, EntryNamedIs
  <2>. QED
    BY <1>10, <1>11, <2>1
<1>13. j = k
  BY <1>6, <1>8, <1>9, <1>12 DEF Distinct
<1>. QED
  BY <1>3, <1>6, <1>8, <1>9, <1>12, <1>13 DEF Ok

\* So is a path's inode, if it can still be resolved.
LEMMA ResolvedStays ==
  ASSUME vol \in Volumes, StillThere, UniqueNames, NEW path \in Path, getInodeByPath(path)'.ok
  PROVE  getInodeByPath(path)' = getInodeByPath(path)
<1> DEFINE new == Resolved(path)'
           old == Resolved(path)
           T == {k \in 0..Len(path) : new[k].ok => new[k] = old[k]}
<1>0. Len(path) \in Nat /\ vol' \in Volumes
  BY DEF Path, StillThere
<1>1. /\ new[0] = Ok(RootTree)
      /\ \A k \in 1..Len(path) : \A r : r = new[k - 1] => new[k] = Step(r, path[k])'
      /\ getInodeByPath(path)' = new[Len(path)]
  BY <1>0, PathsSpelledNext DEF PathsSpelledOut, Ok
<1>2. /\ old[0] = Ok(RootTree)
      /\ \A k \in 1..Len(path) : \A r : r = old[k - 1] => old[k] = Step(r, path[k])
      /\ getInodeByPath(path) = old[Len(path)]
  BY PathsSpelled DEF PathsSpelledOut
<1> HIDE DEF new, old
<1>3. 0 \in T
  BY <1>0, <1>1, <1>2
<1>4. ASSUME NEW k \in 1..Len(path), k - 1 \in T PROVE k \in T
  <2> SUFFICES ASSUME new[k].ok PROVE new[k] = old[k]
    BY <1>0
  <2>1. PICK r : r = new[k - 1]
    OBVIOUS
  <2>2. new[k] = Step(r, path[k])'
    BY <1>1, <2>1
  <2>3. Step(r, path[k])' = IF r.ok THEN Looked(r.val, path[k])' ELSE r
    BY StepsSpelledNext DEF StepsSpelledOut
  <2>4. r.ok /\ Looked(r.val, path[k])'.ok
    BY <2>2, <2>3
  <2>5. r = old[k - 1]
    BY <1>4, <2>1, <2>4
  <2>6. old[k] = Looked(r.val, path[k])
    BY <1>2, <2>4, <2>5, StepIs
  <2>7. Looked(r.val, path[k])' = Looked(r.val, path[k])
    BY <2>4, LookedStays
  <2>. QED
    BY <2>2, <2>3, <2>4, <2>6, <2>7
<1>5. Len(path) \in T
  <2>1. \A k \in 1..Len(path) : k - 1 \in T => k \in T
    BY <1>4
  <2> HIDE DEF T
  <2>2. \A k \in 0..Len(path) : k \in T
    BY <1>0, <1>3, <2>1, UpTo
  <2>. QED
    BY <1>0, <2>2
<1>. QED
  BY <1>1, <1>2, <1>5

-----------------------------------------------------------------------------
(* A walk ends up in the directories whose entries it visited.             *)
FrameType == [path : Path, dir : Nat, entries : Seq(DirectoryEntry), next : Nat \ {0}]
CallType == [op : {"none", "walk", "find"}, pattern : Seq(STRING), max : Nat, sub : Path]
Began(f) == f.entries[f.next - 1]
Within(f) == f.next - 1 \in 1..Len(f.entries)

WalkType ==
  /\ vol \in Volumes
  /\ stack \in Seq(FrameType) /\ Len(stack) \in Nat
  /\ \A k \in 1..Len(stack) : stack[k].next <= Len(stack[k].entries) + 1
  /\ call \in CallType

\* Every frame is the directory of the entry last visited in the one below it.
Nested ==
  /\ \A k \in 1..Len(stack) - 1 :
       Within(stack[k]) /\ stack[k + 1].path = Append(stack[k].path, Began(stack[k]).name)
  /\ call.sub # <<>> =>
       /\ stack # <<>> /\ Within(stack[Len(stack)])
       /\ call.sub = Append(stack[Len(stack)].path, Began(stack[Len(stack)]).name)

\* The path of a frame leads to its directory, and the names in it belong to the
\* entries the frame has.
Accurate(f) ==
  /\ getInodeByPath(f.path).ok => getInodeByPath(f.path) = [ok |-> TRUE, val |-> f.dir]
  /\ listDirectoryContents(f.dir).ok =>
       \A i \in 1..Len(listDirectoryContents(f.dir).val) : \A j \in 1..Len(f.entries) :
         listDirectoryContents(f.dir).val[i].name = f.entries[j].name =>
           listDirectoryContents(f.dir).val[i] = f.entries[j]
Frames == {stack[k] : k \in 1..Len(stack)}
AllAccurate == UniqueNames => \A f \in Frames : Accurate(f)

WalkInv == WalkType /\ Nested /\ AllAccurate /\ DescendsIntoEntries

\* A frame that agrees with its directory keeps agreeing while blocks fail.
LEMMA AccurateStays ==
  ASSUME vol \in Volumes, StillThere, UniqueNames, NEW f, f.path \in Path, Accurate(f)
  PROVE  Accurate(f)'
<1>1. ASSUME getInodeByPath(f.path)'.ok PROVE getInodeByPath(f.path)' = [ok |-> TRUE, val |-> f.dir]
  <2>1. getInodeByPath(f.path)' = getInodeByPath(f.path)
    BY <1>1, ResolvedStays
  <2>. QED
    BY <1>1, <2>1 DEF Accurate
<1>2. ASSUME listDirectoryContents(f.dir)'.ok,
             NEW i \in 1..Len(listDirectoryContents(f.dir)'.val), NEW j \in 1..Len(f.entries),
             listDirectoryContents(f.dir)'.val[i].name = f.entries[j].name
      PROVE  listDirectoryContents(f.dir)'.val[i] = f.entries[j]
  <2>1. PICK d : d = f.dir
    OBVIOUS
  <2>2. listDirectoryContents(d).ok /\ \E k \in 1..Len(listDirectoryContents(d).val) :
          listDirectoryContents(d)'.val[i] = listDirectoryContents(d).val[k]
    BY <1>2, <2>1, ListStays
  <2>. QED
    BY <1>2, <2>1, <2>2 DEF Accurate
<1>. QED
  BY <1>1, <1>2 DEF Accurate

\* The volume itself does not change.
LEMMA UniqueStays == ASSUME StillThere, UniqueNames' PROVE UniqueNames
<1>1. vol' = vol
  BY DEF StillThere
<1>2. \A x : Records(x)' = Records(x)
  BY <1>1 DEF Records
<1>3. \A a : NameOf(a)' = NameOf(a)
  BY <1>1 DEF NameOf
<1>. QED
  BY <1>1, <1>2, <1>3 DEF UniqueNames

\* The frame a directory is entered with.
LEMMA NewFrame ==
  ASSUME vol \in Volumes, NEW path \in Path, NEW f, ListDirectory(path).ok, f = Frame(path, ListDirectory(path).val)
  PROVE  /\ f \in FrameType /\ f.path = path /\ f.next = 1
         /\ getInodeByPath(path) = Ok(f.dir) /\ listDirectoryContents(f.dir).ok
         /\ UniqueNames => Accurate(f)
<1> DEFINE r == getInodeByPath(path)
           list == listDirectoryContents(r.val)
<1>1. ListDirectory(path) = IF ~r.ok THEN r ELSE IF ~list.ok THEN list ELSE Ok([dir |-> r.val, entries |-> list.val])
  BY ListDirectoryIs
<1>2. r.ok => \E d \in Nat : r = Ok(d)
  <2>1. Len(path) \in Nat
    BY DEF Path
  <2>. QED
    BY <2>1, ResolvedIs DEF ResolvedFrom, getInodeByPath
<1>3. list.ok => list.val \in Seq(DirectoryEntry) /\ (UniqueNames => Distinct(list.val))
  BY ListingIs
<1>4. f.path = path /\ f.dir = ListDirectory(path).val.dir /\ f.entries = ListDirectory(path).val.entries /\ f.next = 1
      /\ f = [path |-> f.path, dir |-> f.dir, entries |-> f.entries, next |-> f.next]
  BY DEF Frame
<1> HIDE DEF r, list
<1>5. r.ok /\ list.ok
  BY <1>1
<1>6. f.dir = r.val /\ f.entries = list.val
  BY <1>1, <1>4, <1>5 DEF Ok
<1>7. r = Ok(f.dir) /\ f.dir \in Nat
  BY <1>2, <1>5, <1>6 DEF Ok
<1>8. f \in FrameType
  BY <1>3, <1>4, <1>5, <1>6, <1>7 DEF FrameType
<1>9. list = listDirectoryContents(f.dir) /\ r = getInodeByPath(path)
  BY <1>6 DEF list, r
<1>10. ASSUME UniqueNames PROVE Accurate(f)
  <2>1. r = [ok |-> TRUE, val |-> f.dir]
    BY <1>7 DEF Ok
  <2>2. \A i, j \in 1..Len(list.val) : list.val[i].name = list.val[j].name => i = j
    BY <1>3, <1>5, <1>10 DEF Distinct
  <2>. QED
    BY <1>4, <1>6, <1>9, <2>1, <2>2 DEF Accurate
<1>. QED
  BY <1>4, <1>5, <1>7, <1>8, <1>9, <1>10

\* The frame of a directory that was an entry of another's is that entry's.
LEMMA FrameOfEntry ==
  ASSUME vol \in Volumes, UniqueNames, NEW g \in FrameType, Accurate(g), Within(g), NEW d,
         getInodeByPath(Append(g.path, Began(g).name)) = Ok(d)
  PROVE  d = Began(g).inode
<1>1. PICK e : e = Began(g)
  OBVIOUS
<1>2. PICK path \in Path : path = g.path
  BY DEF FrameType
<1>3. PICK j \in 1..Len(g.entries) : e = g.entries[j] /\ j = g.next - 1
  BY <1>1 DEF Began, Within
<1>4. e.name \in Seq(STRING)
  <2>1. g.entries \in Seq(DirectoryEntry)
    BY DEF FrameType
  <2>2. e \in DirectoryEntry
    BY <1>3, <2>1, ElementOfSeq
  <2>. QED
    BY <2>2 DEF DirectoryEntry
<1>5. PICK w : w = e.name /\ w \in Seq(STRING)
  BY <1>4
<1>6. PICK r : r = getInodeByPath(path)
  OBVIOUS
<1>7. Ok(d) = Step(r, w)
  BY <1>1, <1>2, <1>5, <1>6, OneMore
<1>8. PICK o, at : o = Ok(d) /\ at = g.dir
  OBVIOUS
<1>9. o.ok /\ o.val = d
  BY <1>8 DEF Ok
<1>10. r.ok /\ o = Looked(r.val, w)
  BY <1>7, <1>8, <1>9, StepIs
<1>11. r.val = at
  BY <1>2, <1>6, <1>8, <1>10 DEF Accurate
<1>12. PICK list : list = listDirectoryContents(at)
  OBVIOUS
<1>13. list.ok /\ \E i \in 1..Len(list.val) : list.val[i].name = w /\ o = [ok |-> TRUE, val |-> list.val[i].inode]
  <2>1. o = Looked(at, w)
    BY <1>10, <1>11
  <2>. QED
    BY <1>9, <1>12, <2>1, LookupsSpelled DEF LookupsSpelledOut
<1>14. PICK i \in 1..Len(list.val) : list.val[i].name = w /\ o = [ok |-> TRUE, val |-> list.val[i].inode]
  BY <1>13
<1>15. list.val[i] = g.entries[j]
  BY <1>3, <1>5, <1>8, <1>12, <1>13, <1>14 DEF Accurate
<1>. QED
  BY <1>1, <1>3, <1>9, <1>14, <1>15

\* The frames after a step are frames from before, but for how far they are, or
\* accurate ones that are new.
LEMMA StillAccurate ==
  ASSUME vol \in Volumes, StillThere, stack' \in Seq(FrameType), AllAccurate,
         \A f \in Frames' : \E g : /\ g.path = f.path /\ g.dir = f.dir /\ g.entries = f.entries
                                   /\ g \in Frames \/ (UniqueNames => Accurate(g))
  PROVE  AllAccurate'
<1> SUFFICES ASSUME UniqueNames', NEW f, f \in Frames' PROVE Accurate(f)'
  BY DEF AllAccurate
<1>1. UniqueNames
  BY UniqueStays
<1>2. PICK g : /\ g.path = f.path /\ g.dir = f.dir /\ g.entries = f.entries
               /\ g \in Frames \/ (UniqueNames => Accurate(g))
  OBVIOUS
<1>3. Accurate(g)
  BY <1>1, <1>2 DEF AllAccurate
<1>4. Accurate(f)
  BY <1>2, <1>3 DEF Accurate
<1>5. f.path \in Path
  <2>1. \A k \in 1..Len(stack') : stack'[k] \in FrameType
    BY ElementOfSeq
  <2>2. f \in FrameType
    BY <2>1 DEF Frames
  <2>. QED
    BY <2>2 DEF FrameType
<1>. QED
  BY <1>1, <1>4, <1>5, AccurateStays

\* No walk goes on at first.
LEMMA WalkStarts == Init => WalkInv
<1> SUFFICES ASSUME Init PROVE WalkInv
  OBVIOUS
<1>1. vol \in Volumes /\ stack = <<>> /\ call.sub = <<>> /\ call \in CallType /\ Len(stack) = 0
  BY DEF Init, NoCall, CallType, Path
<1>2. WalkType /\ Nested /\ DescendsIntoEntries
  BY <1>1 DEF WalkType, Nested, DescendsIntoEntries, Path
<1>3. Frames = {}
  BY <1>1 DEF Frames
<1>. QED
  BY <1>2, <1>3 DEF WalkInv, AllAccurate

\* The stack is empty.
LEMMA EmptyStack ==
  ASSUME vol' \in Volumes, stack' = <<>>, call' \in CallType, call'.sub = <<>>
  PROVE  WalkInv'
<1>1. Len(stack') = 0
  OBVIOUS
<1>2. WalkType' /\ Nested' /\ DescendsIntoEntries'
  BY <1>1 DEF WalkType, Nested, DescendsIntoEntries, Path
<1>3. Frames' = {}
  BY <1>1 DEF Frames
<1>. QED
  BY <1>2, <1>3 DEF WalkInv, AllAccurate

\* The walk stays where it is.
LEMMA SameStack ==
  ASSUME WalkInv, StillThere, stack' = stack, call' = call
  PROVE  WalkInv'
<1>1. WalkType' /\ Nested'
  BY DEF WalkInv, StillThere, WalkType, Nested, Within, Began
<1>2. DescendsIntoEntries'
  BY UniqueStays DEF WalkInv, DescendsIntoEntries
<1>3. AllAccurate'
  <2>1. Frames' = Frames
    BY DEF Frames
  <2>2. \A f \in Frames' : \E g : /\ g.path = f.path /\ g.dir = f.dir /\ g.entries = f.entries
                                  /\ g \in Frames \/ (UniqueNames => Accurate(g))
    BY <2>1
  <2>. QED
    BY <2>2, StillAccurate DEF WalkInv, WalkType
<1>. QED
  BY <1>1, <1>2, <1>3 DEF WalkInv

\* A directory is entered, or the walk fails.
LEMMA Enters ==
  ASSUME WalkInv, UNCHANGED <<vol, broken>>, NEW path \in Path, Enter(path),
         \/ stack = <<>> /\ path = <<>>
         \/ stack # <<>> /\ Within(stack[Len(stack)]) /\ path = Append(stack[Len(stack)].path, Began(stack[Len(stack)]).name)
  PROVE  WalkInv'
<1> DEFINE m == Len(stack)
<1>0. StillThere /\ vol \in Volumes /\ m \in Nat
  BY DEF StillThere, WalkInv, WalkType
<1>1. PICK list : list = ListDirectory(path) /\ Entered(path, list)
  BY DEF Enter
<1>2. CASE ~list.ok
  <2>1. stack' = <<>> /\ call' = NoCall
    BY <1>1, <1>2 DEF Entered, Return
  <2>2. NoCall \in CallType /\ NoCall.sub = <<>>
    BY DEF NoCall, CallType, Path
  <2>. QED
    BY <1>0, <2>1, <2>2, EmptyStack
<1>3. CASE list.ok
  <2>1. PICK f : f = Frame(path, list.val)
    OBVIOUS
  <2>2. stack' = Append(stack, f) /\ call' = [call EXCEPT !.sub = <<>>]
    BY <1>1, <1>3, <2>1 DEF Entered
  <2>3. /\ f \in FrameType /\ f.path = path /\ f.next = 1
        /\ getInodeByPath(path) = Ok(f.dir)
        /\ UniqueNames => Accurate(f)
    BY <1>0, <1>1, <1>3, <2>1, NewFrame
  <2>4. stack \in Seq(FrameType) /\ call \in CallType
    BY DEF WalkInv, WalkType
  <2>5. call' \in CallType /\ call'.sub = <<>>
    <3>1. <<>> \in Path
      BY DEF Path
    <3>2. \A c \in CallType : [c EXCEPT !.sub = <<>>] \in CallType /\ [c EXCEPT !.sub = <<>>].sub = <<>>
      BY <3>1 DEF CallType
    <3>. QED
      BY <2>2, <2>4, <3>2
  <2>6. /\ stack' \in Seq(FrameType) /\ Len(stack') = m + 1 /\ stack'[m + 1] = f
        /\ \A k \in 1..m : stack'[k] = stack[k]
    BY <2>2, <2>3, <2>4, AppendProperties
  <2> HIDE DEF m
  <2>7. f.entries \in Seq(DirectoryEntry) /\ Len(f.entries) \in Nat
    BY <2>3 DEF FrameType
  <2>8. WalkType'
    <3>1. ASSUME NEW k \in 1..Len(stack') PROVE stack'[k].next <= Len(stack'[k].entries) + 1
      <4>1. CASE k \in 1..m
        BY <2>6, <4>1 DEF WalkInv, WalkType, m
      <4>2. CASE k = m + 1
        BY <2>3, <2>6, <2>7, <4>2
      <4>. QED
        BY <1>0, <2>6, <4>1, <4>2
    <3>. QED
      BY <1>0, <2>5, <2>6, <3>1 DEF WalkType
  <2>9. Nested'
    <3>1. ASSUME NEW k \in 1..m
          PROVE  Within(stack[k]) /\ stack'[k + 1].path = Append(stack[k].path, Began(stack[k]).name)
      BY <1>0, <2>3, <2>6 DEF WalkInv, Nested, m
    <3>2. ASSUME NEW k \in 1..Len(stack') - 1
          PROVE  Within(stack'[k]) /\ stack'[k + 1].path = Append(stack'[k].path, Began(stack'[k]).name)
      <4>1. k \in 1..m /\ stack'[k] = stack[k]
        BY <1>0, <2>6
      <4>. QED
        BY <3>1, <4>1
    <3>. QED
      BY <2>5, <3>2 DEF Nested, Within, Began
  <2>10. DescendsIntoEntries'
    <3>1. ASSUME UniqueNames, NEW k \in 1..m
          PROVE  stack'[k + 1].dir = stack[k].entries[stack[k].next - 1].inode
      <4>1. CASE k < m
        BY <1>0, <2>6, <3>1, <4>1 DEF WalkInv, DescendsIntoEntries, m
      <4>2. CASE k = m
        <5>1. PICK g \in FrameType : g = stack[m]
          BY <1>0, <2>4, ElementOfSeq DEF m
        <5>2. Accurate(g)
          BY <3>1, <4>2, <5>1 DEF WalkInv, AllAccurate, Frames, m
        <5>3. Within(g) /\ path = Append(g.path, Began(g).name)
          BY <3>1, <4>2, <5>1 DEF m
        <5>4. f.dir = Began(g).inode
          BY <1>0, <2>3, <3>1, <5>2, <5>3, FrameOfEntry
        <5>. QED
          BY <1>0, <2>6, <4>2, <5>1, <5>4 DEF Began
      <4>. QED
        BY <1>0, <4>1, <4>2
    <3>2. UniqueNames' => UniqueNames
      BY <1>0, UniqueStays
    <3>. QED
      BY <1>0, <2>6, <3>1, <3>2 DEF DescendsIntoEntries
  <2>11. AllAccurate'
    <3>1. \A w \in Frames' : w \in Frames \/ w = f
      BY <1>0, <2>6 DEF Frames, m
    <3>2. \A w \in Frames' : \E g : /\ g.path = w.path /\ g.dir = w.dir /\ g.entries = w.entries
                                    /\ g \in Frames \/ (UniqueNames => Accurate(g))
      BY <2>3, <3>1
    <3>. QED
      BY <1>0, <2>6, <3>2, StillAccurate DEF WalkInv
  <2>. QED
    BY <2>8, <2>9, <2>10, <2>11 DEF WalkInv
<1>. QED
  BY <1>2, <1>3

\* Visiting an entry moves on in the innermost frame and asks for that entry's
\* directory.
LEMMA Visits ==
  ASSUME WalkInv, Visit
  PROVE  WalkInv'
<1> DEFINE m == Len(stack)
<1>0. /\ StillThere /\ vol \in Volumes /\ m \in Nat /\ stack \in Seq(FrameType) /\ call \in CallType
      /\ stack # <<>> /\ call.sub = <<>>
  BY DEF StillThere, WalkInv, WalkType, Visit, InLoop
<1>1. PICK g : g = stack[m]
  OBVIOUS
<1>2. m \in 1..m /\ g \in FrameType
  BY <1>0, <1>1, ElementOfSeq, EmptySeq
<1>3. PICK e : e = g.entries[g.next]
  OBVIOUS
<1>4. /\ g.next \in 1..Len(g.entries) /\ Len(g.entries) \in Nat /\ e \in DirectoryEntry
      /\ stack' = [stack EXCEPT ![m].next = @ + 1]
      /\ call' = [call EXCEPT !.sub = IF e.dir THEN Append(g.path, e.name) ELSE <<>>]
  <2>1. Top = g
    BY <1>1 DEF Top, Last
  <2>2. Entry = e
    BY <1>3, <2>1 DEF Entry
  <2>3. g.next <= Len(g.entries) /\ g.next \in Nat \ {0} /\ g.entries \in Seq(DirectoryEntry)
    BY <1>2, <2>1 DEF Visit, FrameType
  <2>4. g.next \in 1..Len(g.entries) /\ Len(g.entries) \in Nat
    BY <2>3
  <2>5. e \in DirectoryEntry
    BY <1>3, <2>3, <2>4, ElementOfSeq
  <2>. QED
    BY <2>1, <2>2, <2>4, <2>5 DEF Visit
<1>5. PICK f : f = [g EXCEPT !.next = g.next + 1]
  OBVIOUS
<1>6. /\ f \in FrameType /\ f.path = g.path /\ f.dir = g.dir /\ f.entries = g.entries /\ f.next = g.next + 1
      /\ Began(f) = e /\ Within(f)
  <2>1. /\ f \in FrameType /\ f.path = g.path /\ f.dir = g.dir /\ f.entries = g.entries /\ f.next = g.next + 1
    BY <1>2, <1>5 DEF FrameType
  <2>2. f.next - 1 = g.next
    BY <1>4, <2>1
  <2>. QED
    BY <1>3, <1>4, <2>1, <2>2 DEF Began, Within
<1>7. /\ stack' \in Seq(FrameType) /\ Len(stack') = m /\ stack'[m] = f
      /\ \A k \in 1..m : k # m => stack'[k] = stack[k]
  <2>1. stack' = [stack EXCEPT ![m] = f]
    BY <1>1, <1>4, <1>5
  <2>2. Len(stack') = m /\ stack'[m] = f /\ \A k \in 1..m : k # m => stack'[k] = stack[k]
    BY <1>0, <1>2, <2>1, ExceptSeq
  <2>. QED
    BY <1>0, <1>2, <1>6, <2>1, <2>2, ExceptSeq
<1>8. call' \in CallType /\ (call'.sub # <<>> => call'.sub = Append(g.path, e.name))
  <2>1. Append(g.path, e.name) \in Path /\ <<>> \in Path
    BY <1>2, <1>4 DEF FrameType, DirectoryEntry, Path
  <2>2. \A c \in CallType : \A p \in Path : [c EXCEPT !.sub = p] \in CallType /\ [c EXCEPT !.sub = p].sub = p
    BY DEF CallType
  <2>. QED
    BY <1>0, <1>4, <2>1, <2>2
<1> HIDE DEF m
<1>9. WalkType'
  <2>1. ASSUME NEW k \in 1..m PROVE stack'[k].next <= Len(stack'[k].entries) + 1
    <3>1. CASE k # m
      BY <1>7, <3>1 DEF WalkInv, WalkType, m
    <3>2. CASE k = m
      <4>1. f.next <= Len(f.entries) + 1
        BY <1>4, <1>6
      <4>. QED
        BY <1>7, <3>2, <4>1
    <3>. QED
      BY <3>1, <3>2
  <2>2. vol' \in Volumes
    BY <1>0 DEF StillThere
  <2>. QED
    BY <1>0, <1>7, <1>8, <2>1, <2>2 DEF WalkType
<1>10. Nested'
  <2>1. ASSUME NEW k \in 1..(m - 1)
        PROVE  Within(stack'[k]) /\ stack'[k + 1].path = Append(stack'[k].path, Began(stack'[k]).name)
    <3>1. k \in 1..m /\ k # m /\ k + 1 \in 1..m
      BY <1>0
    <3>2. stack'[k] = stack[k] /\ stack'[k + 1].path = stack[k + 1].path
      BY <1>1, <1>6, <1>7, <3>1
    <3>. QED
      BY <3>2 DEF WalkInv, Nested, m
  <2>2. m # 0 /\ stack' # <<>>
    BY <1>2, <1>7
  <2>. QED
    BY <1>6, <1>7, <1>8, <2>1, <2>2 DEF Nested
<1>11. DescendsIntoEntries'
  <2>1. UniqueNames' => UniqueNames
    BY <1>0, UniqueStays
  <2>2. ASSUME UniqueNames, NEW k \in 1..(m - 1)
        PROVE  stack'[k + 1].dir = stack'[k].entries[stack'[k].next - 1].inode
    <3>1. k \in 1..m /\ k # m /\ k + 1 \in 1..m
      BY <1>0
    <3>2. stack'[k] = stack[k] /\ stack'[k + 1].dir = stack[k + 1].dir
      BY <1>1, <1>6, <1>7, <3>1
    <3>. QED
      BY <2>2, <3>2 DEF WalkInv, DescendsIntoEntries, m
  <2>. QED
    BY <1>7, <2>1, <2>2 DEF DescendsIntoEntries
<1>12. AllAccurate'
  <2>1. \A w \in Frames' : w \in Frames \/ w = f
    BY <1>7 DEF Frames, m
  <2>2. g \in Frames
    BY <1>1, <1>2 DEF Frames, m
  <2>3. \A w \in Frames' : \E h : /\ h.path = w.path /\ h.dir = w.dir /\ h.entries = w.entries
                                  /\ h \in Frames \/ (UniqueNames => Accurate(h))
    BY <1>6, <2>1, <2>2
  <2>. QED
    BY <1>0, <1>7, <2>3, StillAccurate DEF WalkInv
<1>. QED
  BY <1>9, <1>10, <1>11, <1>12 DEF WalkInv

\* Leaving a directory goes back to the frame above, whose own entry is done.
LEMMA Leaves ==
  ASSUME WalkInv, Leave
  PROVE  WalkInv'
<1> DEFINE m == Len(stack)
<1>0. /\ StillThere /\ vol \in Volumes /\ vol' \in Volumes /\ m \in Nat /\ stack \in Seq(FrameType)
      /\ stack # <<>> /\ call.sub = <<>>
  BY DEF StillThere, WalkInv, WalkType, Leave, InLoop
<1>1. m # 0
  BY <1>0, EmptySeq
<1>2. CASE m = 1
  <2>1. stack' = <<>> /\ call' = NoCall
    BY <1>2 DEF Leave, Return
  <2>2. NoCall \in CallType /\ NoCall.sub = <<>>
    BY DEF NoCall, CallType, Path
  <2>. QED
    BY <1>0, <2>1, <2>2, EmptyStack
<1>3. CASE m # 1
  <2>1. stack' = Front(stack) /\ call' = call
    BY <1>3 DEF Leave
  <2>2. /\ stack' \in Seq(FrameType) /\ Len(stack') = m - 1
        /\ \A k \in 1..(m - 1) : stack'[k] = stack[k]
    <3>1. m - 1 \in Nat /\ \A k \in 1..(m - 1) : k \in 1..m
      BY <1>0, <1>1
    <3>2. \A k \in 1..(m - 1) : stack[k] \in FrameType
      BY <1>0, <3>1, ElementOfSeq
    <3> HIDE DEF m
    <3>3. /\ SubSeq(stack, 1, m - 1) \in Seq(FrameType) /\ Len(SubSeq(stack, 1, m - 1)) = m - 1
          /\ \A k \in 1..(m - 1) : SubSeq(stack, 1, m - 1)[k] = stack[k]
      BY <3>1, <3>2, SubSeqProperties, Z3
    <3>. QED
      BY <2>1, <3>3 DEF Front, m
  <2> HIDE DEF m
  <2>3. WalkType'
    <3>1. ASSUME NEW k \in 1..(m - 1) PROVE stack'[k].next <= Len(stack'[k].entries) + 1
      BY <1>0, <2>2 DEF WalkInv, WalkType, m
    <3>. QED
      BY <1>0, <1>1, <2>1, <2>2, <3>1 DEF WalkType, WalkInv
  <2>4. \A k \in 1..(m - 2) : k \in 1..(m - 1) /\ k + 1 \in 1..(m - 1) /\ (m - 1) - 1 = m - 2
    BY <1>0
  <2>5. Nested'
    <3>1. ASSUME NEW k \in 1..(m - 2)
          PROVE  Within(stack'[k]) /\ stack'[k + 1].path = Append(stack'[k].path, Began(stack'[k]).name)
      <4>1. stack'[k] = stack[k] /\ stack'[k + 1] = stack[k + 1]
        BY <2>2, <2>4
      <4>. QED
        BY <2>4, <4>1 DEF WalkInv, Nested, m
    <3>2. (m - 1) - 1 = m - 2
      BY <1>0
    <3>. QED
      BY <1>0, <2>1, <2>2, <3>1, <3>2 DEF Nested
  <2>6. DescendsIntoEntries'
    <3>1. UniqueNames' => UniqueNames
      BY <1>0, UniqueStays
    <3>2. ASSUME UniqueNames, NEW k \in 1..(m - 2)
          PROVE  stack'[k + 1].dir = stack'[k].entries[stack'[k].next - 1].inode
      <4>1. stack'[k] = stack[k] /\ stack'[k + 1] = stack[k + 1]
        BY <2>2, <2>4
      <4>. QED
        BY <2>4, <3>2, <4>1 DEF WalkInv, DescendsIntoEntries, m
    <3>3. (m - 1) - 1 = m - 2
      BY <1>0
    <3>. QED
      BY <2>2, <3>1, <3>2, <3>3 DEF DescendsIntoEntries
  <2>7. AllAccurate'
    <3>1. \A w \in Frames' : w \in Frames
      BY <1>0, <2>2 DEF Frames, m
    <3>2. \A w \in Frames' : \E h : /\ h.path = w.path /\ h.dir = w.dir /\ h.entries = w.entries
                                    /\ h \in Frames \/ (UniqueNames => Accurate(h))
      BY <3>1
    <3>. QED
      BY <1>0, <2>2, <3>2, StillAccurate DEF WalkInv
  <2>. QED
    BY <2>3, <2>5, <2>6, <2>7 DEF WalkInv
<1>. QED
  BY <1>2, <1>3

\* The invariant of walks is inductive.
LEMMA WalkSteps == WalkInv /\ [Next]_vars => WalkInv'
<1> SUFFICES ASSUME WalkInv, [Next]_vars PROVE WalkInv'
  OBVIOUS
<1>0. vol \in Volumes /\ call \in CallType /\ stack \in Seq(FrameType)
  BY DEF WalkInv, WalkType
<1>1. ASSUME NEW c, StartWalk(c), c \in CallType, c.sub = <<>> PROVE WalkInv'
  BY <1>0, <1>1, EmptyStack DEF StartWalk
<1>2. ASSUME NEW r, Answer(r) PROVE WalkInv'
  BY <1>2, SameStack DEF Answer, StillThere
<1>3. <<>> \in Path
  BY DEF Path
<1>4. CASE WalkTree
  <2>1. [NoCall EXCEPT !.op = "walk"] \in CallType /\ [NoCall EXCEPT !.op = "walk"].sub = <<>>
    <3>1. NoCall \in CallType /\ NoCall.sub = <<>>
      BY <1>3 DEF NoCall, CallType
    <3>2. \A c \in CallType : [c EXCEPT !.op = "walk"] \in CallType /\ [c EXCEPT !.op = "walk"].sub = c.sub
      BY DEF CallType
    <3>. QED
      BY <3>1, <3>2
  <2>. QED
    BY <1>1, <1>4, <2>1 DEF WalkTree
<1>5. CASE FindFilesByName
  <2>1. PICK p \in Patterns, max \in MaxResults :
          StartWalk([op |-> "find", pattern |-> p, max |-> max, sub |-> <<>>])
    BY <1>5 DEF FindFilesByName
  <2>2. p \in Seq(STRING) /\ max \in Nat
    BY TreeAssumption
  <2> DEFINE c == [op |-> "find", pattern |-> p, max |-> max, sub |-> <<>>]
  <2>3. c \in CallType /\ c.sub = <<>>
    BY <1>3, <2>2 DEF CallType
  <2>. QED
    BY <1>1, <2>1, <2>3
<1>6. CASE EnterRoot
  BY <1>3, <1>6, Enters DEF EnterRoot
<1>7. CASE Descend
  <2>1. call.sub \in Path
    BY <1>0 DEF CallType
  <2>2. stack # <<>> /\ Within(stack[Len(stack)]) /\ call.sub = Append(stack[Len(stack)].path, Began(stack[Len(stack)]).name)
    BY <1>7 DEF Descend, WalkInv, Nested
  <2>. QED
    BY <1>7, <2>1, <2>2, Enters DEF Descend
<1>8. CASE CallbackFails
  <2>1. stack' = <<>> /\ call' = NoCall /\ vol' \in Volumes
    BY <1>0, <1>8 DEF CallbackFails, Return
  <2>2. NoCall \in CallType /\ NoCall.sub = <<>>
    BY <1>3 DEF NoCall, CallType
  <2>. QED
    BY <2>1, <2>2, EmptyStack
<1>9. CASE PathCall
  BY <1>2, <1>9 DEF PathCall
<1>10. CASE InodeCall
  BY <1>2, <1>10 DEF InodeCall
<1>11. CASE Breaks
  <2>1. StillThere /\ stack' = stack /\ call' = call
    BY <1>11 DEF Breaks, StillThere, walkVars
  <2>. QED
    BY <2>1, SameStack
<1>12. CASE UNCHANGED vars
  <2>1. StillThere /\ stack' = stack /\ call' = call
    BY <1>12 DEF StillThere, vars, walkVars
  <2>. QED
    BY <2>1, SameStack
<1>. QED
  BY <1>4, <1>5, <1>6, <1>7, <1>8, <1>9, <1>10, <1>11, <1>12, Visits, Leaves DEF Next, WalkStep

\* Every frame of a walk below the root's is the directory whose entry the walk
\* last handed to the callback in the frame above, however the blocks fail while
\* it goes on and however often it resolves the path again, as long as no
\* directory of the volume holds a name twice (393-415, 115-151).
THEOREM WalkStaysOnCourse == Spec => []DescendsIntoEntries
<1>1. WalkInv => DescendsIntoEntries
  BY DEF WalkInv
<1>. QED
  BY <1>1, WalkStarts, WalkSteps, PTL DEF Spec

-----------------------------------------------------------------------------
(* The two searches of a tree agree.                                       *)
LevelsIs(oid, id) ==
  LET level == Levels(oid, id)
  IN  /\ level \in [0..Depth -> SUBSET ({oid} \cup Values)] /\ level[0] = {oid}
      /\ \A k \in 1..Depth : level[k] = Descended(level[k - 1], id)
GenerationsIs(oid) ==
  LET level == Generations(oid)
  IN  /\ level \in [0..Depth -> SUBSET ({oid} \cup Values)] /\ level[0] = {oid}
      /\ \A k \in 1..Depth : level[k] = Children(level[k - 1])

\* A value that a search can follow is a number of a child.
LEMMA ValueOf ==
  ASSUME NEW o \in DOMAIN vol.nodes, NEW i \in 1..Len(vol.nodes[o].recs)
  PROVE  vol.nodes[o].recs[i].val \in Values
<1> DEFINE vals == {vol.nodes[o].recs[k].val : k \in 1..Len(vol.nodes[o].recs)}
<1>1. vol.nodes[o].recs[i].val \in vals
  OBVIOUS
<1>2. vals \in {{vol.nodes[w].recs[k].val : k \in 1..Len(vol.nodes[w].recs)} : w \in DOMAIN vol.nodes}
  OBVIOUS
<1> HIDE DEF vals
<1>. QED
  BY <1>1, <1>2, Zenon DEF Values

\* The levels of the B-tree service's search, one by one.
LEMMA LevelsAre ==
  ASSUME vol \in Volumes, NEW oid, NEW id
  PROVE  LevelsIs(oid, id)
<1> DEFINE W == {oid} \cup Values
           V == SUBSET W
           next == [w \in (1..Depth) \X V |-> Descended(w[2], id)]
           level[k \in 0..Depth] == IF k = 0 THEN {oid} ELSE Descended(level[k - 1], id)
<1>0. Depth \in Nat
  BY VolumeIs
<1>1. ASSUME NEW S PROVE Descended(S, id) \in V
  <2>1. ASSUME NEW v \in Descended(S, id) PROVE v \in Values
    <3>1. PICK o : Node(o).ok /\ v \in ChildrenFor(vol.nodes[o], id)
      BY DEF Descended
    <3>2. o \in DOMAIN vol.nodes
      BY <3>1 DEF Node, Err
    <3>3. PICK i : i \in 1..Len(vol.nodes[o].recs) /\ v = vol.nodes[o].recs[i].val
      BY <3>1 DEF ChildrenFor, Readable
    <3>. QED
      BY <3>2, <3>3, ValueOf
  <2>. QED
    BY <2>1
<1>2. next \in [(1..Depth) \X V -> V]
  <2> HIDE DEF V
  <2>. QED
    BY <1>1
<1>3. \A k \in 1..Depth, S \in V : next[<<k, S>>] = Descended(S, id)
  OBVIOUS
<1>4. {oid} \in V
  OBVIOUS
<1>5. \E d : IsRecursion(d, Depth, V, {oid}, next)
  <2> HIDE DEF next, V
  <2>. QED
    BY <1>0, <1>2, <1>4, RecursionExists
<1>6. PICK d : IsRecursion(d, Depth, V, {oid}, next)
  BY <1>5
<1> HIDE DEF next, V
<1>7. d = [k \in 0..Depth |-> IF k = 0 THEN {oid} ELSE Descended(d[k - 1], id)]
  <2>1. ASSUME NEW k \in 0..Depth, k # 0
        PROVE  d[k] = Descended(d[k - 1], id)
    <3>1. k \in 1..Depth /\ k - 1 \in 0..Depth
      BY <1>0, <2>1
    <3>2. d[k] = next[<<k, d[k - 1]>>] /\ d[k - 1] \in V
      BY <1>6, <3>1 DEF IsRecursion
    <3>. QED
      BY <1>3, <3>1, <3>2
  <2>. QED
    BY <1>6, <2>1 DEF IsRecursion
<1>8. level = [k \in 0..Depth |-> IF k = 0 THEN {oid} ELSE Descended(level[k - 1], id)]
  BY <1>7
<1>9. Levels(oid, id) = level
  BY DEF Levels
<1> HIDE DEF level
<1>10. level[0] = {oid} /\ \A k \in 1..Depth : level[k] = Descended(level[k - 1], id)
  <2>1. 0 \in 0..Depth /\ \A k \in 1..Depth : k \in 0..Depth /\ k # 0
    BY <1>0
  <2>. QED
    BY <1>8, <2>1, Zenon
<1>11. level \in [0..Depth -> V]
  <2>1. \A k \in 0..Depth : (IF k = 0 THEN {oid} ELSE Descended(level[k - 1], id)) \in V
    BY <1>1, <1>4
  <2>. QED
    BY <1>8, <2>1
<1>. QED
  BY <1>9, <1>10, <1>11 DEF LevelsIs, V

\* And the generations of nodes the tree is made of.
LEMMA GenerationsAre ==
  ASSUME vol \in Volumes, NEW oid
  PROVE  GenerationsIs(oid)
<1> DEFINE W == {oid} \cup Values
           V == SUBSET W
           next == [w \in (1..Depth) \X V |-> Children(w[2])]
           level[k \in 0..Depth] == IF k = 0 THEN {oid} ELSE Children(level[k - 1])
<1>0. Depth \in Nat
  BY VolumeIs
<1>1. ASSUME NEW S PROVE Children(S) \in V
  <2>1. ASSUME NEW v \in Children(S) PROVE v \in Values
    <3>1. PICK o : o \in DOMAIN vol.nodes /\ v \in {r.val : r \in Range(vol.nodes[o].recs)}
      BY DEF Children
    <3>2. DOMAIN vol.nodes[o].recs = 1..Len(vol.nodes[o].recs)
      BY <3>1, VolumeIs DEF IsNode
    <3>3. PICK i : i \in 1..Len(vol.nodes[o].recs) /\ v = vol.nodes[o].recs[i].val
      BY <3>1, <3>2 DEF Range
    <3>. QED
      BY <3>1, <3>3, ValueOf
  <2>. QED
    BY <2>1
<1>2. next \in [(1..Depth) \X V -> V]
  <2> HIDE DEF V
  <2>. QED
    BY <1>1
<1>3. \A k \in 1..Depth, S \in V : next[<<k, S>>] = Children(S)
  OBVIOUS
<1>4. {oid} \in V
  OBVIOUS
<1>5. \E d : IsRecursion(d, Depth, V, {oid}, next)
  <2> HIDE DEF next, V
  <2>. QED
    BY <1>0, <1>2, <1>4, RecursionExists
<1>6. PICK d : IsRecursion(d, Depth, V, {oid}, next)
  BY <1>5
<1> HIDE DEF next, V
<1>7. d = [k \in 0..Depth |-> IF k = 0 THEN {oid} ELSE Children(d[k - 1])]
  <2>1. ASSUME NEW k \in 0..Depth, k # 0
        PROVE  d[k] = Children(d[k - 1])
    <3>1. k \in 1..Depth /\ k - 1 \in 0..Depth
      BY <1>0, <2>1
    <3>2. d[k] = next[<<k, d[k - 1]>>] /\ d[k - 1] \in V
      BY <1>6, <3>1 DEF IsRecursion
    <3>. QED
      BY <1>3, <3>1, <3>2
  <2>. QED
    BY <1>6, <2>1 DEF IsRecursion
<1>8. level = [k \in 0..Depth |-> IF k = 0 THEN {oid} ELSE Children(level[k - 1])]
  BY <1>7
<1>9. Generations(oid) = level
  BY DEF Generations
<1> HIDE DEF level
<1>10. level[0] = {oid} /\ \A k \in 1..Depth : level[k] = Children(level[k - 1])
  <2>1. 0 \in 0..Depth /\ \A k \in 1..Depth : k \in 0..Depth /\ k # 0
    BY <1>0
  <2>. QED
    BY <1>8, <2>1, Zenon
<1>11. level \in [0..Depth -> V]
  <2>1. \A k \in 0..Depth : (IF k = 0 THEN {oid} ELSE Children(level[k - 1])) \in V
    BY <1>1, <1>4
  <2>. QED
    BY <1>8, <2>1
<1>. QED
  BY <1>9, <1>10, <1>11 DEF GenerationsIs, V

\* A descent's leaf is at some level of the other search, and of the tree.
LEMMA LeafIsReached ==
  ASSUME vol \in Volumes, NEW id, Leaf(id, id, 8).ok
  PROVE  \E o : /\ o \in DOMAIN vol.nodes /\ o \notin broken /\ vol.nodes[o].leaf
                /\ Leaf(id, id, 8).val = vol.nodes[o]
                /\ o \in Reached(id, id) /\ o \in Under(id) /\ Node(id).ok
<1> DEFINE d == Descent(id, id, 8)
           level == Levels(id, id)
           gen == Generations(id)
           Is(k, j) == /\ d[k].val.oid \in level[j] /\ d[k].val.oid \in gen[j]
                       /\ ~vol.nodes[d[k].val.oid].leaf => j = k
           T == {k \in 0..Depth : d[k].ok => Node(id).ok /\ \E j \in 0..k : Is(k, j)}
<1>0. Depth \in Nat /\ \A o \in DOMAIN vol.nodes : IsNode(vol.nodes[o])
  BY VolumeIs
<1>1. /\ level[0] = {id} /\ \A k \in 1..Depth : level[k] = Descended(level[k - 1], id)
      /\ DOMAIN level = 0..Depth
  BY LevelsAre DEF LevelsIs
<1>2. /\ gen[0] = {id} /\ \A k \in 1..Depth : gen[k] = Children(gen[k - 1])
      /\ DOMAIN gen = 0..Depth
  BY GenerationsAre DEF GenerationsIs
<1>3. /\ d[0] = Entering(id)
      /\ \A k \in 1..Depth :
           /\ ~d[k - 1].ok => d[k] = d[k - 1]
           /\ d[k - 1].ok => \A at : at = d[k - 1].val => d[k] = StepDown(at, id, 8)
      /\ \A k \in 0..Depth : At(d[k])
  BY DescentIs DEF DescentFrom
<1>4. PICK K \in 0..Depth : /\ d[K].ok /\ d[K].val.oid \in DOMAIN vol.nodes /\ d[K].val.oid \notin broken
                            /\ vol.nodes[d[K].val.oid].leaf /\ Leaf(id, id, 8).val = vol.nodes[d[K].val.oid]
  BY LeafFound
<1>5. Reached(id, id) = UNION Range(level) /\ Under(id) = (UNION Range(gen)) \cap DOMAIN vol.nodes
  BY DEF Reached, Under
<1> HIDE DEF d, level, gen
<1>6. 0 \in T
  <2> SUFFICES ASSUME d[0].ok PROVE Node(id).ok /\ Is(0, 0)
    BY <1>0
  <2>1. Node(id).ok /\ d[0].val.oid = id
    <3>1. ~Err("not found").ok /\ ~Err("unreadable").ok
      BY DEF Err
    <3>2. id \in DOMAIN vol.nodes /\ id \notin broken
      BY <1>3, <3>1, EnteringIs
    <3>3. d[0] = Ok([oid |-> id, node |-> vol.nodes[id]])
      BY <1>3, <3>2, EnteringIs
    <3>4. d[0].val.oid = id
      BY <3>3 DEF Ok
    <3>5. Node(id).ok
      BY <3>2 DEF Node, Ok
    <3>. QED
      BY <3>4, <3>5
  <2>. QED
    BY <1>1, <1>2, <2>1
<1>7. ASSUME NEW k \in 1..Depth, k - 1 \in T PROVE k \in T
  <2> SUFFICES ASSUME d[k].ok PROVE Node(id).ok /\ \E j \in 0..k : Is(k, j)
    BY <1>0
  <2>1. d[k - 1].ok
    BY <1>3
  <2>2. Node(id).ok /\ \E j \in 0..(k - 1) : Is(k - 1, j)
    BY <1>7, <2>1
  <2>3. PICK j \in 0..(k - 1) : Is(k - 1, j)
    BY <2>2
  <2>4. PICK at : at = d[k - 1].val
    OBVIOUS
  <2>5. d[k] = StepDown(at, id, 8)
    BY <1>3, <2>1, <2>4
  <2>6. at.oid \in DOMAIN vol.nodes /\ at.oid \notin broken /\ at.node = vol.nodes[at.oid]
    BY <1>0, <1>3, <2>1, <2>4 DEF At
  <2>7. CASE at.node.leaf
    <3>1. d[k].val = d[k - 1].val
      BY <2>4, <2>5, <2>7, StepDownIs DEF Ok
    <3>2. Is(k, j)
      BY <2>3, <2>4, <2>6, <2>7, <3>1
    <3>3. j \in 0..k
      BY <1>0
    <3>. QED
      BY <2>2, <3>2, <3>3
  <2>8. CASE ~at.node.leaf
    <3>1. j = k - 1 /\ at.oid \in level[k - 1] /\ at.oid \in gen[k - 1]
      BY <2>3, <2>4, <2>6, <2>8
    <3>2. PICK c : c = Child(at.node, id, 8)
      OBVIOUS
    <3>3. d[k] = IF c.ok THEN Entering(c.val) ELSE c
      BY <2>5, <2>8, <3>2, StepDownIs
    <3>4. c.ok
      BY <3>3
    <3>5. d[k].val.oid = c.val /\ c.val \in DOMAIN vol.nodes
      <4>1. Entering(c.val).ok
        BY <3>3, <3>4
      <4>2. c.val \in DOMAIN vol.nodes /\ Entering(c.val) = Ok([oid |-> c.val, node |-> vol.nodes[c.val]])
        BY <4>1, EnteringIs DEF Err
      <4>. QED
        BY <3>3, <3>4, <4>2 DEF Ok
    <3>6. PICK i : i \in Followed(at.node, id, 8) /\ c.val = at.node.recs[i].val
      <4>1. IsNode(at.node)
        BY <1>0, <2>6
      <4>2. Child(at.node, id, 8) = Err("no suitable child")
            \/ \E i \in Followed(at.node, id, 8) : Child(at.node, id, 8) = Ok(at.node.recs[i].val)
        BY <4>1, ChildIs
      <4>3. c # Err("no suitable child")
        <5>1. ~Err("no suitable child").ok
          BY DEF Err
        <5>. QED
          BY <3>4, <5>1
      <4>4. PICK i : i \in Followed(at.node, id, 8) /\ c = Ok(at.node.recs[i].val)
        BY <3>2, <4>2, <4>3
      <4>. QED
        BY <4>4 DEF Ok
    <3>7. c.val \in ChildrenFor(at.node, id)
      BY <3>6 DEF Followed, ChildrenFor
    <3>8. c.val \in Descended(level[k - 1], id)
      <4>1. Node(at.oid).ok
        BY <2>6 DEF Node, Ok
      <4>2. at.oid \in {x \in level[k - 1] : Node(x).ok /\ ~vol.nodes[x].leaf}
        BY <2>6, <2>8, <3>1, <4>1
      <4>. QED
        BY <2>6, <3>7, <4>2 DEF Descended
    <3>9. c.val \in Children(gen[k - 1])
      <4>1. DOMAIN at.node.recs = 1..Len(at.node.recs)
        BY <1>0, <2>6 DEF IsNode
      <4>2. at.node.recs[i] \in Range(at.node.recs)
        BY <3>6, <4>1 DEF Followed, Readable, Range
      <4>3. c.val \in {r.val : r \in Range(vol.nodes[at.oid].recs)}
        BY <2>6, <3>6, <4>2
      <4>4. at.oid \in {x \in gen[k - 1] \cap DOMAIN vol.nodes : ~vol.nodes[x].leaf}
        BY <2>6, <2>8, <3>1
      <4>. QED
        BY <4>3, <4>4 DEF Children
    <3>10. Is(k, k) /\ k \in 0..k
      <4>1. level[k] = Descended(level[k - 1], id)
        BY <1>1, Zenon
      <4>2. gen[k] = Children(gen[k - 1])
        BY <1>2, Zenon
      <4>3. k \in 0..k
        BY <1>0
      <4>. QED
        BY <3>5, <3>8, <3>9, <4>1, <4>2, <4>3, Zenon
    <3>. QED
      BY <2>2, <3>10
  <2>. QED
    BY <2>7, <2>8
<1>8. K \in T
  <2>1. \A k \in 1..Depth : k - 1 \in T => k \in T
    BY <1>7
  <2> HIDE DEF T
  <2>2. \A k \in 0..Depth : k \in T
    BY <1>0, <1>6, <2>1, UpTo
  <2>. QED
    BY <2>2
<1>9. PICK j \in 0..K : Is(K, j)
  BY <1>4, <1>8
<1>10. j \in DOMAIN level /\ j \in DOMAIN gen
  BY <1>0, <1>1, <1>2
<1>11. level[j] \in Range(level) /\ gen[j] \in Range(gen)
  BY <1>10 DEF Range
<1>12. d[K].val.oid \in Reached(id, id) /\ d[K].val.oid \in Under(id)
  <2>1. d[K].val.oid \in level[j] /\ d[K].val.oid \in gen[j]
    BY <1>9
  <2>2. d[K].val.oid \in UNION Range(level) /\ d[K].val.oid \in UNION Range(gen)
    BY <1>11, <2>1, Zenon
  <2>. QED
    BY <1>4, <1>5, <2>2
<1>. QED
  BY <1>4, <1>8, <1>12

\* The B-tree service's records, spelled out.
LEMMA GetFSRecordsIs ==
  ASSUME NEW oid, NEW id, Node(oid).ok
  PROVE  GetFSRecordsForOID(oid, id).val =
           UNION {FSRecordsIn(vol.nodes[o], id) : o \in {x \in Reached(oid, id) : Node(x).ok /\ vol.nodes[x].leaf}}
<1> DEFINE all == UNION {FSRecordsIn(vol.nodes[o], id) : o \in {x \in Reached(oid, id) : Node(x).ok /\ vol.nodes[x].leaf}}
           f(v) == IF v.ok THEN Ok(all) ELSE v
<1>1. {f(v) : v \in {Node(oid)}} = {f(Node(oid))}
  OBVIOUS
<1>2. GetFSRecordsForOID(oid, id) = CHOOSE y \in {f(v) : v \in {Node(oid)}} : TRUE
  BY DEF GetFSRecordsForOID, Then
<1> HIDE DEF all
<1>3. GetFSRecordsForOID(oid, id) = f(Node(oid))
  BY <1>1, <1>2, One, Zenon
<1>. QED
  BY <1>3 DEF Ok, all

\* The inode that is loaded is a record of the leaf, long enough to be one.
LEMMA InodeFound ==
  ASSUME vol \in Volumes, NEW id, loadInode(id).ok
  PROVE  LET nd == Leaf(id, id, 8)
         IN  nd.ok /\ \E k \in inodeRecords(nd.val, id) : loadInode(id) = Ok(nd.val.recs[k].val)
<1>1. PICK nd : nd = Leaf(id, id, 8)
  OBVIOUS
<1>2. PICK is : is = inodeRecords(nd.val, id)
  OBVIOUS
<1>3. loadInode(id) = IF nd.ok THEN InodeIn(nd.val, is) ELSE nd
  BY <1>1, <1>2, loadInodeIs
<1>4. nd.ok
  BY <1>3
<1>5. ~Err("not found").ok /\ ~Err("short inode").ok
  BY DEF Err
<1>6. is # {} /\ loadInode(id) = Ok(nd.val.recs[Least(is)].val)
  BY <1>3, <1>4, <1>5 DEF InodeIn
<1>7. Least(is) \in is
  <2>1. PICK o : o \in DOMAIN vol.nodes /\ nd.val = vol.nodes[o]
    <3>1. Leaf(id, id, 8).ok
      BY <1>1, <1>4
    <3>. QED
      BY <1>1, <3>1, LeafIsReached
  <2>2. IsNode(nd.val)
    BY <2>1, VolumeIs
  <2>3. is \subseteq Nat
    BY <1>2, <2>2 DEF inodeRecords, Readable, IsNode
  <2>4. \E i \in is : \A j \in is : i <= j
    BY <1>6, <2>3, NatHasMin
  <2>. QED
    BY <2>4 DEF Least
<1>. QED
  BY <1>1, <1>2, <1>4, <1>6, <1>7

\* The two searches of the tree agree: an inode the file system service finds is
\* stored under that number in the tree the number resolves to, is among the
\* records the B-tree service returns for it and parses there, if its value is
\* long enough (153-338; btree_service.go:46-245, 283-313).
THEOREM BothSearchesFindInodes == Spec => []SearchesAgree
<1>1. WalkInv => SearchesAgree
  <2> SUFFICES ASSUME vol \in Volumes, NEW i, loadInode(i).ok
               PROVE  /\ loadInode(i).val \in Stored(i, i, "inode")
                      /\ \E rec \in GetFSRecordsForOID(i, i).val :
                           rec.type = "inode" /\ rec.val = loadInode(i).val
                             /\ (rec.len >= InodeRecordLen => ParseInodeRecord(rec) = loadInode(i))
    BY DEF SearchesAgree, WalkInv, WalkType
  <2>1. PICK nd : nd = Leaf(i, i, 8)
    OBVIOUS
  <2>2. nd.ok /\ \E k \in inodeRecords(nd.val, i) : loadInode(i) = Ok(nd.val.recs[k].val)
    BY <2>1, InodeFound
  <2>3. PICK k : k \in inodeRecords(nd.val, i) /\ loadInode(i) = Ok(nd.val.recs[k].val)
    BY <2>2
  <2>4. PICK o : /\ o \in DOMAIN vol.nodes /\ o \notin broken /\ vol.nodes[o].leaf
                 /\ nd.val = vol.nodes[o]
                 /\ o \in Reached(i, i) /\ o \in Under(i) /\ Node(i).ok
    <3>1. Leaf(i, i, 8).ok
      BY <2>1, <2>2
    <3>. QED
      BY <2>1, <3>1, LeafIsReached
  <2>5. PICK r : r = nd.val.recs[k]
    OBVIOUS
  <2>6. /\ k \in Readable(nd.val, 8) /\ r.id = i /\ r.type = "inode"
        /\ valueSize(nd.val, k) > 0 /\ r.valAt + valueSize(nd.val, k) <= DataLen
    BY <2>3, <2>5 DEF inodeRecords
  <2>7. loadInode(i) = Ok(r.val) /\ loadInode(i).val = r.val
    BY <2>3, <2>5 DEF Ok
  <2>8. k \in 1..Len(nd.val.recs) /\ DOMAIN nd.val.recs = 1..Len(nd.val.recs)
    <3>1. IsNode(nd.val)
      BY <2>4, VolumeIs
    <3>. QED
      BY <2>6, <3>1 DEF Readable, IsNode
  <2>9. r.val \in Stored(i, i, "inode")
    <3>1. r \in Range(vol.nodes[o].recs)
      BY <2>4, <2>5, <2>8 DEF Range
    <3>2. r \in UNION {Range(vol.nodes[w].recs) : w \in Under(i)}
      BY <2>4, <3>1
    <3>. QED
      BY <2>6, <3>2 DEF Stored
  <2>10. PICK rec : rec = [type |-> r.type, val |-> r.val, len |-> extractedLength(nd.val, k)]
    OBVIOUS
  <2>11. rec \in FSRecordsIn(vol.nodes[o], i)
    BY <2>4, <2>5, <2>6, <2>10 DEF FSRecordsIn
  <2>12. rec \in GetFSRecordsForOID(i, i).val
    <3>1. Node(o).ok
      BY <2>4 DEF Node, Ok
    <3>2. o \in {x \in Reached(i, i) : Node(x).ok /\ vol.nodes[x].leaf}
      BY <2>4, <3>1
    <3>3. FSRecordsIn(vol.nodes[o], i) \in
            {FSRecordsIn(vol.nodes[w], i) : w \in {x \in Reached(i, i) : Node(x).ok /\ vol.nodes[x].leaf}}
      BY <3>2
    <3>. QED
      BY <2>4, <2>11, <3>3, GetFSRecordsIs
  <2>13. rec.type = "inode" /\ rec.val = r.val
    BY <2>6, <2>10
  <2>14. ASSUME rec.len >= InodeRecordLen PROVE ParseInodeRecord(rec) = Ok(r.val)
    <3>1. /\ nd.val.recs[k].valAt \in Nat
          /\ k < Len(nd.val.recs) => nd.val.recs[k + 1].keyAt \in Nat
      BY <2>4, <2>8, VolumeIs DEF IsNode
    <3>2. valueSize(nd.val, k) \in Int
      BY <3>1, TreeAssumption DEF valueSize
    <3>3. rec.len = valueSize(nd.val, k)
      BY <2>5, <2>6, <2>10 DEF extractedLength
    <3>4. ~(rec.len < InodeRecordLen)
      BY <2>14, <3>2, <3>3, TreeAssumption
    <3>. QED
      BY <2>13, <3>4 DEF ParseInodeRecord
  <2>. QED
    BY <2>7, <2>9, <2>12, <2>13, <2>14
<1>. QED
  BY <1>1, WalkStarts, WalkSteps, PTL DEF Spec

-----------------------------------------------------------------------------
(* A search returns nothing twice, and only what it visited.               *)
Full(v) == Append(v.dir, v.entry.name)
Seen == {Full(visited[k]) : k \in 1..Len(visited)}
Beneath(p, q) == Len(p) < Len(q) /\ \A i \in 1..Len(p) : q[i] = p[i]

Asked == IF call # NoCall THEN call ELSE last

\* What the search has seen and found so far.
SearchType ==
  /\ call = NoCall => stack = <<>>
  /\ call # NoCall => call.op # "none" /\ (stack = <<>> => visited = <<>>)
  /\ last \in CallType
  /\ visited \in Seq([dir : Path, entry : DirectoryEntry])
  /\ results \in Seq([inode : Nat, path : Path])
Visited(r) == \E k \in 1..Len(visited) : visited[k].entry.inode = r.inode /\ Full(visited[k]) = r.path
FoundInv ==
  /\ \A i \in 1..Len(results) : Visited(results[i])
  /\ Asked.op = "find" =>
       Len(results) <= Asked.max /\ \A i \in 1..Len(results) : matchPattern(Last(results[i].path), Asked.pattern)

\* Whatever it has seen beneath a frame was an entry of that frame already
\* passed, so that no entry is seen twice.
Passed(k, q) == \E j \in 1..(stack[k].next - 1) : stack[k].entries[j].name = q[k]
PathsInv ==
  /\ \A k \in 1..Len(stack) : Len(stack[k].path) = k - 1
  /\ \A k \in 1..Len(stack) : k # 1 => stack[k].path \in Seen
  /\ call.sub # <<>> => call.sub \in Seen
OnceInv ==
  UniqueNames =>
    /\ \A k \in 1..Len(stack) : Distinct(stack[k].entries)
    /\ \A k \in 1..Len(stack) : \A q \in Seen : Beneath(stack[k].path, q) => Passed(k, q)
    /\ call.sub # <<>> => \A q \in Seen : ~Beneath(call.sub, q)
    /\ \A i, j \in 1..Len(results) : results[i].path = results[j].path => i = j

SearchInv == SearchType /\ FoundInv /\ PathsInv /\ OnceInv

\* The entry e of the frame g, whose path is q, is visited.
VisitsAs(m, g, e, q) ==
  /\ m = Len(stack) /\ m \in Nat \ {0} /\ g = stack[m] /\ e = g.entries[g.next] /\ q = Append(g.path, e.name)
  /\ g \in FrameType /\ g.next \in 1..Len(g.entries) /\ e \in DirectoryEntry
  /\ q \in Path /\ Len(q) = Len(g.path) + 1 /\ q[Len(g.path) + 1] = e.name /\ \A i \in 1..Len(g.path) : q[i] = g.path[i]
  /\ Len(stack') = m /\ \A k \in 1..m : k # m => stack'[k] = stack[k]
  /\ stack'[m].path = g.path /\ stack'[m].entries = g.entries /\ stack'[m].next = g.next + 1
  /\ visited' = Append(visited, [dir |-> g.path, entry |-> e])
  /\ \/ results' = results
     \/ /\ call.op = "find" /\ matchPattern(e.name, call.pattern)
        /\ results' = Append(results, [inode |-> e.inode, path |-> q])
  /\ ~LimitReached
  /\ call' \in CallType /\ call'.op = call.op /\ call'.pattern = call.pattern /\ call'.max = call.max
  /\ call'.sub # <<>> => call'.sub = q

\* Visit is the visit of some entry of the innermost frame.
LEMMA VisitIs ==
  ASSUME WalkInv, Visit
  PROVE  \E m, g, e, q : VisitsAs(m, g, e, q)
<1> DEFINE m == Len(stack)
<1>0. m \in Nat /\ stack \in Seq(FrameType) /\ call \in CallType /\ stack # <<>>
  BY DEF WalkInv, WalkType, Visit, InLoop
<1>1. PICK g : g = stack[m]
  OBVIOUS
<1>2. m \in 1..m /\ m \in Nat \ {0} /\ g \in FrameType
  BY <1>0, <1>1, ElementOfSeq, EmptySeq
<1>3. PICK e : e = g.entries[g.next]
  OBVIOUS
<1>4. PICK q : q = Append(g.path, e.name)
  OBVIOUS
<1>5. Top = g /\ Entry = e
  BY <1>1, <1>3 DEF Top, Last, Entry
<1>6. g.next \in 1..Len(g.entries) /\ e \in DirectoryEntry
  <2>1. g.next <= Len(g.entries) /\ g.next \in Nat \ {0} /\ g.entries \in Seq(DirectoryEntry)
    BY <1>2, <1>5 DEF Visit, FrameType
  <2>2. g.next \in 1..Len(g.entries)
    BY <2>1
  <2>. QED
    BY <1>3, <2>1, <2>2, ElementOfSeq
<1>7. /\ q \in Path /\ Len(q) = Len(g.path) + 1 /\ q[Len(g.path) + 1] = e.name
      /\ \A i \in 1..Len(g.path) : q[i] = g.path[i]
  <2>1. g.path \in Seq(Seq(STRING)) /\ e.name \in Seq(STRING)
    BY <1>2, <1>6 DEF FrameType, DirectoryEntry, Path
  <2>. QED
    BY <1>4, <2>1, AppendProperties DEF Path
<1>8. PICK f : f = [g EXCEPT !.next = g.next + 1]
  OBVIOUS
<1>9. f \in FrameType /\ f.path = g.path /\ f.entries = g.entries /\ f.next = g.next + 1
  BY <1>2, <1>8 DEF FrameType
<1>10. Len(stack') = m /\ stack'[m] = f /\ \A k \in 1..m : k # m => stack'[k] = stack[k]
  <2>1. stack' = [stack EXCEPT ![m] = f]
    BY <1>1, <1>8 DEF Visit
  <2>. QED
    BY <1>0, <1>2, <1>9, <2>1, ExceptSeq
<1>11. visited' = Append(visited, [dir |-> g.path, entry |-> e]) /\ ~LimitReached
  BY <1>5 DEF Visit
<1>12. \/ results' = results
       \/ /\ call.op = "find" /\ matchPattern(e.name, call.pattern)
          /\ results' = Append(results, [inode |-> e.inode, path |-> q])
  BY <1>4, <1>5 DEF Visit, Found
<1>13. /\ call' \in CallType /\ call'.op = call.op /\ call'.pattern = call.pattern /\ call'.max = call.max
       /\ call'.sub # <<>> => call'.sub = q
  <2>1. q \in Path /\ <<>> \in Path
    BY <1>7 DEF Path
  <2>2. \A c \in CallType : \A p \in Path :
          /\ [c EXCEPT !.sub = p] \in CallType /\ [c EXCEPT !.sub = p].sub = p
          /\ [c EXCEPT !.sub = p].op = c.op /\ [c EXCEPT !.sub = p].pattern = c.pattern /\ [c EXCEPT !.sub = p].max = c.max
    BY DEF CallType
  <2>3. call' = [call EXCEPT !.sub = IF e.dir THEN q ELSE <<>>]
    BY <1>4, <1>5 DEF Visit
  <2>4. PICK p \in Path : p = (IF e.dir THEN q ELSE <<>>)
    BY <2>1
  <2>. QED
    BY <1>0, <2>2, <2>3, <2>4
<1>14. VisitsAs(m, g, e, q)
  BY <1>1, <1>2, <1>3, <1>4, <1>6, <1>7, <1>9, <1>10, <1>11, <1>12, <1>13 DEF VisitsAs
<1>. QED
  BY <1>14

\* What is seen when an entry is visited has not been seen, nor anything beneath it.
LEMMA NewlySeen ==
  ASSUME WalkInv, SearchInv, NEW m, NEW g, NEW e, NEW q, VisitsAs(m, g, e, q)
  PROVE  /\ Seen' = Seen \cup {q}
         /\ Len(q) = m /\ Len(g.path) = m - 1
         /\ UniqueNames => q \notin Seen /\ \A p \in Seen : ~Beneath(q, p)
<1>1. visited \in Seq([dir : Path, entry : DirectoryEntry]) /\ Len(visited) \in Nat
  BY DEF SearchInv, SearchType
<1>2. PICK v : v = [dir |-> g.path, entry |-> e]
  OBVIOUS
<1>3. g.path \in Path /\ e \in DirectoryEntry
  BY DEF VisitsAs, FrameType
<1>4. v \in [dir : Path, entry : DirectoryEntry] /\ Full(v) = q
  BY <1>2, <1>3 DEF Full, VisitsAs
<1>5. /\ visited' = Append(visited, v) /\ Len(visited') = Len(visited) + 1
      /\ visited'[Len(visited) + 1] = v /\ \A k \in 1..Len(visited) : visited'[k] = visited[k]
  <2>1. visited' = Append(visited, v)
    BY <1>2 DEF VisitsAs
  <2>. QED
    BY <1>1, <1>4, <2>1, AppendProperties
<1>6. Seen' = Seen \cup {q}
  <2>1. ASSUME NEW p \in Seen PROVE p \in Seen'
    <3>1. PICK k \in 1..Len(visited) : p = Full(visited[k])
      BY DEF Seen
    <3>2. k \in 1..Len(visited') /\ Full(visited'[k]) = p
      BY <1>1, <1>5, <3>1 DEF Full
    <3>. QED
      BY <3>2 DEF Seen, Full
  <2>2. q \in Seen'
    <3>1. Len(visited) + 1 \in 1..Len(visited') /\ Full(visited'[Len(visited) + 1]) = q
      BY <1>1, <1>4, <1>5 DEF Full
    <3>. QED
      BY <3>1 DEF Seen, Full
  <2>3. ASSUME NEW p \in Seen' PROVE p \in Seen \/ p = q
    <3>1. PICK k \in 1..Len(visited') : p = Full(visited'[k])
      BY <2>3 DEF Seen, Full
    <3>2. CASE k \in 1..Len(visited)
      <4>1. p = Full(visited[k])
        BY <1>5, <3>1, <3>2 DEF Full
      <4>. QED
        BY <3>2, <4>1 DEF Seen
    <3>3. CASE k = Len(visited) + 1
      BY <1>4, <1>5, <3>1, <3>3 DEF Full
    <3>. QED
      BY <1>1, <1>5, <3>2, <3>3
  <2>. QED
    BY <2>1, <2>2, <2>3
<1>7. m \in Nat \ {0} /\ m = Len(stack) /\ g = stack[m] /\ Len(g.path) = m - 1
  BY DEF VisitsAs, SearchInv, PathsInv
<1>8. Len(q) = m
  BY <1>7 DEF VisitsAs
<1>9. ASSUME UniqueNames, NEW p \in Seen, Beneath(g.path, p), p[m] = e.name PROVE FALSE
  <2>1. Distinct(g.entries) /\ Passed(m, p)
    BY <1>7, <1>9 DEF SearchInv, OnceInv
  <2>2. PICK j : j \in 1..(g.next - 1) /\ g.entries[j].name = e.name
    BY <1>7, <1>9, <2>1 DEF Passed
  <2>3. g.next \in 1..Len(g.entries) /\ e = g.entries[g.next]
    BY DEF VisitsAs
  <2>4. j \in 1..Len(g.entries) /\ j # g.next
    BY <2>2, <2>3
  <2>. QED
    BY <2>1, <2>2, <2>3, <2>4 DEF Distinct
<1>10. \A i \in 1..Len(g.path) : q[i] = g.path[i]
  BY DEF VisitsAs
<1>11. q[m] = e.name
  BY <1>7 DEF VisitsAs
<1>12. Beneath(g.path, q)
  BY <1>7, <1>8, <1>10 DEF Beneath
<1>13. ASSUME NEW p, Beneath(q, p) PROVE Beneath(g.path, p) /\ p[m] = e.name
  <2>1. \A i \in 1..(m - 1) : i \in 1..m
    BY <1>7
  <2>2. \A i \in 1..Len(g.path) : p[i] = g.path[i]
    BY <1>7, <1>8, <1>10, <1>13, <2>1 DEF Beneath
  <2>3. p[m] = e.name
    BY <1>7, <1>8, <1>11, <1>13 DEF Beneath
  <2>4. Len(g.path) < Len(p)
    BY <1>7, <1>8, <1>12, <1>13 DEF Beneath
  <2>. QED
    BY <2>2, <2>3, <2>4 DEF Beneath
<1>14. UniqueNames => q \notin Seen /\ \A p \in Seen : ~Beneath(q, p)
  BY <1>9, <1>11, <1>12, <1>13
<1>. QED
  BY <1>6, <1>7, <1>8, <1>14

\* A visit keeps what is known of the paths seen: the entry is a new one, passed
\* from now on.
LEMMA VisitOnce ==
  ASSUME WalkInv, SearchInv, StillThere, NEW m, NEW g, NEW e, NEW q, VisitsAs(m, g, e, q)
  PROVE  PathsInv' /\ OnceInv'
<1>1. /\ Seen' = Seen \cup {q} /\ Len(q) = m /\ Len(g.path) = m - 1
      /\ UniqueNames => q \notin Seen /\ \A p \in Seen : ~Beneath(q, p)
  BY NewlySeen
<1>2. /\ m \in Nat \ {0} /\ m = Len(stack) /\ Len(stack') = m /\ g = stack[m] /\ g.next \in Nat /\ 1 <= g.next
      /\ \A k \in 1..m : k # m => stack'[k] = stack[k]
      /\ stack'[m].path = g.path /\ stack'[m].entries = g.entries /\ stack'[m].next = g.next + 1
      /\ call'.sub # <<>> => call'.sub = q
      /\ g.entries[g.next].name = q[m]
  <2>1. g.next \in Nat /\ 1 <= g.next
    BY DEF VisitsAs, FrameType
  <2>2. g.entries[g.next].name = q[m]
    BY <1>1 DEF VisitsAs
  <2>. QED
    BY <2>1, <2>2 DEF VisitsAs
<1>3. ASSUME NEW k \in 1..m
      PROVE  stack'[k].path = stack[k].path /\ stack'[k].entries = stack[k].entries
  BY <1>2
<1>4. PathsInv'
  <2>1. \A k \in 1..m : Len(stack'[k].path) = k - 1 /\ (k # 1 => stack'[k].path \in Seen')
    BY <1>1, <1>2, <1>3 DEF SearchInv, PathsInv
  <2>2. call'.sub # <<>> => call'.sub \in Seen'
    BY <1>1, <1>2
  <2>. QED
    BY <1>2, <2>1, <2>2 DEF PathsInv
<1>5. ASSUME UniqueNames PROVE \A k \in 1..m : Distinct(stack'[k].entries)
  BY <1>2, <1>3, <1>5 DEF SearchInv, OnceInv
<1>6. ASSUME UniqueNames, NEW k \in 1..m, NEW p \in Seen', Beneath(stack'[k].path, p)
      PROVE  \E j \in 1..(stack'[k].next - 1) : stack'[k].entries[j].name = p[k]
  <2>0. Beneath(stack[k].path, p) /\ Len(stack[k].path) = k - 1
    BY <1>2, <1>3, <1>6 DEF SearchInv, PathsInv
  <2>1. ASSUME NEW o \in Seen, Beneath(stack[k].path, o), o[k] = p[k]
        PROVE  \E j \in 1..(stack'[k].next - 1) : stack'[k].entries[j].name = p[k]
    <3>1. Passed(k, o)
      BY <1>2, <1>6, <2>1 DEF SearchInv, OnceInv
    <3>2. PICK j : j \in 1..(stack[k].next - 1) /\ stack[k].entries[j].name = p[k]
      BY <2>1, <3>1 DEF Passed
    <3>3. CASE k # m
      BY <1>2, <3>2, <3>3
    <3>4. CASE k = m
      <4>1. j \in 1..((g.next + 1) - 1)
        BY <1>2, <3>2, <3>4
      <4>. QED
        BY <1>2, <3>2, <3>4, <4>1
    <3>. QED
      BY <3>3, <3>4
  <2>2. CASE p \in Seen
    BY <2>0, <2>1, <2>2
  <2>3. CASE p = q /\ k = m
    <3>1. g.next \in 1..((g.next + 1) - 1)
      BY <1>2
    <3>. QED
      BY <1>2, <2>3, <3>1
  <2>4. CASE p = q /\ k # m
    <3>1. m # 1 /\ k \in 1..(m - 1) /\ k - 1 < m - 1 /\ \A i \in 1..(k - 1) : i \in 1..(m - 1)
      BY <1>2, <2>4
    <3>2. g.path \in Seen
      BY <1>2, <3>1 DEF SearchInv, PathsInv
    <3>3. \A i \in 1..(m - 1) : q[i] = g.path[i]
      BY <1>1 DEF VisitsAs
    <3>4. \A i \in 1..(k - 1) : g.path[i] = stack[k].path[i]
      BY <2>0, <2>4, <3>1, <3>3 DEF Beneath
    <3>5. Beneath(stack[k].path, g.path) /\ g.path[k] = q[k]
      BY <1>1, <2>0, <3>1, <3>3, <3>4 DEF Beneath
    <3>. QED
      BY <2>1, <2>4, <3>2, <3>5
  <2>. QED
    BY <1>1, <2>2, <2>3, <2>4
<1>7. ASSUME UniqueNames, call'.sub # <<>>, NEW p \in Seen' PROVE ~Beneath(call'.sub, p)
  <2>1. CASE p \in Seen
    BY <1>1, <1>2, <1>7, <2>1
  <2>2. CASE p = q
    BY <1>1, <1>2, <1>7, <2>2 DEF Beneath
  <2>. QED
    BY <1>1, <2>1, <2>2
<1>8. ASSUME UniqueNames, NEW i \in 1..Len(results'), NEW j \in 1..Len(results'), results'[i].path = results'[j].path
      PROVE  i = j
  <2>0. /\ results \in Seq([inode : Nat, path : Path]) /\ Len(results) \in Nat
        /\ \A k \in 1..Len(results) : results[k].path # q
        /\ \A k, w \in 1..Len(results) : results[k].path = results[w].path => k = w
    <3>1. results \in Seq([inode : Nat, path : Path])
      BY DEF SearchInv, SearchType
    <3>2. \A k, w \in 1..Len(results) : results[k].path = results[w].path => k = w
      BY <1>8 DEF SearchInv, OnceInv
    <3>3. ASSUME NEW k \in 1..Len(results) PROVE results[k].path \in Seen
      BY DEF SearchInv, FoundInv, Visited, Seen
    <3>4. q \notin Seen
      BY <1>1, <1>8
    <3>5. \A k \in 1..Len(results) : results[k].path # q
      BY <3>3, <3>4, Zenon
    <3>6. Len(results) \in Nat
      BY <3>1, LenProperties
    <3>. QED
      BY <3>1, <3>2, <3>5, <3>6, Zenon
  <2>1. CASE results' = results
    BY <1>8, <2>0, <2>1
  <2>2. CASE results' # results
    <3>1. PICK r : r = [inode |-> e.inode, path |-> q]
      OBVIOUS
    <3>2. results' = Append(results, r) /\ r.path = q /\ r \in [inode : Nat, path : Path]
      BY <2>2, <3>1 DEF VisitsAs, DirectoryEntry
    <3>3. /\ Len(results') = Len(results) + 1 /\ results'[Len(results) + 1] = r
          /\ \A k \in 1..Len(results) : results'[k] = results[k]
      BY <2>0, <3>2, AppendProperties
    <3>. QED
      BY <1>8, <2>0, <3>2, <3>3
  <2>. QED
    BY <2>1, <2>2
<1>9. UniqueNames' => UniqueNames
  BY UniqueStays
<1>10. OnceInv'
  BY <1>2, <1>5, <1>6, <1>7, <1>8, <1>9 DEF OnceInv, Passed
<1>. QED
  BY <1>4, <1>10

\* And what is known of the results: one more at most, below the limit, of the entry
\* just visited.
LEMMA VisitFound ==
  ASSUME WalkInv, SearchInv, Visit, NEW m, NEW g, NEW e, NEW q, VisitsAs(m, g, e, q)
  PROVE  SearchType' /\ FoundInv'
<1>1. /\ visited \in Seq([dir : Path, entry : DirectoryEntry]) /\ Len(visited) \in Nat
      /\ results \in Seq([inode : Nat, path : Path]) /\ Len(results) \in Nat
  BY DEF SearchInv, SearchType
<1>2. /\ g.path \in Path /\ e \in DirectoryEntry /\ q \in Path /\ q = Append(g.path, e.name) /\ e.inode \in Nat
      /\ Len(q) = Len(g.path) + 1 /\ q[Len(q)] = e.name
  BY DEF VisitsAs, FrameType, DirectoryEntry
<1>3. PICK v : v = [dir |-> g.path, entry |-> e]
  OBVIOUS
<1>4. v \in [dir : Path, entry : DirectoryEntry] /\ Full(v) = q /\ v.entry = e
  BY <1>2, <1>3 DEF Full
<1>5. /\ visited' = Append(visited, v) /\ visited' \in Seq([dir : Path, entry : DirectoryEntry])
      /\ Len(visited') = Len(visited) + 1
      /\ visited'[Len(visited) + 1] = v /\ \A k \in 1..Len(visited) : visited'[k] = visited[k]
  <2>1. visited' = Append(visited, v)
    BY <1>3 DEF VisitsAs
  <2>. QED
    BY <1>1, <1>4, <2>1, AppendProperties
<1>6. PICK r : r = [inode |-> e.inode, path |-> q]
  OBVIOUS
<1>7. r \in [inode : Nat, path : Path] /\ r.inode = e.inode /\ r.path = q
  BY <1>2, <1>6
<1>8. \/ results' = results
      \/ /\ call.op = "find" /\ matchPattern(e.name, call.pattern)
         /\ results' = Append(results, r) /\ results' \in Seq([inode : Nat, path : Path])
         /\ Len(results') = Len(results) + 1
         /\ results'[Len(results) + 1] = r /\ \A k \in 1..Len(results) : results'[k] = results[k]
  <2>1. CASE results' # results
    <3>1. results' = Append(results, r) /\ call.op = "find" /\ matchPattern(e.name, call.pattern)
      BY <1>6, <2>1 DEF VisitsAs
    <3>. QED
      BY <1>1, <1>7, <3>1, AppendProperties
  <2>. QED
    BY <2>1
<1>9. /\ call # NoCall /\ call' # NoCall /\ call' \in CallType /\ call'.op = call.op /\ call'.op # "none"
      /\ call'.pattern = call.pattern /\ call'.max = call.max
  <2>1. call # NoCall
    BY DEF Visit, InLoop
  <2>2. call'.op # "none" /\ NoCall.op = "none" /\ call'.op = call.op
    BY <2>1 DEF SearchInv, SearchType, VisitsAs, NoCall
  <2>3. call' # NoCall
    BY <2>2
  <2>. QED
    BY <2>1, <2>2, <2>3 DEF VisitsAs
<1>10. Asked = call /\ Asked' = call'
  BY <1>9 DEF Asked
<1>11. SearchType'
  <2>1. stack' # <<>>
    <3>1. m \in Nat \ {0} /\ Len(stack') = m
      BY DEF VisitsAs
    <3>. QED
      BY <3>1
  <2>2. last' \in CallType
    BY DEF Visit, SearchInv, SearchType
  <2>3. results' \in Seq([inode : Nat, path : Path])
    BY <1>1, <1>8
  <2>. QED
    BY <1>5, <1>9, <2>1, <2>2, <2>3 DEF SearchType
<1>12. ASSUME NEW w, \E k \in 1..Len(visited) : visited[k].entry.inode = w.inode /\ Full(visited[k]) = w.path
       PROVE  \E k \in 1..Len(visited') : visited'[k].entry.inode = w.inode /\ Append(visited'[k].dir, visited'[k].entry.name) = w.path
  <2>1. PICK k \in 1..Len(visited) : visited[k].entry.inode = w.inode /\ Full(visited[k]) = w.path
    BY <1>12
  <2>2. k \in 1..Len(visited') /\ visited'[k] = visited[k]
    BY <1>1, <1>5
  <2>. QED
    BY <2>1, <2>2 DEF Full
<1>13. \E k \in 1..Len(visited') : visited'[k].entry.inode = r.inode /\ Append(visited'[k].dir, visited'[k].entry.name) = r.path
  <2>1. Len(visited) + 1 \in 1..Len(visited')
    BY <1>1, <1>5
  <2>. QED
    BY <1>4, <1>5, <1>7, <2>1 DEF Full
<1>14. ASSUME NEW i \in 1..Len(results')
       PROVE  \/ i \in 1..Len(results) /\ results'[i] = results[i]
              \/ results'[i] = r /\ matchPattern(e.name, call.pattern)
  BY <1>1, <1>8
<1>15. ASSUME NEW i \in 1..Len(results')
       PROVE  \E k \in 1..Len(visited') :
                visited'[k].entry.inode = results'[i].inode /\ Append(visited'[k].dir, visited'[k].entry.name) = results'[i].path
  <2>1. CASE i \in 1..Len(results) /\ results'[i] = results[i]
    <3>1. Visited(results[i])
      BY <2>1 DEF SearchInv, FoundInv
    <3>. QED
      BY <1>12, <2>1, <3>1 DEF Visited
  <2>2. CASE results'[i] = r
    BY <1>13, <2>2
  <2>. QED
    BY <1>14, <2>1, <2>2
<1>16. ASSUME call.op = "find", NEW i \in 1..Len(results') PROVE matchPattern(Last(results'[i].path), call.pattern)
  <2>1. CASE i \in 1..Len(results) /\ results'[i] = results[i]
    BY <1>10, <1>16, <2>1 DEF SearchInv, FoundInv
  <2>2. CASE results'[i] = r /\ matchPattern(e.name, call.pattern)
    <3>1. Last(results'[i].path) = e.name
      BY <1>2, <1>7, <2>2 DEF Last
    <3>. QED
      BY <2>2, <3>1
  <2>. QED
    BY <1>14, <2>1, <2>2
<1>17. ASSUME call.op = "find" PROVE Len(results') <= call.max
  <2>1. ~(Len(results) >= call.max) /\ call.max \in Nat
    BY <1>17 DEF VisitsAs, LimitReached, WalkInv, WalkType, CallType
  <2>. QED
    BY <1>1, <1>8, <2>1
<1>18. FoundInv'
  BY <1>9, <1>10, <1>15, <1>16, <1>17 DEF FoundInv, Visited, Full
<1>. QED
  BY <1>11, <1>18

\* A walk has just been asked for, or none is going on.
LEMMA NothingSeen ==
  ASSUME visited' = <<>>, results' = <<>>, stack' = <<>>, call' \in CallType, last' \in CallType, call'.sub = <<>>,
         call' = NoCall \/ call'.op # "none"
  PROVE  SearchInv'
<1>1. Len(visited') = 0 /\ Len(results') = 0 /\ Len(stack') = 0
  OBVIOUS
<1>2. Seen' = {}
  BY <1>1 DEF Seen
<1>3. SearchType'
  BY DEF SearchType
<1>4. FoundInv'
  <2>1. Asked' \in CallType
    BY DEF Asked
  <2>2. Asked'.max \in Nat
    BY <2>1 DEF CallType
  <2>. QED
    BY <1>1, <2>2 DEF FoundInv
<1>5. PathsInv' /\ OnceInv'
  BY <1>1, <1>2 DEF PathsInv, OnceInv
<1>. QED
  BY <1>3, <1>4, <1>5 DEF SearchInv

\* What has been seen and found stays when nothing is added.
LEMMA SameFound ==
  ASSUME SearchInv, visited' = visited, results' = results,
         Asked'.op = Asked.op, Asked'.pattern = Asked.pattern, Asked'.max = Asked.max
  PROVE  FoundInv' /\ Seen' = Seen
<1>1. Seen' = Seen
  BY DEF Seen, Full
<1>2. ASSUME NEW i \in 1..Len(results) PROVE Visited(results[i])
  BY DEF SearchInv, FoundInv
<1>3. FoundInv'
  BY <1>2 DEF SearchInv, FoundInv, Visited, Full
<1>. QED
  BY <1>1, <1>3

\* When a walk returns, what it saw and found stays.
LEMMA WalkReturns ==
  ASSUME WalkInv, SearchInv, StillThere, NEW r, Return(r), call # NoCall, visited' = visited, results' = results
  PROVE  SearchInv'
<1>1. stack' = <<>> /\ call' = NoCall /\ last' = call /\ Len(stack') = 0
  BY DEF Return
<1>2. Asked' = Asked
  BY <1>1 DEF Asked
<1>3. FoundInv' /\ Seen' = Seen
  BY <1>2, SameFound
<1>4. SearchType'
  BY <1>1 DEF SearchInv, SearchType, WalkInv, WalkType
<1>5. NoCall.sub = <<>>
  BY DEF NoCall
<1>6. PathsInv'
  BY <1>1, <1>5 DEF PathsInv
<1>7. OnceInv'
  BY <1>1, <1>5, UniqueStays DEF SearchInv, OnceInv
<1>. QED
  BY <1>3, <1>4, <1>6, <1>7 DEF SearchInv

\* A directory is entered before anything beneath it has been seen.
LEMMA SearchEnters ==
  ASSUME WalkInv, SearchInv, UNCHANGED <<vol, broken, visited, results>>, call # NoCall, NEW path, Enter(path),
         \/ stack = <<>> /\ path = <<>>
         \/ stack # <<>> /\ call.sub # <<>> /\ path = call.sub
  PROVE  SearchInv'
<1> DEFINE m == Len(stack)
<1>0. StillThere /\ vol \in Volumes /\ m \in Nat /\ stack \in Seq(FrameType) /\ call \in CallType
  BY DEF StillThere, WalkInv, WalkType
<1>1. path \in Path
  BY <1>0 DEF Path, CallType
<1>2. PICK list : list = ListDirectory(path) /\ Entered(path, list)
  BY DEF Enter
<1>3. CASE ~list.ok
  <2>1. Return(list)
    BY <1>2, <1>3 DEF Entered
  <2>. QED
    BY <1>0, <2>1, WalkReturns
<1>4. CASE list.ok
  <2>1. PICK f : f = Frame(path, list.val)
    OBVIOUS
  <2>2. stack' = Append(stack, f) /\ call' = [call EXCEPT !.sub = <<>>] /\ last' = last
    BY <1>2, <1>4, <2>1 DEF Entered
  <2>3. f \in FrameType /\ f.path = path /\ f.next = 1 /\ (UniqueNames => Distinct(f.entries))
    <3>1. f \in FrameType /\ f.path = path /\ f.next = 1 /\ listDirectoryContents(f.dir).ok
      BY <1>0, <1>1, <1>2, <1>4, <2>1, NewFrame
    <3>2. f.entries = listDirectoryContents(f.dir).val
      <4>1. PICK r : r = getInodeByPath(path)
        OBVIOUS
      <4>2. PICK l : l = listDirectoryContents(r.val)
        OBVIOUS
      <4>3. list = IF ~r.ok THEN r ELSE IF ~l.ok THEN l ELSE Ok([dir |-> r.val, entries |-> l.val])
        BY <1>2, <4>1, <4>2, ListDirectoryIs
      <4>4. list.val.dir = r.val /\ list.val.entries = l.val
        BY <1>4, <4>3 DEF Ok
      <4>5. f.dir = r.val /\ f.entries = l.val
        BY <2>1, <4>4 DEF Frame
      <4>. QED
        BY <4>2, <4>5
    <3>3. UniqueNames => Distinct(f.entries)
      BY <1>0, <3>1, <3>2, ListingIs
    <3>. QED
      BY <3>1, <3>3
  <2>4. /\ Len(stack') = m + 1 /\ stack'[m + 1] = f
        /\ \A k \in 1..m : stack'[k] = stack[k]
    BY <1>0, <2>2, <2>3, AppendProperties
  <2>5. /\ call' \in CallType /\ call'.sub = <<>> /\ call'.op = call.op /\ call'.pattern = call.pattern
        /\ call'.max = call.max /\ call'.op # "none" /\ call' # NoCall
    <3>1. <<>> \in Path
      BY DEF Path
    <3>2. \A c \in CallType :
            /\ [c EXCEPT !.sub = <<>>] \in CallType /\ [c EXCEPT !.sub = <<>>].sub = <<>>
            /\ [c EXCEPT !.sub = <<>>].op = c.op /\ [c EXCEPT !.sub = <<>>].pattern = c.pattern
            /\ [c EXCEPT !.sub = <<>>].max = c.max
      BY <3>1 DEF CallType
    <3>3. call.op # "none" /\ NoCall.op = "none"
      BY DEF SearchInv, SearchType, NoCall
    <3>. QED
      BY <1>0, <2>2, <3>2, <3>3
  <2>6. Asked = call /\ Asked' = call'
    BY <2>5 DEF Asked
  <2>7. FoundInv' /\ Seen' = Seen
    BY <2>5, <2>6, SameFound
  <2> HIDE DEF m
  <2>8. Len(path) = m
    <3>1. CASE stack = <<>>
      BY <3>1 DEF m
    <3>2. CASE stack # <<>>
      <4>1. PICK g : g = stack[m] /\ g \in FrameType
        BY <1>0, <3>2, ElementOfSeq, EmptySeq DEF m
      <4>2. path = Append(g.path, Began(g).name) /\ Len(g.path) = m - 1
        <5>1. m \in 1..m
          BY <1>0, <3>2, EmptySeq DEF m
        <5>. QED
          BY <3>2, <4>1, <5>1 DEF WalkInv, Nested, SearchInv, PathsInv, m
      <4>3. g.path \in Seq(Seq(STRING))
        BY <4>1 DEF FrameType, Path
      <4>. QED
        BY <1>0, <4>2, <4>3
    <3>. QED
      BY <3>1, <3>2
  <2>9. SearchType'
    <3>1. stack' # <<>>
      BY <1>0, <2>4
    <3>. QED
      BY <2>2, <2>5, <3>1 DEF SearchInv, SearchType
  <2>10. m # 0 => path \in Seen
    BY DEF SearchInv, PathsInv, m
  <2>11. PathsInv'
    <3>1. ASSUME NEW k \in 1..(m + 1)
          PROVE  Len(stack'[k].path) = k - 1 /\ (k # 1 => stack'[k].path \in Seen')
      <4>1. CASE k \in 1..m
        BY <2>4, <2>7, <4>1 DEF SearchInv, PathsInv, m
      <4>2. CASE k = m + 1
        BY <1>0, <2>3, <2>4, <2>7, <2>8, <2>10, <4>2
      <4>. QED
        BY <1>0, <4>1, <4>2
    <3>. QED
      BY <2>4, <2>5, <3>1 DEF PathsInv
  <2>12. ASSUME UniqueNames, NEW p \in Seen, Beneath(path, p) PROVE FALSE
    <3>1. CASE stack = <<>>
      <4>1. visited = <<>> /\ Len(visited) = 0
        BY <3>1 DEF SearchInv, SearchType
      <4>. QED
        BY <4>1 DEF Seen
    <3>2. CASE stack # <<>>
      BY <2>12, <3>2 DEF SearchInv, OnceInv
    <3>. QED
      BY <3>1, <3>2
  <2>13. OnceInv'
    <3>1. UniqueNames' => UniqueNames
      BY <1>0, UniqueStays
    <3>2. ASSUME UniqueNames, NEW k \in 1..(m + 1) PROVE Distinct(stack'[k].entries)
      <4>1. CASE k \in 1..m
        BY <2>4, <3>2, <4>1 DEF SearchInv, OnceInv, m
      <4>2. CASE k = m + 1
        BY <2>3, <2>4, <3>2, <4>2
      <4>. QED
        BY <1>0, <4>1, <4>2
    <3>3. ASSUME UniqueNames, NEW k \in 1..(m + 1), NEW p \in Seen, Beneath(stack'[k].path, p)
          PROVE  \E j \in 1..(stack'[k].next - 1) : stack'[k].entries[j].name = p[k]
      <4>1. CASE k \in 1..m
        <5>1. stack'[k] = stack[k]
          BY <2>4, <4>1
        <5>2. Passed(k, p)
          BY <3>3, <4>1, <5>1 DEF SearchInv, OnceInv, m
        <5>. QED
          BY <5>1, <5>2 DEF Passed
      <4>2. CASE k = m + 1
        BY <2>3, <2>4, <2>12, <3>3, <4>2
      <4>. QED
        BY <1>0, <4>1, <4>2
    <3>4. ASSUME UniqueNames PROVE \A i, j \in 1..Len(results') : results'[i].path = results'[j].path => i = j
      BY <3>4 DEF SearchInv, OnceInv
    <3>. QED
      BY <2>4, <2>5, <2>7, <3>1, <3>2, <3>3, <3>4 DEF OnceInv, Passed
  <2>. QED
    BY <2>7, <2>9, <2>11, <2>13 DEF SearchInv
<1>. QED
  BY <1>3, <1>4

\* A directory is left with all its entries passed.
LEMMA SearchLeaves ==
  ASSUME WalkInv, SearchInv, Leave
  PROVE  SearchInv'
<1> DEFINE m == Len(stack)
<1>0. /\ StillThere /\ vol \in Volumes /\ m \in Nat /\ stack \in Seq(FrameType) /\ call # NoCall
      /\ stack # <<>> /\ call.sub = <<>> /\ visited' = visited /\ results' = results
  BY DEF StillThere, WalkInv, WalkType, Leave, InLoop
<1>1. m # 0
  BY <1>0, EmptySeq
<1>2. CASE m = 1
  BY <1>0, <1>2, WalkReturns DEF Leave
<1>3. CASE m # 1
  <2>1. stack' = Front(stack) /\ call' = call /\ last' = last
    BY <1>3 DEF Leave
  <2>2. Len(stack') = m - 1 /\ \A k \in 1..(m - 1) : k \in 1..m /\ stack'[k] = stack[k]
    <3>1. m - 1 \in Nat /\ \A k \in 1..(m - 1) : k \in 1..m
      BY <1>0, <1>1
    <3>2. \A k \in 1..(m - 1) : stack[k] \in FrameType
      BY <1>0, <3>1, ElementOfSeq
    <3> HIDE DEF m
    <3>3. /\ SubSeq(stack, 1, m - 1) \in Seq(FrameType) /\ Len(SubSeq(stack, 1, m - 1)) = m - 1
          /\ \A k \in 1..(m - 1) : SubSeq(stack, 1, m - 1)[k] = stack[k]
      BY <3>1, <3>2, SubSeqProperties, Z3
    <3>. QED
      BY <2>1, <3>1, <3>3 DEF Front, m
  <2> HIDE DEF m
  <2>3. Asked' = Asked
    BY <2>1 DEF Asked
  <2>4. FoundInv' /\ Seen' = Seen
    BY <1>0, <2>3, SameFound
  <2>5. SearchType'
    <3>1. stack' # <<>>
      BY <1>0, <1>1, <1>3, <2>2
    <3>. QED
      BY <1>0, <2>1, <3>1 DEF SearchInv, SearchType
  <2>6. PathsInv'
    BY <1>0, <2>1, <2>2, <2>4 DEF SearchInv, PathsInv, m
  <2>7. OnceInv'
    <3>1. UniqueNames' => UniqueNames
      BY <1>0, UniqueStays
    <3>2. ASSUME UniqueNames, NEW k \in 1..(m - 1)
          PROVE  /\ Distinct(stack'[k].entries)
                 /\ \A p \in Seen : Beneath(stack'[k].path, p) =>
                      \E j \in 1..(stack'[k].next - 1) : stack'[k].entries[j].name = p[k]
      BY <2>2, <3>2 DEF SearchInv, OnceInv, Passed, m
    <3>3. ASSUME UniqueNames PROVE \A i, j \in 1..Len(results') : results'[i].path = results'[j].path => i = j
      BY <1>0, <3>3 DEF SearchInv, OnceInv
    <3>. QED
      BY <1>0, <2>1, <2>2, <2>4, <3>1, <3>2, <3>3 DEF OnceInv, Passed
  <2>. QED
    BY <2>4, <2>5, <2>6, <2>7 DEF SearchInv
<1>. QED
  BY <1>2, <1>3

\* Steps that leave walk and results alone keep what is known of them.
LEMMA SameSearch ==
  ASSUME WalkInv, SearchInv, StillThere, UNCHANGED <<call, stack, visited, results, last>>
  PROVE  SearchInv'
<1>1. Asked' = Asked
  BY DEF Asked
<1>2. FoundInv' /\ Seen' = Seen
  BY <1>1, SameFound
<1>3. SearchType'
  BY DEF SearchInv, SearchType
<1>4. PathsInv'
  BY <1>2 DEF SearchInv, PathsInv
<1>5. OnceInv'
  BY <1>2, UniqueStays DEF SearchInv, OnceInv, Passed
<1>. QED
  BY <1>2, <1>3, <1>4, <1>5 DEF SearchInv

\* Nothing has been seen at first.
LEMMA SearchStarts == Init => SearchInv
<1> SUFFICES ASSUME Init PROVE SearchInv
  OBVIOUS
<1>1. /\ visited = <<>> /\ results = <<>> /\ stack = <<>> /\ call = NoCall /\ last = NoCall
      /\ Len(visited) = 0 /\ Len(results) = 0 /\ Len(stack) = 0
  BY DEF Init
<1>2. NoCall \in CallType /\ NoCall.sub = <<>> /\ NoCall.max \in Nat
  <2>1. <<>> \in Path
    BY DEF Path
  <2>. QED
    BY <2>1 DEF NoCall, CallType
<1>3. Seen = {}
  BY <1>1 DEF Seen
<1>4. SearchType
  BY <1>1, <1>2 DEF SearchType
<1>5. FoundInv
  BY <1>1, <1>2 DEF FoundInv, Asked
<1>6. PathsInv /\ OnceInv
  BY <1>1, <1>2, <1>3 DEF PathsInv, OnceInv
<1>. QED
  BY <1>4, <1>5, <1>6 DEF SearchInv

\* The invariant of searches is inductive, given that of walks.
LEMMA SearchSteps == WalkInv /\ SearchInv /\ [Next]_vars => SearchInv'
<1> SUFFICES ASSUME WalkInv, SearchInv, [Next]_vars PROVE SearchInv'
  OBVIOUS
<1>0. <<>> \in Path /\ NoCall \in CallType /\ NoCall.sub = <<>> /\ last \in CallType
  <2>1. <<>> \in Path
    BY DEF Path
  <2>. QED
    BY <2>1 DEF NoCall, CallType, SearchInv, SearchType
<1>1. ASSUME NEW c, StartWalk(c), c \in CallType, c.sub = <<>>, c.op # "none" PROVE SearchInv'
  BY <1>0, <1>1, NothingSeen DEF StartWalk
<1>2. ASSUME NEW r, Answer(r) PROVE SearchInv'
  <2>1. call' = NoCall /\ stack' = <<>>
    BY <1>2 DEF Answer, SearchInv, SearchType
  <2>. QED
    BY <1>0, <1>2, <2>1, NothingSeen DEF Answer
<1>3. CASE WalkTree
  <2>1. \A c \in CallType : LET d == [c EXCEPT !.op = "walk"] IN
          d \in CallType /\ d.sub = c.sub /\ d.op = "walk"
    BY DEF CallType
  <2>. QED
    BY <1>0, <1>1, <1>3, <2>1 DEF WalkTree
<1>4. CASE FindFilesByName
  <2>1. PICK p \in Patterns, max \in MaxResults :
          StartWalk([op |-> "find", pattern |-> p, max |-> max, sub |-> <<>>])
    BY <1>4 DEF FindFilesByName
  <2>2. p \in Seq(STRING) /\ max \in Nat
    BY TreeAssumption
  <2> DEFINE c == [op |-> "find", pattern |-> p, max |-> max, sub |-> <<>>]
  <2>3. c \in CallType /\ c.sub = <<>> /\ c.op # "none"
    BY <1>0, <2>2 DEF CallType
  <2>. QED
    BY <1>1, <2>1, <2>3
<1>5. CASE EnterRoot
  BY <1>5, SearchEnters DEF EnterRoot
<1>6. CASE Descend
  <2>1. stack # <<>>
    BY <1>6 DEF Descend, WalkInv, Nested
  <2>2. call # NoCall
    BY <1>0, <1>6 DEF Descend
  <2>. QED
    BY <1>6, <2>1, <2>2, SearchEnters DEF Descend
<1>7. CASE Visit
  <2>1. PICK m, g, e, q : VisitsAs(m, g, e, q)
    BY <1>7, VisitIs
  <2>2. StillThere
    BY <1>7 DEF Visit, StillThere, WalkInv, WalkType
  <2>3. PathsInv' /\ OnceInv'
    BY <2>1, <2>2, VisitOnce
  <2>4. SearchType' /\ FoundInv'
    BY <1>7, <2>1, VisitFound
  <2>. QED
    BY <2>3, <2>4 DEF SearchInv
<1>8. CASE CallbackFails
  <2>1. /\ call # NoCall /\ visited' = visited /\ results' = results
        /\ Return(IF call.op = "find" THEN Ok(results) ELSE Err("callback"))
    BY <1>8 DEF CallbackFails, InLoop
  <2>2. StillThere
    BY <1>8 DEF CallbackFails, StillThere, WalkInv, WalkType
  <2>. QED
    BY <2>1, <2>2, WalkReturns
<1>9. CASE Leave
  BY <1>9, SearchLeaves
<1>10. CASE PathCall
  BY <1>2, <1>10 DEF PathCall
<1>11. CASE InodeCall
  BY <1>2, <1>11 DEF InodeCall
<1>12. CASE Breaks
  <2>1. StillThere /\ UNCHANGED <<call, stack, visited, results, last>>
    BY <1>12 DEF Breaks, StillThere, walkVars
  <2>. QED
    BY <2>1, SameSearch
<1>13. CASE UNCHANGED vars
  <2>1. StillThere /\ UNCHANGED <<call, stack, visited, results, last>>
    BY <1>13 DEF StillThere, vars, walkVars
  <2>. QED
    BY <2>1, SameSearch
<1>. QED
  BY <1>3, <1>4, <1>5, <1>6, <1>7, <1>8, <1>9, <1>10, <1>11, <1>12, <1>13 DEF Next, WalkStep

\* What a prefix and a suffix are.
LEMMA PrefixIs ==
  ASSUME NEW s \in Seq(STRING), NEW t \in Seq(STRING), IsPrefix(s, t)
  PROVE  Len(s) <= Len(t) /\ SubSeq(t, 1, Len(s)) = s
BY SubSeqFull DEF IsPrefix

\* And what a suffix is.
LEMMA SuffixIs ==
  ASSUME NEW s \in Seq(STRING), NEW t \in Seq(STRING), IsSuffix(s, t)
  PROVE  Len(s) <= Len(t) /\ SubSeq(t, Len(t) - Len(s) + 1, Len(t)) = s
<1> DEFINE a == Len(s)
           b == Len(t)
<1>0. a \in Nat /\ b \in Nat
  OBVIOUS
<1>1. /\ Reverse(s) \in Seq(STRING) /\ Len(Reverse(s)) = a
      /\ \A j \in 1..a : Reverse(s)[j] = s[(a - j) + 1]
  BY DEF Reverse
<1>2. /\ Reverse(t) \in Seq(STRING) /\ Len(Reverse(t)) = b
      /\ \A j \in 1..b : Reverse(t)[j] = t[(b - j) + 1]
  BY DEF Reverse
<1>3. a <= b /\ SubSeq(Reverse(t), 1, a) = Reverse(s)
  BY <1>1, <1>2, PrefixIs DEF IsSuffix
<1> DEFINE u == SubSeq(t, (b - a) + 1, b)
<1>4. \A i \in ((b - a) + 1)..b : t[i] \in STRING
  BY <1>0, <1>3, ElementOfSeq
<1>5. /\ u \in Seq(STRING) /\ Len(u) = a
      /\ \A i \in 1..a : u[i] = t[(b - a) + i]
  <2>1. /\ u \in Seq(STRING)
        /\ Len(u) = IF (b - a) + 1 <= b THEN (b - ((b - a) + 1)) + 1 ELSE 0
        /\ \A i \in 1..((b - ((b - a) + 1)) + 1) : u[i] = t[(((b - a) + 1) + i) - 1]
    BY <1>0, <1>4, SubSeqProperties
  <2> HIDE DEF u, a, b
  <2>2. (b - ((b - a) + 1)) + 1 = a /\ ((b - a) + 1 <= b <=> a # 0)
    BY <1>0, <1>3
  <2>3. \A i \in 1..a : (((b - a) + 1) + i) - 1 = (b - a) + i
    BY <1>0, <1>3
  <2>. QED
    BY <2>1, <2>2, <2>3
<1>6. ASSUME NEW i \in 1..a PROVE s[i] = t[(b - a) + i]
  <2> DEFINE j == (a - i) + 1
  <2>1. j \in 1..a /\ j \in 1..b /\ (a - j) + 1 = i /\ (b - j) + 1 = (b - a) + i
    BY <1>0, <1>3
  <2>2. SubSeq(Reverse(t), 1, a)[j] = Reverse(t)[j]
    <3>1. \A k \in 1..a : Reverse(t)[k] \in STRING
      BY <1>0, <1>2, <1>3, ElementOfSeq
    <3>2. \A k \in 1..((a - 1) + 1) : SubSeq(Reverse(t), 1, a)[k] = Reverse(t)[(1 + k) - 1]
      BY <1>0, <3>1, SubSeqProperties
    <3> HIDE DEF a, b
    <3>3. j \in 1..((a - 1) + 1) /\ (1 + j) - 1 = j
      BY <1>0, <2>1
    <3>. QED
      BY <3>2, <3>3
  <2>3. Reverse(s)[j] = s[i] /\ Reverse(t)[j] = t[(b - a) + i]
    BY <1>1, <1>2, <2>1
  <2>. QED
    BY <1>3, <2>2, <2>3
<1>7. u = s
  BY <1>5, <1>6, SeqEqual
<1>. QED
  BY <1>3, <1>7

\* A pattern without a star that counts has no star, if it has at most one.
LEMMA NoStar ==
  ASSUME NEW p \in Seq(STRING), Cardinality(Stars(p)) <= 1, ~\E i \in Stars(p) : Stars(p) = {i}
  PROVE  Stars(p) = {}
<1>1. IsFiniteSet(1..Len(p)) /\ Stars(p) \in SUBSET (1..Len(p))
  BY FS_Interval DEF Stars
<1>2. IsFiniteSet(Stars(p))
  BY <1>1, FS_Subset
<1>3. Cardinality(Stars(p)) \in Nat /\ Cardinality(Stars(p)) # 1
  BY <1>2, FS_CardinalityType, FS_Singleton
<1>4. Cardinality(Stars(p)) = 0
  BY <1>3
<1>. QED
  BY <1>2, <1>4, FS_EmptySet

\* A name matchPattern accepts is one the pattern stands for, unless prefix and
\* suffix may overlap in it.
LEMMA GlobIs ==
  ASSUME NEW name \in Seq(STRING), NEW p \in Seq(STRING), matchPattern(name, p),
         Cardinality(Stars(p)) <= 1, Len(name) + 1 >= Len(p)
  PROVE  Glob(name, p)
<1>0. Len(name) \in Nat /\ Len(p) \in Nat
  OBVIOUS
<1>1. ASSUME NEW f \in 0..Len(name), NEW t \in 0..Len(name), NEW i \in 1..Len(p), f <= t, Stars(p) = {i},
             SubSeq(name, 1, f) = SubSeq(p, 1, i - 1),
             SubSeq(name, t + 1, Len(name)) = SubSeq(p, i + 1, Len(p))
      PROVE  Glob(name, p)
  <2>1. i \in 0..Len(p) /\ i # 0
    OBVIOUS
  <2>. QED
    BY <1>1, <2>1 DEF Glob
<1>2. CASE p = <<"*">>
  <2>1. Len(p) = 1 /\ p[1] = "*"
    BY <1>2
  <2>2. Stars(p) = {1}
    BY <2>1 DEF Stars
  <2>3. SubSeq(name, 1, 0) = <<>> /\ SubSeq(p, 1, 0) = <<>>
    BY SubSeqEmpty
  <2>4. SubSeq(name, Len(name) + 1, Len(name)) = <<>> /\ SubSeq(p, 2, 1) = <<>>
    BY <1>0, SubSeqEmpty
  <2>5. 1 \in 1..Len(p) /\ 0 \in 0..Len(name) /\ Len(name) \in 0..Len(name) /\ 0 <= Len(name) /\ 1 - 1 = 0 /\ 1 + 1 = 2
    BY <1>0, <2>1
  <2>6. SubSeq(name, 1, 0) = SubSeq(p, 1, 1 - 1) /\ SubSeq(name, Len(name) + 1, Len(name)) = SubSeq(p, 1 + 1, Len(p))
    BY <2>1, <2>3, <2>4, <2>5
  <2>. QED
    BY <1>1, <2>2, <2>5, <2>6
<1>3. CASE \E i \in Stars(p) :
             /\ Stars(p) = {i}
             /\ IsPrefix(SubSeq(p, 1, i - 1), name)
             /\ IsSuffix(SubSeq(p, i + 1, Len(p)), name)
  <2>1. PICK i \in Stars(p) :
             /\ Stars(p) = {i}
             /\ IsPrefix(SubSeq(p, 1, i - 1), name)
             /\ IsSuffix(SubSeq(p, i + 1, Len(p)), name)
    BY <1>3
  <2>2. i \in 1..Len(p)
    BY DEF Stars
  <2> DEFINE pre == SubSeq(p, 1, i - 1)
             suf == SubSeq(p, i + 1, Len(p))
             t == (Len(name) - (Len(p) - i))
  <2>3. pre \in Seq(STRING) /\ Len(pre) = i - 1
    <3>1. \A k \in 1..(i - 1) : p[k] \in STRING
      BY <1>0, <2>2, ElementOfSeq
    <3>2. pre \in Seq(STRING) /\ Len(pre) = IF 1 <= i - 1 THEN ((i - 1) - 1) + 1 ELSE 0
      BY <2>2, <3>1, SubSeqProperties
    <3>. QED
      BY <2>2, <3>2
  <2>4. suf \in Seq(STRING) /\ Len(suf) = Len(p) - i
    <3>1. \A k \in (i + 1)..Len(p) : p[k] \in STRING
      BY <1>0, <2>2, ElementOfSeq
    <3>2. suf \in Seq(STRING) /\ Len(suf) = IF i + 1 <= Len(p) THEN (Len(p) - (i + 1)) + 1 ELSE 0
      BY <1>0, <2>2, <3>1, SubSeqProperties
    <3>. QED
      BY <1>0, <2>2, <3>2
  <2>5. Len(pre) <= Len(name) /\ SubSeq(name, 1, Len(pre)) = pre
    BY <2>1, <2>3, PrefixIs
  <2>6. Len(suf) <= Len(name) /\ SubSeq(name, Len(name) - Len(suf) + 1, Len(name)) = suf
    BY <2>1, <2>4, SuffixIs
  <2> HIDE DEF pre, suf
  <2>7. i - 1 \in 0..Len(name) /\ t \in 0..Len(name) /\ i - 1 <= t /\ Len(name) - Len(suf) + 1 = t + 1
    BY <1>0, <2>2, <2>3, <2>4, <2>5, <2>6
  <2>8. SubSeq(name, 1, i - 1) = SubSeq(p, 1, i - 1)
    BY <2>3, <2>5 DEF pre
  <2>9. SubSeq(name, t + 1, Len(name)) = SubSeq(p, i + 1, Len(p))
    BY <2>6, <2>7 DEF suf
  <2> HIDE DEF t
  <2>. QED
    BY <1>1, <2>1, <2>2, <2>7, <2>8, <2>9
<1>4. CASE name = p /\ ~\E i \in Stars(p) : Stars(p) = {i}
  <2>1. Stars(p) = {}
    BY <1>4, NoStar
  <2>2. 0 \in 0..Len(name) /\ 0 \in 0..Len(p) /\ 0 <= 0
    BY <1>0
  <2>. QED
    BY <1>4, <2>1, <2>2 DEF Glob
<1>. QED
  BY <1>2, <1>3, <1>4 DEF matchPattern

\* A search returns no more than its limit, nothing twice, and only entries it
\* visited whose names the pattern stands for, whatever fails while it walks and
\* however the volume is damaged (963-985, 1101-1121).
THEOREM SearchIsSound == Spec => []FindSound
<1>1. ASSUME WalkInv, SearchInv PROVE FindSound
  <2>0. Asked \in CallType
    BY <1>1 DEF Asked, WalkInv, WalkType, SearchInv, SearchType
  <2> SUFFICES ASSUME Asked.op = "find"
               PROVE  /\ Len(results) <= Asked.max
                      /\ UniqueNames => \A i, j \in 1..Len(results) : results[i] = results[j] => i = j
                      /\ \A i \in 1..Len(results) :
                           /\ Cardinality(Stars(Asked.pattern)) <= 1
                                /\ Len(Last(results[i].path)) + 1 >= Len(Asked.pattern)
                                => Glob(Last(results[i].path), Asked.pattern)
                           /\ \E k \in 1..Len(visited) :
                                /\ visited[k].entry.inode = results[i].inode
                                /\ Append(visited[k].dir, visited[k].entry.name) = results[i].path
    BY DEF FindSound, Asked
  <2>1. Len(results) <= Asked.max
    BY <1>1 DEF SearchInv, FoundInv
  <2>2. UniqueNames => \A i, j \in 1..Len(results) : results[i] = results[j] => i = j
    BY <1>1 DEF SearchInv, OnceInv
  <2>3. ASSUME NEW i \in 1..Len(results)
        PROVE  /\ matchPattern(Last(results[i].path), Asked.pattern)
               /\ Last(results[i].path) \in Seq(STRING)
               /\ \E k \in 1..Len(visited) :
                    /\ visited[k].entry.inode = results[i].inode
                    /\ Append(visited[k].dir, visited[k].entry.name) = results[i].path
    <3>1. PICK k \in 1..Len(visited) : visited[k].entry.inode = results[i].inode /\ Full(visited[k]) = results[i].path
      BY <1>1 DEF SearchInv, FoundInv, Visited
    <3>2. visited[k] \in [dir : Path, entry : DirectoryEntry]
      BY <1>1, ElementOfSeq DEF SearchInv, SearchType
    <3>3. PICK d, e : d = visited[k].dir /\ e = visited[k].entry.name /\ d \in Seq(Seq(STRING)) /\ e \in Seq(STRING)
      BY <3>2 DEF DirectoryEntry, Path
    <3>4. results[i].path = Append(d, e) /\ Last(Append(d, e)) = e
      <4>1. Len(Append(d, e)) = Len(d) + 1 /\ Append(d, e)[Len(d) + 1] = e
        BY <3>3, AppendProperties
      <4>. QED
        BY <3>1, <3>3, <4>1 DEF Full, Last
    <3>. QED
      BY <1>1, <3>1, <3>3, <3>4 DEF SearchInv, FoundInv, Full
  <2>4. Asked.pattern \in Seq(STRING)
    BY <2>0 DEF CallType
  <2>. QED
    BY <2>1, <2>2, <2>3, <2>4, GlobIs
<1>. QED
  BY <1>1, WalkStarts, WalkSteps, SearchStarts, SearchSteps, PTL DEF Spec

-----------------------------------------------------------------------------
(* A search that succeeds has missed nothing.                              *)

\* The trees do not change, whatever can still be read of them.
GenerationsSpelledOut ==
  /\ \A oid : DOMAIN Generations(oid) = 0..Depth /\ Generations(oid)[0] = {oid}
  /\ \A oid : \A k \in 1..Depth : \A S : S = Generations(oid)[k - 1] => Generations(oid)[k] = Children(S)

\* The generations one after the other, as state predicates so that they may be primed.
LEMMA GenerationsSpelled == vol \in Volumes => GenerationsSpelledOut
<1> SUFFICES ASSUME vol \in Volumes PROVE GenerationsSpelledOut
  OBVIOUS
<1>1. ASSUME NEW oid
      PROVE  /\ DOMAIN Generations(oid) = 0..Depth /\ Generations(oid)[0] = {oid}
             /\ \A k \in 1..Depth : Generations(oid)[k] = Children(Generations(oid)[k - 1])
  BY GenerationsAre DEF GenerationsIs
<1>2. ASSUME NEW oid, NEW k \in 1..Depth, NEW S, S = Generations(oid)[k - 1] PROVE Generations(oid)[k] = Children(S)
  BY <1>1, <1>2
<1>. QED
  BY <1>1, <1>2 DEF GenerationsSpelledOut

\* And after a step.
LEMMA GenerationsSpelledNext == (vol \in Volumes)' => GenerationsSpelledOut'
  BY GenerationsSpelled, PTL

\* Blocks that fail take nothing out of a tree, only out of reach.
LEMMA ChildrenStay == ASSUME StillThere, NEW S PROVE Children(S)' = Children(S)
<1>1. vol' = vol
  BY DEF StillThere
<1>. QED
  BY <1>1 DEF Children

\* The generations of nodes stay.
LEMMA GenerationsStay ==
  ASSUME vol \in Volumes, StillThere, NEW oid
  PROVE  \A k \in 0..Depth : Generations(oid)'[k] = Generations(oid)[k]
<1>0. vol' = vol /\ Depth' = Depth /\ Depth \in Nat
  BY VolumeIs DEF StillThere, Depth
<1>1. Generations(oid)[0] = {oid} /\ \A k \in 1..Depth : \A S : S = Generations(oid)[k - 1] => Generations(oid)[k] = Children(S)
  BY GenerationsSpelled, Zenon DEF GenerationsSpelledOut
<1>2. Generations(oid)'[0] = {oid} /\ \A k \in 1..Depth : \A S : S = Generations(oid)'[k - 1] => Generations(oid)'[k] = Children(S)'
  <2>1. GenerationsSpelledOut'
    BY <1>0, GenerationsSpelledNext
  <2>. QED
    BY <1>0, <2>1 DEF GenerationsSpelledOut
<1> DEFINE T == {k \in 0..Depth : Generations(oid)'[k] = Generations(oid)[k]}
<1>3. 0 \in T
  BY <1>0, <1>1, <1>2
<1>4. ASSUME NEW k \in 1..Depth, k - 1 \in T PROVE k \in T
  <2>1. PICK S : S = Generations(oid)[k - 1]
    OBVIOUS
  <2>2. S = Generations(oid)'[k - 1]
    BY <1>4, <2>1
  <2>3. Generations(oid)'[k] = Children(S)' /\ Generations(oid)[k] = Children(S)
    BY <1>1, <1>2, <2>1, <2>2
  <2>4. Children(S)' = Children(S)
    BY ChildrenStay
  <2>. QED
    BY <1>0, <2>3, <2>4
<1> HIDE DEF T
<1>5. \A k \in 0..Depth : k \in T
  BY <1>0, <1>3, <1>4, UpTo
<1>. QED
  BY <1>5 DEF T

\* And so does what a tree stores under a number.
LEMMA StoredStays ==
  ASSUME vol \in Volumes, StillThere, NEW oid, NEW id, NEW type
  PROVE  Stored(oid, id, type)' = Stored(oid, id, type)
<1>0. vol' = vol /\ Depth' = Depth /\ Depth \in Nat
  BY VolumeIs DEF StillThere, Depth
<1>1. DOMAIN Generations(oid) = 0..Depth
  BY GenerationsSpelled, Zenon DEF GenerationsSpelledOut
<1>2. DOMAIN Generations(oid)' = 0..Depth
  <2>1. GenerationsSpelledOut'
    BY <1>0, GenerationsSpelledNext
  <2>. QED
    BY <1>0, <2>1 DEF GenerationsSpelledOut
<1>3. Range(Generations(oid))' = Range(Generations(oid))
  BY <1>1, <1>2, GenerationsStay DEF Range
<1>4. Under(oid)' = Under(oid)
  BY <1>0, <1>3 DEF Under
<1>. QED
  BY <1>0, <1>4 DEF Stored

\* What a file's extents are that can be found.
LEMMA ExtentsFound ==
  ASSUME vol \in Volumes, NEW inode, NEW x \in Range(getFileExtents(inode))
  PROVE  IsExtent(x) /\ getFileExtents(inode) = <<x>>
<1>1. getFileExtents(inode) # <<>>
  BY DEF Range
<1>2. PICK y : getFileExtents(inode) = <<y>> /\ IsExtent(y)
  BY <1>1, ExtentFound
<1>3. x = y
  BY <1>2 DEF Range
<1>. QED
  BY <1>2, <1>3

\* An extent found after a step was found before it.
LEMMA ExtentsFoundNext ==
  ASSUME vol \in Volumes, StillThere, NEW inode, NEW x \in Range(getFileExtents(inode)')
  PROVE  IsExtent(x) /\ x \in Range(getFileExtents(inode))
<1>1. getFileExtents(inode)' # <<>>
  BY DEF Range
<1>2. getFileExtents(inode)' = getFileExtents(inode)
  BY <1>1, ExtentsStay
<1>. QED
  BY <1>2, ExtentsFound

\* What is stored in blocks that can be found and read was there before.
LEMMA StoredEntriesStay ==
  ASSUME vol \in Volumes, StillThere, NEW dir, NEW e \in StoredEntries(dir)'
  PROVE  e \in StoredEntries(dir)
<1>1. PICK inode \in Stored(dir, dir, "inode")' : \E x \in Range(getFileExtents(inode)') : e \in Range(ExtentEntries(x)')
  BY DEF StoredEntries, Range
<1>2. PICK x \in Range(getFileExtents(inode)') : e \in Range(ExtentEntries(x)')
  BY <1>1
<1>3. inode \in Stored(dir, dir, "inode")
  BY StoredStays
<1>4. IsExtent(x) /\ x \in Range(getFileExtents(inode))
  BY ExtentsFoundNext
<1>5. PICK i \in DOMAIN (ExtentEntries(x)') : e = ExtentEntries(x)'[i]
  BY <1>2 DEF Range
<1>6. ExtentEntries(x)' \in Seq(DirectoryEntry) /\ ExtentEntries(x) \in Seq(DirectoryEntry)
  <2>1. vol' \in Volumes
    BY DEF StillThere
  <2>. QED
    BY <1>4, <2>1, EntriesAreCollected, EntriesAreCollectedNext DEF EntriesCollected, Collected
<1>7. i \in 1..Len(ExtentEntries(x)')
  BY <1>5, <1>6
<1>8. PICK k \in 1..Len(ExtentEntries(x)) : e = ExtentEntries(x)[k]
  BY <1>4, <1>5, <1>7, EntriesStay
<1>9. e \in Range(ExtentEntries(x))
  BY <1>6, <1>8 DEF Range
<1>. QED
  BY <1>3, <1>4, <1>9 DEF StoredEntries

\* An inode that can be loaded is stored under its number.
LEMMA LoadedIsStored ==
  ASSUME vol \in Volumes, NEW i, loadInode(i).ok
  PROVE  loadInode(i).val \in Stored(i, i, "inode") /\ i \in DOMAIN vol.nodes
<1>1. PICK nd : nd = Leaf(i, i, 8)
  OBVIOUS
<1>2. nd.ok /\ \E k \in inodeRecords(nd.val, i) : loadInode(i) = Ok(nd.val.recs[k].val)
  BY <1>1, InodeFound
<1>3. PICK k : k \in inodeRecords(nd.val, i) /\ loadInode(i) = Ok(nd.val.recs[k].val)
  BY <1>2
<1>4. PICK o : o \in DOMAIN vol.nodes /\ nd.val = vol.nodes[o] /\ o \in Under(i) /\ Node(i).ok
  <2>1. Leaf(i, i, 8).ok
    BY <1>1, <1>2
  <2>. QED
    BY <1>1, <2>1, LeafIsReached
<1>5. PICK r : r = nd.val.recs[k]
  OBVIOUS
<1>6. k \in Readable(nd.val, 8) /\ r.id = i /\ r.type = "inode" /\ loadInode(i).val = r.val
  BY <1>3, <1>5 DEF inodeRecords, Ok
<1>7. k \in 1..Len(nd.val.recs) /\ DOMAIN nd.val.recs = 1..Len(nd.val.recs)
  <2>1. IsNode(nd.val)
    BY <1>4, VolumeIs
  <2>. QED
    BY <1>6, <2>1 DEF Readable, IsNode
<1>8. r \in UNION {Range(vol.nodes[w].recs) : w \in Under(i)}
  <2>1. r \in Range(vol.nodes[o].recs)
    BY <1>4, <1>5, <1>7 DEF Range
  <2>. QED
    BY <1>4, <2>1
<1>9. r.val \in Stored(i, i, "inode")
  BY <1>6, <1>8 DEF Stored
<1>10. i \in DOMAIN vol.nodes
  BY <1>4 DEF Node, Err
<1>. QED
  BY <1>6, <1>9, <1>10

\* Where every number is stored once, a listing holds all that is stored there.
LEMMA ListingIsComplete ==
  ASSUME vol \in Volumes, OneInode, NEW dir, listDirectoryContents(dir).ok, NEW e \in StoredEntries(dir)
  PROVE  \E j \in 1..Len(listDirectoryContents(dir).val) : listDirectoryContents(dir).val[j] = e
<1>1. PICK inode \in Stored(dir, dir, "inode") : \E x \in Range(getFileExtents(inode)) : e \in Range(ExtentEntries(x))
  BY DEF StoredEntries
<1>2. PICK x \in Range(getFileExtents(inode)) : e \in Range(ExtentEntries(x))
  BY <1>1
<1>3. IsExtent(x) /\ getFileExtents(inode) = <<x>>
  BY ExtentsFound
<1>4. loadInode(dir).ok
  BY listIs
<1>5. loadInode(dir).val \in Stored(dir, dir, "inode") /\ dir \in DOMAIN vol.nodes
  BY <1>4, LoadedIsStored
<1>6. loadInode(dir).val = inode
  BY <1>5 DEF OneInode
<1>7. listDirectoryContents(dir).val = ExtentEntries(x)
  <2>1. PICK xs : xs = getFileExtents(loadInode(dir).val)
    OBVIOUS
  <2>2. xs # <<>> /\ xs[1] = x
    BY <1>3, <1>6, <2>1
  <2>3. ~Err("not a directory").ok
    BY DEF Err
  <2>4. listDirectoryContents(dir) = Ok(ExtentEntries(x))
    BY <1>4, <2>1, <2>2, <2>3, listIs
  <2>. QED
    BY <2>4 DEF Ok
<1>8. ExtentEntries(x) \in Seq(DirectoryEntry)
  BY <1>3, EntriesAreCollected DEF EntriesCollected, Collected
<1>. QED
  BY <1>2, <1>7, <1>8 DEF Range

\* What has been handed to the callback, and whether all that is stored in a
\* directory has been.
Handed == {visited[k] : k \in 1..Len(visited)}
WasVisited(e, p) == \E v \in Handed : v.dir = p /\ v.entry = e
Listed(d, p) == \A e \in StoredEntries(d) : WasVisited(e, p)

\* A frame holds what is stored in its directory, and has visited what it passed.
HoldsAll(f) == \A e \in StoredEntries(f.dir) : \E j \in 1..Len(f.entries) : f.entries[j] = e
VisitedPassed(f) == \A j \in 1..(f.next - 1) : WasVisited(f.entries[j], f.path)

\* While a walk goes on, every directory visited is to be listed next, is being
\* listed, or has been listed completely.
Going ==
  /\ \A v \in Handed : v.entry.dir =>
       call.sub = Full(v) \/ (\E f \in Frames : f.path = Full(v)) \/ Listed(v.entry.inode, Full(v))
  /\ stack # <<>> => stack[1].path = <<>> /\ stack[1].dir = RootTree
  /\ \A f \in Frames : HoldsAll(f) /\ VisitedPassed(f)
  /\ \A v, w \in Handed : Full(v) = Full(w) => v = w

\* When it has returned without an error, all of them have.
Finished ==
  /\ Listed(RootTree, <<>>)
  /\ \A v \in Handed : v.entry.dir => Listed(v.entry.inode, Full(v))

\* What it asks for has been found as far as it has come.
FoundAll ==
  \A v \in Handed : matchPattern(v.entry.name, Asked.pattern) /\ loadInode(v.entry.inode).ok =>
    \E i \in 1..Len(results) : results[i] = [inode |-> v.entry.inode, path |-> Full(v)]

CompleteInv ==
  UniqueNames /\ OneInode =>
    /\ call # NoCall => Going
    /\ call = NoCall /\ last.op = "find" /\ answer.ok /\ Len(results) < last.max => Finished
    /\ Asked.op = "find" => FoundAll

\* The volume itself does not change.
LEMMA OneInodeStays == ASSUME vol \in Volumes, StillThere, OneInode' PROVE OneInode
<1>1. vol' = vol
  BY DEF StillThere
<1>2. ASSUME NEW o \in DOMAIN vol.nodes PROVE \A x, y \in Stored(o, o, "inode") : x = y
  <2>1. Stored(o, o, "inode")' = Stored(o, o, "inode")
    BY StoredStays
  <2>2. \A x, y \in Stored(o, o, "inode")' : x = y
    BY <1>1 DEF OneInode
  <2>. QED
    BY <2>1, <2>2
<1>. QED
  BY <1>2 DEF OneInode

\* What has been visited stays visited, and what is stored only gets less.
LEMMA ListedStays ==
  ASSUME vol \in Volumes, StillThere, Handed \subseteq Handed', NEW d, NEW p, Listed(d, p)
  PROVE  Listed(d, p)'
<1>1. ASSUME NEW e \in StoredEntries(d)' PROVE WasVisited(e, p)'
  <2>1. WasVisited(e, p)
    BY StoredEntriesStay DEF Listed
  <2>. QED
    BY <2>1 DEF WasVisited
<1>. QED
  BY <1>1 DEF Listed

\* A frame keeps holding what is stored in its directory.
LEMMA FrameStays ==
  ASSUME vol \in Volumes, StillThere, Handed \subseteq Handed', NEW f, HoldsAll(f), VisitedPassed(f)
  PROVE  HoldsAll(f)' /\ VisitedPassed(f)'
<1>1. ASSUME NEW e \in StoredEntries(f.dir)' PROVE \E j \in 1..Len(f.entries) : f.entries[j] = e
  <2>1. PICK d : d = f.dir
    OBVIOUS
  <2>2. e \in StoredEntries(d)
    BY <2>1, StoredEntriesStay
  <2>. QED
    BY <2>1, <2>2 DEF HoldsAll
<1>2. VisitedPassed(f)'
  BY DEF VisitedPassed, WasVisited
<1>. QED
  BY <1>1, <1>2 DEF HoldsAll

\* Nothing has been visited and no walk has returned.
LEMMA NothingVisited ==
  ASSUME visited' = <<>>, stack' = <<>>, call' # NoCall \/ last' = NoCall
  PROVE  CompleteInv'
<1>1. Len(visited') = 0 /\ Len(stack') = 0
  OBVIOUS
<1>2. Handed' = {} /\ Frames' = {}
  BY <1>1 DEF Handed, Frames
<1>3. Going' /\ FoundAll'
  BY <1>2 DEF Going, FoundAll
<1>4. call' = NoCall => last'.op # "find"
  BY DEF NoCall
<1>. QED
  BY <1>3, <1>4 DEF CompleteInv

\* Nothing has been asked for at first.
LEMMA CompleteStarts == Init => CompleteInv
<1> SUFFICES ASSUME Init PROVE CompleteInv
  OBVIOUS
<1>1. Len(visited) = 0 /\ call = NoCall /\ last = NoCall
  BY DEF Init
<1>2. Handed = {}
  BY <1>1 DEF Handed
<1>3. last.op # "find"
  BY <1>1 DEF NoCall
<1>. QED
  BY <1>1, <1>2, <1>3 DEF CompleteInv, FoundAll

\* Steps that neither visit nor find anything keep what has been found.
LEMMA SameFoundAll ==
  ASSUME vol \in Volumes, StillThere, FoundAll, visited' = visited, results' = results,
         Asked'.pattern = Asked.pattern
  PROVE  FoundAll' /\ Handed' = Handed
<1>1. Handed' = Handed
  BY DEF Handed
<1>2. ASSUME NEW v \in Handed, matchPattern(v.entry.name, Asked'.pattern), loadInode(v.entry.inode)'.ok
      PROVE  \E i \in 1..Len(results') : results'[i] = [inode |-> v.entry.inode, path |-> Full(v)]
  <2>1. PICK d : d = v.entry.inode
    OBVIOUS
  <2>2. loadInode(d).ok
    <3>1. loadInode(d)'.ok
      BY <1>2, <2>1
    <3>2. loadInode(d)' = loadInode(d)
      BY <3>1, InodeStays
    <3>. QED
      BY <3>1, <3>2
  <2>. QED
    BY <1>2, <2>1, <2>2 DEF FoundAll
<1>3. \A x, p : matchPattern(x, p)' = matchPattern(x, p)
  BY DEF matchPattern, Stars
<1>. QED
  BY <1>1, <1>2 DEF FoundAll, Full

\* A walk that has listed everything has done so for good.
LEMMA FinishedStays ==
  ASSUME vol \in Volumes, StillThere, Handed' = Handed, Finished
  PROVE  Finished'
<1>1. Listed(RootTree, <<>>)'
  BY ListedStays DEF Finished
<1>2. ASSUME NEW v \in Handed, v.entry.dir PROVE Listed(v.entry.inode, Full(v))'
  <2>1. PICK d, p : d = v.entry.inode /\ p = Full(v)
    OBVIOUS
  <2>2. Listed(d, p)
    BY <1>2, <2>1 DEF Finished
  <2>3. Listed(d, p)'
    BY <2>2, ListedStays
  <2>4. Full(v)' = Full(v)
    BY DEF Full
  <2>. QED
    BY <2>1, <2>3, <2>4
<1>. QED
  BY <1>1, <1>2 DEF Finished, Full

\* A walk that returns has listed everything, or returns an error, or stops at
\* its limit.
LEMMA CompleteReturns ==
  ASSUME WalkInv, CompleteInv, StillThere, call # NoCall, visited' = visited, results' = results,
         NEW r, Return(r),
         r.ok /\ call.op = "find" /\ Len(results) < call.max /\ UniqueNames /\ OneInode => Finished
  PROVE  CompleteInv'
<1>0. vol \in Volumes /\ call' = NoCall /\ last' = call /\ answer' = [ok |-> r.ok, err |-> IF r.ok THEN "" ELSE r.val]
  BY DEF WalkInv, WalkType, Return, Outcome
<1>1. Asked' = Asked /\ Asked = call
  BY <1>0 DEF Asked
<1>2. answer'.ok = r.ok
  BY <1>0
<1> SUFFICES ASSUME UniqueNames', OneInode'
             PROVE  /\ last'.op = "find" /\ answer'.ok /\ Len(results') < last'.max => Finished'
                    /\ Asked'.op = "find" => FoundAll'
  BY <1>0 DEF CompleteInv
<1>3. UniqueNames /\ OneInode
  BY <1>0, UniqueStays, OneInodeStays
<1>4. ASSUME call.op = "find" PROVE FoundAll' /\ Handed' = Handed
  <2>1. FoundAll
    BY <1>1, <1>3, <1>4 DEF CompleteInv
  <2>. QED
    BY <1>0, <1>1, <2>1, SameFoundAll
<1>5. ASSUME call.op = "find", r.ok, Len(results) < call.max PROVE Finished'
  <2>1. Finished /\ Handed' = Handed
    BY <1>3, <1>4, <1>5
  <2>. QED
    BY <1>0, <2>1, FinishedStays
<1>. QED
  BY <1>0, <1>1, <1>2, <1>4, <1>5

\* Steps of others.
LEMMA CompleteSame ==
  ASSUME WalkInv, CompleteInv, StillThere, UNCHANGED <<walkVars, answer>>
  PROVE  CompleteInv'
<1>0. /\ vol \in Volumes /\ call' = call /\ stack' = stack /\ visited' = visited /\ results' = results
      /\ last' = last /\ answer' = answer
  BY DEF WalkInv, WalkType, walkVars
<1>1. Asked' = Asked /\ Handed' = Handed /\ Frames' = Frames
  BY <1>0 DEF Asked, Handed, Frames
<1> SUFFICES ASSUME UniqueNames', OneInode'
             PROVE  /\ call # NoCall => Going'
                    /\ call = NoCall /\ last.op = "find" /\ answer.ok /\ Len(results) < last.max => Finished'
                    /\ Asked.op = "find" => FoundAll'
  BY <1>0, <1>1 DEF CompleteInv
<1>2. UniqueNames /\ OneInode
  BY <1>0, UniqueStays, OneInodeStays
<1>3. ASSUME Asked.op = "find" PROVE FoundAll'
  <2>1. FoundAll
    BY <1>2, <1>3 DEF CompleteInv
  <2>. QED
    BY <1>0, <1>1, <2>1, SameFoundAll
<1>4. ASSUME call = NoCall, last.op = "find", answer.ok, Len(results) < last.max PROVE Finished'
  <2>1. Finished
    BY <1>2, <1>4 DEF CompleteInv
  <2>. QED
    BY <1>0, <1>1, <2>1, FinishedStays
<1>5. ASSUME call # NoCall PROVE Going'
  <2>1. Going
    BY <1>2, <1>5 DEF CompleteInv
  <2>2. ASSUME NEW v \in Handed, v.entry.dir
        PROVE  call.sub = Full(v) \/ (\E f \in Frames : f.path = Full(v)) \/ Listed(v.entry.inode, Full(v))'
    <3>1. PICK d, p : d = v.entry.inode /\ p = Full(v)
      OBVIOUS
    <3>2. CASE Listed(d, p)
      <4>1. Listed(d, p)'
        BY <1>0, <1>1, <3>2, ListedStays
      <4>2. Full(v)' = Full(v)
        BY DEF Full
      <4>. QED
        BY <3>1, <4>1, <4>2
    <3>. QED
      BY <2>1, <2>2, <3>1, <3>2 DEF Going
  <2>3. \A f \in Frames : HoldsAll(f)' /\ VisitedPassed(f)'
    BY <1>0, <1>1, <2>1, FrameStays DEF Going
  <2>. QED
    BY <1>0, <1>1, <2>1, <2>2, <2>3 DEF Going, Full
<1>. QED
  BY <1>3, <1>4, <1>5

\* The root resolves to the root tree without reading.
LEMMA RootIs == ASSUME vol \in Volumes PROVE getInodeByPath(<<>>) = Ok(RootTree)
<1>1. <<>> \in Path /\ Len(<<>>) = 0
  BY DEF Path
<1>2. \A p \in Path : Resolved(p)[0] = Ok(RootTree) /\ getInodeByPath(p) = Resolved(p)[Len(p)]
  BY PathsSpelled DEF PathsSpelledOut
<1>. QED
  BY <1>1, <1>2

\* A directory is entered with all that is stored in it to be visited.
LEMMA CompleteEnters ==
  ASSUME WalkInv, SearchInv, CompleteInv, UNCHANGED <<vol, broken, visited, results>>, call # NoCall,
         NEW path, Enter(path),
         \/ stack = <<>> /\ path = <<>>
         \/ stack # <<>> /\ call.sub # <<>> /\ path = call.sub
  PROVE  CompleteInv'
<1> DEFINE m == Len(stack)
<1>0. StillThere /\ vol \in Volumes /\ m \in Nat /\ stack \in Seq(FrameType) /\ call \in CallType
  BY DEF StillThere, WalkInv, WalkType
<1>1. path \in Path
  BY <1>0 DEF Path, CallType
<1>2. PICK list : list = ListDirectory(path) /\ Entered(path, list)
  BY DEF Enter
<1>3. CASE ~list.ok
  <2>1. Return(list)
    BY <1>2, <1>3 DEF Entered
  <2>. QED
    BY <1>0, <1>3, <2>1, CompleteReturns
<1>4. CASE list.ok
  <2>1. PICK f : f = Frame(path, list.val)
    OBVIOUS
  <2>2. stack' = Append(stack, f) /\ call' = [call EXCEPT !.sub = <<>>] /\ last' = last
    BY <1>2, <1>4, <2>1 DEF Entered
  <2>3. /\ f \in FrameType /\ f.path = path /\ f.next = 1
        /\ getInodeByPath(path) = Ok(f.dir) /\ listDirectoryContents(f.dir).ok
    BY <1>0, <1>1, <1>2, <1>4, <2>1, NewFrame
  <2>4. f.entries = listDirectoryContents(f.dir).val
    <3>1. PICK r : r = getInodeByPath(path)
      OBVIOUS
    <3>2. PICK l : l = listDirectoryContents(r.val)
      OBVIOUS
    <3>3. list = IF ~r.ok THEN r ELSE IF ~l.ok THEN l ELSE Ok([dir |-> r.val, entries |-> l.val])
      BY <1>2, <3>1, <3>2, ListDirectoryIs
    <3>4. list.val.dir = r.val /\ list.val.entries = l.val
      BY <1>4, <3>3 DEF Ok
    <3>5. f.dir = r.val /\ f.entries = l.val
      BY <2>1, <3>4 DEF Frame
    <3>. QED
      BY <3>2, <3>5
  <2>5. Len(stack') = m + 1 /\ stack'[m + 1] = f /\ \A k \in 1..m : stack'[k] = stack[k]
    BY <1>0, <2>2, <2>3, AppendProperties
  <2>6. call'.op = call.op /\ call'.pattern = call.pattern /\ call' # NoCall
    <3>1. \A c \in CallType : [c EXCEPT !.sub = <<>>].op = c.op /\ [c EXCEPT !.sub = <<>>].pattern = c.pattern
      BY DEF CallType
    <3>2. call.op # "none" /\ NoCall.op = "none"
      BY DEF SearchInv, SearchType, NoCall
    <3>. QED
      BY <1>0, <2>2, <3>1, <3>2
  <2>7. Asked = call /\ Asked' = call'
    BY <2>6 DEF Asked
  <2> SUFFICES ASSUME UniqueNames', OneInode'
               PROVE  Going' /\ (call.op = "find" => FoundAll')
    BY <2>6, <2>7 DEF CompleteInv
  <2>8. UniqueNames /\ OneInode /\ Going
    BY <1>0, UniqueStays, OneInodeStays DEF CompleteInv
  <2>9. call.op = "find" => FoundAll'
    <3>1. call.op = "find" => FoundAll
      BY <2>7, <2>8 DEF CompleteInv
    <3>. QED
      BY <1>0, <2>6, <2>7, <3>1, SameFoundAll
  <2> HIDE DEF m
  <2>10. Handed' = Handed
    BY DEF Handed
  <2>11. Frames' = Frames \cup {f}
    BY <1>0, <2>5 DEF Frames, m
  <2>12. HoldsAll(f) /\ VisitedPassed(f)
    <3>1. \A e \in StoredEntries(f.dir) : \E j \in 1..Len(f.entries) : f.entries[j] = e
      <4>1. PICK d : d = f.dir
        OBVIOUS
      <4>2. \A e \in StoredEntries(d) : \E j \in 1..Len(listDirectoryContents(d).val) : listDirectoryContents(d).val[j] = e
        BY <1>0, <2>3, <2>8, <4>1, ListingIsComplete
      <4>. QED
        BY <2>4, <4>1, <4>2
    <3>2. \A j \in 1..(f.next - 1) : FALSE
      BY <2>3
    <3>. QED
      BY <3>1, <3>2 DEF HoldsAll, VisitedPassed
  <2>13. \A w \in Frames' : HoldsAll(w)' /\ VisitedPassed(w)'
    BY <1>0, <2>8, <2>10, <2>11, <2>12, FrameStays DEF Going
  <2>14. stack'[1].path = <<>> /\ stack'[1].dir = RootTree
    <3>1. CASE stack = <<>>
      <4>1. m = 0 /\ path = <<>> /\ stack'[1] = f
        BY <2>5, <3>1 DEF m
      <4>2. f.dir = RootTree
        BY <1>0, <2>3, <4>1, RootIs DEF Ok
      <4>. QED
        BY <2>3, <4>1, <4>2
    <3>2. CASE stack # <<>>
      <4>1. 1 \in 1..m
        BY <1>0, <3>2, EmptySeq DEF m
      <4>. QED
        BY <1>0, <2>5, <2>8, <3>2, <4>1 DEF Going
    <3>. QED
      BY <3>1, <3>2
  <2>15. ASSUME NEW v \in Handed, v.entry.dir
         PROVE  (\E w \in Frames' : w.path = Full(v)) \/ Listed(v.entry.inode, Full(v))'
    <3>1. PICK d, p : d = v.entry.inode /\ p = Full(v)
      OBVIOUS
    <3>2. stack # <<>>
      <4>1. ASSUME stack = <<>> PROVE FALSE
        <5>1. Len(visited) = 0
          BY <4>1 DEF SearchInv, SearchType
        <5>. QED
          BY <5>1 DEF Handed
      <4>. QED
        BY <4>1
    <3>3. CASE call.sub = p
      BY <2>3, <2>11, <3>1, <3>2, <3>3
    <3>4. CASE \E w \in Frames : w.path = p
      BY <2>11, <3>1, <3>4
    <3>5. CASE Listed(d, p)
      <4>1. Listed(d, p)'
        BY <1>0, <2>10, <3>5, ListedStays
      <4>2. Full(v)' = Full(v)
        BY DEF Full
      <4>. QED
        BY <3>1, <4>1, <4>2
    <3>. QED
      BY <2>8, <2>15, <3>1, <3>3, <3>4, <3>5 DEF Going
  <2>16. \A v, w \in Handed : Full(v) = Full(w) => v = w
    BY <2>8 DEF Going
  <2>17. Going'
    BY <2>10, <2>13, <2>14, <2>15, <2>16 DEF Going, Full
  <2>. QED
    BY <2>9, <2>17
<1>. QED
  BY <1>3, <1>4

\* A visit adds to what has been visited, and to what has been found.
LEMMA CompleteVisits ==
  ASSUME WalkInv, SearchInv, CompleteInv, Visit
  PROVE  CompleteInv'
<1>1. PICK m, g, e, q : VisitsAs(m, g, e, q)
  BY VisitIs
<1>2. /\ StillThere /\ vol \in Volumes /\ m = Len(stack) /\ m \in Nat \ {0} /\ stack \in Seq(FrameType) /\ call \in CallType
      /\ g = stack[m] /\ g \in FrameType /\ e = g.entries[g.next] /\ q = Append(g.path, e.name)
  BY <1>1 DEF Visit, VisitsAs, StillThere, WalkInv, WalkType
<1>3. PICK v : v = [dir |-> g.path, entry |-> e]
  OBVIOUS
<1>4. v.dir = g.path /\ v.entry = e /\ Full(v) = q
  BY <1>2, <1>3 DEF Full
<1>5. Top = g /\ Entry = e
  BY <1>2 DEF Top, Last, Entry
<1>6. Handed' = Handed \cup {v}
  <2>1. visited \in Seq([dir : Path, entry : DirectoryEntry]) /\ Len(visited) \in Nat
    BY DEF SearchInv, SearchType
  <2>2. v \in [dir : Path, entry : DirectoryEntry]
    BY <1>1, <1>3 DEF VisitsAs, FrameType
  <2>3. visited' = Append(visited, v)
    BY <1>1, <1>3 DEF VisitsAs
  <2>4. /\ Len(visited') = Len(visited) + 1 /\ visited'[Len(visited) + 1] = v
        /\ \A k \in 1..Len(visited) : visited'[k] = visited[k]
    BY <2>1, <2>2, <2>3, AppendProperties
  <2>5. ASSUME NEW w \in Handed' PROVE w \in Handed \/ w = v
    <3>1. PICK k \in 1..Len(visited') : w = visited'[k]
      BY <2>5 DEF Handed
    <3>. QED
      BY <2>1, <2>4, <3>1 DEF Handed
  <2>6. ASSUME NEW w, w \in Handed \/ w = v PROVE w \in Handed'
    BY <2>1, <2>4, <2>6 DEF Handed
  <2>. QED
    BY <2>5, <2>6
<1>7. /\ call # NoCall /\ call' # NoCall /\ call.sub = <<>>
      /\ call'.op = call.op /\ call'.pattern = call.pattern /\ (e.dir => call'.sub = q)
  <2>1. call # NoCall /\ call.sub = <<>>
    BY DEF Visit, InLoop
  <2>2. call'.op # "none" /\ NoCall.op = "none" /\ call'.op = call.op /\ call'.pattern = call.pattern
    BY <1>1, <2>1 DEF SearchInv, SearchType, VisitsAs, NoCall
  <2>3. e.dir => call'.sub = q
    <3>1. \A c \in CallType : \A p \in Path : [c EXCEPT !.sub = p].sub = p
      BY DEF CallType
    <3>2. PICK p \in Path : p = (IF e.dir THEN q ELSE <<>>)
      <4>1. q \in Path /\ <<>> \in Path
        BY <1>1 DEF VisitsAs, Path
      <4>. QED
        BY <4>1
    <3>3. call' = [call EXCEPT !.sub = p]
      BY <1>2, <1>5, <3>2 DEF Visit
    <3>. QED
      BY <1>2, <3>1, <3>2, <3>3
  <2>. QED
    BY <2>1, <2>2, <2>3
<1>8. Asked = call /\ Asked' = call'
  BY <1>7 DEF Asked
<1> SUFFICES ASSUME UniqueNames', OneInode'
             PROVE  Going' /\ (call.op = "find" => FoundAll')
  BY <1>7, <1>8 DEF CompleteInv
<1>9. UniqueNames /\ OneInode /\ Going
  BY <1>2, <1>7, UniqueStays, OneInodeStays DEF CompleteInv
<1>10. PICK f : f = [g EXCEPT !.next = g.next + 1]
  OBVIOUS
<1>11. f.path = g.path /\ f.dir = g.dir /\ f.entries = g.entries /\ f.next = g.next + 1 /\ g.next \in Nat
  BY <1>2, <1>10 DEF FrameType
<1>12. Len(stack') = m /\ stack'[m] = f /\ \A k \in 1..m : k # m => stack'[k] = stack[k]
  <2>1. stack' = [stack EXCEPT ![m] = f]
    BY <1>2, <1>10 DEF Visit
  <2>2. m \in 1..m
    BY <1>2
  <2>3. f \in FrameType
    <3>1. \A h \in FrameType : \A n2 \in Nat \ {0} : [h EXCEPT !.next = n2] \in FrameType
      BY DEF FrameType
    <3>2. g.next + 1 \in Nat \ {0}
      BY <1>2 DEF FrameType
    <3>. QED
      BY <1>2, <1>10, <3>1, <3>2
  <2>. QED
    BY <1>2, <2>1, <2>2, <2>3, ExceptSeq
<1>13. g \in Frames /\ f \in Frames' /\ \A w \in Frames' : w \in Frames \/ w = f
  BY <1>2, <1>12 DEF Frames
<1>14. \A w \in Frames : w # g => w \in Frames'
  BY <1>2, <1>12 DEF Frames
<1>15. ASSUME NEW w \in Frames' PROVE HoldsAll(w)' /\ VisitedPassed(w)'
  <2>1. CASE w \in Frames
    BY <1>2, <1>6, <1>9, <2>1, FrameStays DEF Going
  <2>2. CASE w = f
    <3>1. HoldsAll(g) /\ VisitedPassed(g)
      BY <1>9, <1>13 DEF Going
    <3>2. HoldsAll(g)' /\ VisitedPassed(g)'
      BY <1>2, <1>6, <3>1, FrameStays
    <3>3. HoldsAll(f)'
      BY <1>11, <3>2 DEF HoldsAll
    <3>4. WasVisited(e, g.path)'
      BY <1>4, <1>6 DEF WasVisited
    <3>5. ASSUME NEW j \in 1..(f.next - 1) PROVE WasVisited(f.entries[j], f.path)'
      <4>1. CASE j \in 1..(g.next - 1)
        BY <1>11, <3>2, <4>1 DEF VisitedPassed
      <4>2. CASE j = g.next
        BY <1>2, <1>11, <3>4, <4>2
      <4>. QED
        BY <1>11, <4>1, <4>2
    <3>. QED
      BY <2>2, <3>3, <3>5 DEF VisitedPassed
  <2>. QED
    BY <1>13, <2>1, <2>2
<1>16. ASSUME NEW w \in Handed', w.entry.dir
       PROVE  call'.sub = Full(w) \/ (\E h \in Frames' : h.path = Full(w)) \/ Listed(w.entry.inode, Full(w))'
  <2>1. CASE w = v
    BY <1>4, <1>7, <1>16, <2>1
  <2>2. CASE w \in Handed
    <3>1. PICK d, p : d = w.entry.inode /\ p = Full(w)
      OBVIOUS
    <3>2. call.sub # p
      <4>1. PICK k \in 1..Len(visited) : w = visited[k]
        BY <2>2 DEF Handed
      <4>2. w \in [dir : Path, entry : DirectoryEntry]
        BY <4>1, ElementOfSeq DEF SearchInv, SearchType
      <4>3. PICK a, b : a = w.dir /\ b = w.entry.name /\ a \in Seq(Seq(STRING)) /\ b \in Seq(STRING)
        BY <4>2 DEF DirectoryEntry, Path
      <4>4. p = Append(a, b) /\ Len(Append(a, b)) = Len(a) + 1
        BY <3>1, <4>3, AppendProperties DEF Full
      <4>5. Len(p) # 0
        BY <4>3, <4>4
      <4>. QED
        BY <1>7, <4>5
    <3>3. CASE \E h \in Frames : h.path = p
      <4>1. PICK h \in Frames : h.path = p
        BY <3>3
      <4>2. CASE h = g
        BY <1>11, <1>13, <3>1, <4>1, <4>2
      <4>3. CASE h # g
        BY <1>14, <3>1, <4>1, <4>3
      <4>. QED
        BY <4>2, <4>3
    <3>4. CASE Listed(d, p)
      <4>1. Listed(d, p)'
        BY <1>2, <1>6, <3>4, ListedStays
      <4>2. Full(w)' = Full(w)
        BY DEF Full
      <4>. QED
        BY <3>1, <4>1, <4>2
    <3>. QED
      BY <1>9, <1>16, <2>2, <3>1, <3>2, <3>3, <3>4 DEF Going
  <2>. QED
    BY <1>6, <2>1, <2>2
<1>17. ASSUME NEW w \in Handed', NEW z \in Handed', Full(w) = Full(z) PROVE w = z
  <2>1. q \notin Seen
    BY <1>1, <1>9, NewlySeen
  <2>2. \A h \in Handed : Full(h) # q
    BY <2>1 DEF Handed, Seen
  <2>3. \A h, i \in Handed : Full(h) = Full(i) => h = i
    BY <1>9 DEF Going
  <2>. QED
    BY <1>4, <1>6, <1>17, <2>2, <2>3
<1>18. stack'[1].path = <<>> /\ stack'[1].dir = RootTree
  <2>1. stack # <<>> /\ 1 \in 1..m
    BY <1>2 DEF Visit, InLoop
  <2>2. stack[1].path = <<>> /\ stack[1].dir = RootTree
    BY <1>9, <2>1 DEF Going
  <2>. QED
    BY <1>2, <1>11, <1>12, <2>1, <2>2
<1>19. Going'
  BY <1>15, <1>16, <1>17, <1>18 DEF Going, Full
<1>20. ASSUME call.op = "find", NEW w \in Handed',
              matchPattern(w.entry.name, call.pattern), loadInode(w.entry.inode)'.ok
       PROVE  \E i \in 1..Len(results') : results'[i] = [inode |-> w.entry.inode, path |-> Full(w)]
  <2>0. results \in Seq([inode : Nat, path : Path]) /\ Len(results) \in Nat
    BY DEF SearchInv, SearchType
  <2>1. PICK r : r = [inode |-> e.inode, path |-> q]
    OBVIOUS
  <2>2. r \in [inode : Nat, path : Path]
    BY <1>1, <2>1 DEF VisitsAs, DirectoryEntry
  <2>3. PICK d : d = w.entry.inode
    OBVIOUS
  <2>4. loadInode(d).ok
    <3>1. loadInode(d)'.ok
      BY <1>20, <2>3
    <3>2. loadInode(d)' = loadInode(d)
      BY <1>2, <3>1, InodeStays
    <3>. QED
      BY <3>1, <3>2
  <2>5. results' = results \/ results' = Append(results, r)
    BY <1>1, <2>1 DEF VisitsAs
  <2>6. \A i \in 1..Len(results) : i \in 1..Len(results') /\ results'[i] = results[i]
    BY <2>0, <2>2, <2>5, AppendProperties
  <2>7. CASE w = v
    <3>1. results' = Append(results, r)
      <4>1. matchPattern(Entry.name, call.pattern) /\ loadInode(Entry.inode).ok
        BY <1>4, <1>5, <1>20, <2>3, <2>4, <2>7
      <4>2. r = [inode |-> Entry.inode, path |-> Append(Top.path, Entry.name)]
        BY <1>2, <1>5, <2>1
      <4>. QED
        BY <1>20, <4>1, <4>2 DEF Visit, Found
    <3>2. Len(results') = Len(results) + 1 /\ results'[Len(results) + 1] = r
      BY <2>0, <2>2, <3>1, AppendProperties
    <3>3. Len(results) + 1 \in 1..Len(results')
      BY <2>0, <3>2
    <3>. QED
      BY <1>4, <2>1, <2>7, <3>2, <3>3
  <2>8. CASE w \in Handed
    <3>1. FoundAll
      BY <1>8, <1>9, <1>20 DEF CompleteInv
    <3>2. PICK i \in 1..Len(results) : results[i] = [inode |-> w.entry.inode, path |-> Full(w)]
      BY <1>8, <1>20, <2>3, <2>4, <2>8, <3>1 DEF FoundAll
    <3>. QED
      BY <2>6, <3>2
  <2>. QED
    BY <1>6, <2>7, <2>8
<1>21. \A x, p : matchPattern(x, p)' = matchPattern(x, p)
  BY DEF matchPattern, Stars
<1>22. call.op = "find" => FoundAll'
  BY <1>7, <1>8, <1>20 DEF FoundAll, Full
<1>. QED
  BY <1>19, <1>22

\* A frame that has been gone through has listed its directory.
LEMMA FrameListed ==
  ASSUME NEW f \in FrameType, HoldsAll(f), VisitedPassed(f), f.next > Len(f.entries)
  PROVE  Listed(f.dir, f.path)
<1>1. f.next \in Nat /\ Len(f.entries) \in Nat
  BY DEF FrameType
<1>2. ASSUME NEW e \in StoredEntries(f.dir) PROVE WasVisited(e, f.path)
  <2>1. PICK j \in 1..Len(f.entries) : f.entries[j] = e
    BY DEF HoldsAll
  <2>2. j \in 1..(f.next - 1)
    BY <1>1
  <2>. QED
    BY <2>1, <2>2 DEF VisitedPassed
<1>. QED
  BY <1>2 DEF Listed

\* The root is no entry.
LEMMA RootNotVisited ==
  ASSUME SearchInv, NEW v \in Handed
  PROVE  Full(v) # <<>>
<1>1. PICK k \in 1..Len(visited) : v = visited[k]
  BY DEF Handed
<1>2. v \in [dir : Path, entry : DirectoryEntry]
  BY <1>1, ElementOfSeq DEF SearchInv, SearchType
<1>3. PICK a, b : a = v.dir /\ b = v.entry.name /\ a \in Seq(Seq(STRING)) /\ b \in Seq(STRING)
  BY <1>2 DEF DirectoryEntry, Path
<1>4. Full(v) = Append(a, b) /\ Len(Append(a, b)) = Len(a) + 1
  BY <1>3, AppendProperties DEF Full
<1>. QED
  BY <1>3, <1>4

\* A directory that has been gone through is left, the root for good.
LEMMA CompleteLeaves ==
  ASSUME WalkInv, SearchInv, CompleteInv, Leave
  PROVE  CompleteInv'
<1> DEFINE m == Len(stack)
<1>0. /\ StillThere /\ vol \in Volumes /\ m \in Nat /\ stack \in Seq(FrameType) /\ call # NoCall
      /\ stack # <<>> /\ call.sub = <<>> /\ visited' = visited /\ results' = results
  BY DEF StillThere, WalkInv, WalkType, Leave, InLoop
<1>1. m # 0 /\ m \in 1..m
  BY <1>0, EmptySeq
<1>2. PICK f : f = stack[m] /\ f \in FrameType
  BY <1>0, <1>1, ElementOfSeq
<1>3. f.next > Len(f.entries) /\ f \in Frames
  BY <1>1, <1>2 DEF Leave, Top, Last, Frames
<1>4. ASSUME Going PROVE Listed(f.dir, f.path)
  BY <1>2, <1>3, <1>4, FrameListed DEF Going
<1>5. CASE m = 1
  <2>1. PICK r : r = Ok(results)
    OBVIOUS
  <2>2. Return(r)
    BY <1>5, <2>1 DEF Leave
  <2>3. ASSUME UniqueNames, OneInode PROVE Finished
    <3>1. Going
      BY <1>0, <2>3 DEF CompleteInv
    <3>2. f.path = <<>> /\ f.dir = RootTree /\ \A h \in Frames : h = f
      BY <1>0, <1>2, <1>5, <3>1 DEF Going, Frames
    <3>3. ASSUME NEW v \in Handed, v.entry.dir PROVE Listed(v.entry.inode, Full(v))
      BY <1>0, <3>1, <3>2, <3>3, RootNotVisited DEF Going
    <3>4. Listed(RootTree, <<>>)
      BY <1>4, <3>1, <3>2
    <3>. QED
      BY <3>3, <3>4 DEF Finished
  <2>. QED
    BY <1>0, <2>2, <2>3, CompleteReturns
<1>6. CASE m # 1
  <2>1. stack' = Front(stack) /\ call' = call /\ last' = last
    BY <1>6 DEF Leave
  <2>2. Len(stack') = m - 1 /\ \A k \in 1..(m - 1) : k \in 1..m /\ stack'[k] = stack[k]
    <3>1. m - 1 \in Nat /\ \A k \in 1..(m - 1) : k \in 1..m
      BY <1>0, <1>1
    <3>2. \A k \in 1..(m - 1) : stack[k] \in FrameType
      BY <1>0, <3>1, ElementOfSeq
    <3> HIDE DEF m
    <3>3. /\ SubSeq(stack, 1, m - 1) \in Seq(FrameType) /\ Len(SubSeq(stack, 1, m - 1)) = m - 1
          /\ \A k \in 1..(m - 1) : SubSeq(stack, 1, m - 1)[k] = stack[k]
      BY <3>1, <3>2, SubSeqProperties, Z3
    <3>. QED
      BY <2>1, <3>1, <3>3 DEF Front, m
  <2>3. Asked = call /\ Asked' = call
    BY <1>0, <2>1 DEF Asked
  <2> HIDE DEF m
  <2> SUFFICES ASSUME UniqueNames', OneInode'
               PROVE  Going' /\ (call.op = "find" => FoundAll')
    BY <1>0, <2>1, <2>3 DEF CompleteInv
  <2>4. UniqueNames /\ OneInode /\ Going
    BY <1>0, UniqueStays, OneInodeStays DEF CompleteInv
  <2>5. call.op = "find" => FoundAll'
    <3>1. call.op = "find" => FoundAll
      BY <2>3, <2>4 DEF CompleteInv
    <3>. QED
      BY <1>0, <2>3, <3>1, SameFoundAll
  <2>6. Handed' = Handed
    BY <1>0 DEF Handed
  <2>7. Frames' \subseteq Frames /\ \A h \in Frames : h \in Frames' \/ h = f
    <3>1. \A k \in 1..m : k \in 1..(m - 1) \/ k = m
      BY <1>0, <1>1
    <3>2. Frames = {stack[k] : k \in 1..m} /\ Frames' = {stack[k] : k \in 1..(m - 1)}
      BY <2>2 DEF Frames, m
    <3>. QED
      BY <1>2, <2>2, <3>1, <3>2
  <2>8. \A h \in Frames' : HoldsAll(h)' /\ VisitedPassed(h)'
    BY <1>0, <2>4, <2>6, <2>7, FrameStays DEF Going
  <2>9. stack'[1].path = <<>> /\ stack'[1].dir = RootTree
    <3>1. 1 \in 1..(m - 1)
      BY <1>0, <1>1, <1>6
    <3>. QED
      BY <1>0, <2>2, <2>4, <3>1 DEF Going
  <2>10. ASSUME NEW v \in Handed, v.entry.dir, f.path = Full(v)
         PROVE  f.dir = v.entry.inode
    <3>1. PICK h : h = stack[m - 1]
      OBVIOUS
    <3>2. m - 1 \in 1..(m - 1) /\ m - 1 \in 1..m /\ (m - 1) + 1 = m
      BY <1>0, <1>1, <1>6
    <3>3. Within(h) /\ f.path = Append(h.path, Began(h).name) /\ f.dir = Began(h).inode
      <4>1. stack[(m - 1) + 1] = f
        BY <1>2, <3>2
      <4>. QED
        BY <2>4, <3>1, <3>2, <4>1 DEF WalkInv, Nested, DescendsIntoEntries, m, Began
    <3>4. h \in Frames
      BY <3>1, <3>2 DEF Frames, m
    <3>5. h \in FrameType
      BY <1>0, <3>1, <3>2, ElementOfSeq DEF m
    <3>6. h.next - 1 \in 1..(h.next - 1)
      BY <3>3, <3>5 DEF Within, FrameType
    <3>7. WasVisited(Began(h), h.path)
      BY <2>4, <3>4, <3>6 DEF Going, VisitedPassed, Began
    <3>8. PICK w \in Handed : w.dir = h.path /\ w.entry = Began(h)
      BY <3>7 DEF WasVisited
    <3>9. Full(w) = Full(v)
      BY <2>10, <3>3, <3>8 DEF Full
    <3>10. w = v
      BY <2>4, <3>9 DEF Going
    <3>. QED
      BY <3>3, <3>8, <3>10
  <2>11. ASSUME NEW v \in Handed, v.entry.dir
         PROVE  (\E h \in Frames' : h.path = Full(v)) \/ Listed(v.entry.inode, Full(v))'
    <3>1. PICK d, p : d = v.entry.inode /\ p = Full(v)
      OBVIOUS
    <3>2. CASE Listed(d, p)
      <4>1. Listed(d, p)'
        BY <1>0, <2>6, <3>2, ListedStays
      <4>2. Full(v)' = Full(v)
        BY DEF Full
      <4>. QED
        BY <3>1, <4>1, <4>2
    <3>3. CASE \E h \in Frames : h.path = p
      <4>1. PICK h \in Frames : h.path = p
        BY <3>3
      <4>2. CASE h \in Frames'
        BY <3>1, <4>1, <4>2
      <4>3. CASE h = f
        <5>1. f.dir = d /\ f.path = p
          BY <2>10, <2>11, <3>1, <4>1, <4>3
        <5>2. Listed(d, p)
          BY <1>4, <2>4, <5>1
        <5>. QED
          BY <3>2, <5>2
      <4>. QED
        BY <2>7, <4>1, <4>2, <4>3
    <3>. QED
      BY <1>0, <2>4, <2>11, <3>1, <3>2, <3>3, RootNotVisited DEF Going
  <2>12. \A v, w \in Handed : Full(v) = Full(w) => v = w
    BY <2>4 DEF Going
  <2>13. Going'
    BY <2>6, <2>8, <2>9, <2>11, <2>12 DEF Going, Full
  <2>. QED
    BY <2>5, <2>13
<1>. QED
  BY <1>5, <1>6

\* The invariant of what has been listed and found is inductive.
LEMMA CompleteSteps == WalkInv /\ SearchInv /\ CompleteInv /\ [Next]_vars => CompleteInv'
<1> SUFFICES ASSUME WalkInv, SearchInv, CompleteInv, [Next]_vars PROVE CompleteInv'
  OBVIOUS
<1>0. NoCall.op = "none" /\ NoCall.sub = <<>>
  BY DEF NoCall
<1>1. ASSUME NEW c, StartWalk(c), c.op # "none" PROVE CompleteInv'
  <2>1. call' = c /\ c # NoCall /\ visited' = <<>> /\ stack' = <<>>
    BY <1>0, <1>1 DEF StartWalk
  <2>. QED
    BY <2>1, NothingVisited
<1>2. ASSUME NEW r, Answer(r) PROVE CompleteInv'
  <2>1. stack' = <<>> /\ visited' = <<>> /\ last' = NoCall
    BY <1>2 DEF Answer, SearchInv, SearchType
  <2>. QED
    BY <2>1, NothingVisited
<1>3. CASE WalkTree
  <2>1. [NoCall EXCEPT !.op = "walk"].op # "none"
    BY DEF NoCall
  <2>. QED
    BY <1>1, <1>3, <2>1 DEF WalkTree
<1>4. CASE FindFilesByName
  <2>1. PICK p \in Patterns, max \in MaxResults :
          StartWalk([op |-> "find", pattern |-> p, max |-> max, sub |-> <<>>])
    BY <1>4 DEF FindFilesByName
  <2>2. [op |-> "find", pattern |-> p, max |-> max, sub |-> <<>>].op # "none"
    OBVIOUS
  <2>. QED
    BY <1>1, <2>1, <2>2
<1>5. CASE EnterRoot
  BY <1>5, CompleteEnters DEF EnterRoot
<1>6. CASE Descend
  <2>1. stack # <<>>
    BY <1>6 DEF Descend, WalkInv, Nested
  <2>2. call # NoCall
    BY <1>0, <1>6 DEF Descend
  <2>. QED
    BY <1>6, <2>1, <2>2, CompleteEnters DEF Descend
<1>7. CASE Visit
  BY <1>7, CompleteVisits
<1>8. CASE CallbackFails
  <2>1. PICK r : r = (IF call.op = "find" THEN Ok(results) ELSE Err("callback"))
    OBVIOUS
  <2>2. /\ call # NoCall /\ visited' = visited /\ results' = results /\ Return(r)
        /\ call.op = "walk" \/ LimitReached
    BY <1>8, <2>1 DEF CallbackFails, InLoop
  <2>3. StillThere
    BY <1>8 DEF CallbackFails, StillThere, WalkInv, WalkType
  <2>4. ~(call.op = "find" /\ Len(results) < call.max)
    <3>1. Len(results) \in Nat /\ call.max \in Nat
      BY DEF SearchInv, SearchType, WalkInv, WalkType, CallType
    <3>. QED
      BY <2>2, <3>1 DEF LimitReached
  <2>. QED
    BY <2>2, <2>3, <2>4, CompleteReturns
<1>9. CASE Leave
  BY <1>9, CompleteLeaves
<1>10. CASE PathCall
  BY <1>2, <1>10 DEF PathCall
<1>11. CASE InodeCall
  BY <1>2, <1>11 DEF InodeCall
<1>12. CASE Breaks
  <2>1. StillThere /\ UNCHANGED <<walkVars, answer>>
    BY <1>12 DEF Breaks, StillThere
  <2>. QED
    BY <2>1, CompleteSame
<1>13. CASE UNCHANGED vars
  <2>1. StillThere /\ UNCHANGED <<walkVars, answer>>
    BY <1>13 DEF StillThere, vars, WalkInv, WalkType
  <2>. QED
    BY <2>1, CompleteSame
<1>. QED
  BY <1>3, <1>4, <1>5, <1>6, <1>7, <1>8, <1>9, <1>10, <1>11, <1>12, <1>13 DEF Next, WalkStep

\* A prefix and a suffix, and a pattern with both, the other way round.
LEMMA SuffixFrom ==
  ASSUME NEW t \in Seq(STRING), NEW s \in Seq(STRING), NEW k \in 0..Len(t), SubSeq(t, k + 1, Len(t)) = s
  PROVE  IsSuffix(s, t)
<1> DEFINE a == Len(s)
           b == Len(t)
<1>0. a \in Nat /\ b \in Nat /\ k \in Nat /\ k <= b
  OBVIOUS
<1>1. /\ Reverse(s) \in Seq(STRING) /\ Len(Reverse(s)) = a
      /\ \A j \in 1..a : Reverse(s)[j] = s[(a - j) + 1]
  BY DEF Reverse
<1>2. /\ Reverse(t) \in Seq(STRING) /\ Len(Reverse(t)) = b
      /\ \A j \in 1..b : Reverse(t)[j] = t[(b - j) + 1]
  BY DEF Reverse
<1>3. a = b - k /\ \A i \in 1..a : s[i] = t[k + i]
  <2>1. \A i \in (k + 1)..b : t[i] \in STRING
    BY <1>0, ElementOfSeq
  <2>2. /\ Len(SubSeq(t, k + 1, b)) = IF k + 1 <= b THEN (b - (k + 1)) + 1 ELSE 0
        /\ \A i \in 1..((b - (k + 1)) + 1) : SubSeq(t, k + 1, b)[i] = t[((k + 1) + i) - 1]
    BY <1>0, <2>1, SubSeqProperties
  <2> HIDE DEF a, b
  <2>3. (b - (k + 1)) + 1 = b - k /\ (k + 1 <= b <=> b - k # 0)
    BY <1>0
  <2>4. \A i \in 1..(b - k) : ((k + 1) + i) - 1 = k + i
    BY <1>0
  <2>. QED
    BY <2>2, <2>3, <2>4 DEF a, b
<1> DEFINE u == SubSeq(Reverse(t), 1, a)
<1>4. u \in Seq(STRING) /\ Len(u) = a /\ \A i \in 1..a : u[i] = Reverse(t)[i]
  <2>1. \A i \in 1..a : Reverse(t)[i] \in STRING
    BY <1>0, <1>2, <1>3, ElementOfSeq
  <2>2. /\ u \in Seq(STRING) /\ Len(u) = IF 1 <= a THEN (a - 1) + 1 ELSE 0
        /\ \A i \in 1..((a - 1) + 1) : u[i] = Reverse(t)[(1 + i) - 1]
    BY <1>0, <2>1, SubSeqProperties
  <2> HIDE DEF u, a, b
  <2>. QED
    BY <1>0, <2>2
<1>5. ASSUME NEW i \in 1..a PROVE u[i] = Reverse(s)[i]
  <2>1. i \in 1..b /\ (a - i) + 1 \in 1..a /\ (b - i) + 1 = k + ((a - i) + 1)
    BY <1>0, <1>3
  <2>2. u[i] = t[(b - i) + 1]
    BY <1>2, <1>4, <2>1
  <2>3. s[(a - i) + 1] = t[k + ((a - i) + 1)]
    BY <1>3, <2>1
  <2>4. Reverse(s)[i] = s[(a - i) + 1]
    BY <1>1
  <2>. QED
    BY <2>1, <2>2, <2>3, <2>4
<1>6. u = Reverse(s)
  BY <1>1, <1>4, <1>5, SeqEqual
<1>7. Len(Reverse(s)) <= Len(Reverse(t))
  BY <1>0, <1>1, <1>2, <1>3
<1>. QED
  BY <1>1, <1>2, <1>6, <1>7 DEF IsSuffix, IsPrefix

\* A name a pattern stands for is one matchPattern accepts.
LEMMA GlobMatches ==
  ASSUME NEW name \in Seq(STRING), NEW p \in Seq(STRING), Glob(name, p)
  PROVE  matchPattern(name, p)
<1>0. Len(name) \in Nat /\ Len(p) \in Nat
  OBVIOUS
<1>1. PICK f \in 0..Len(name), t \in 0..Len(name), i \in 0..Len(p) :
        /\ f <= t
        /\ IF i = 0 THEN Stars(p) = {} /\ name = p
           ELSE Stars(p) = {i} /\ SubSeq(name, 1, f) = SubSeq(p, 1, i - 1)
                               /\ SubSeq(name, t + 1, Len(name)) = SubSeq(p, i + 1, Len(p))
  BY DEF Glob
<1>2. CASE i = 0
  BY <1>1, <1>2 DEF matchPattern
<1>3. CASE i # 0
  <2> DEFINE pre == SubSeq(p, 1, i - 1)
             suf == SubSeq(p, i + 1, Len(p))
  <2>1. Stars(p) = {i} /\ SubSeq(name, 1, f) = pre /\ SubSeq(name, t + 1, Len(name)) = suf /\ i \in 1..Len(p)
    BY <1>0, <1>1, <1>3
  <2>2. pre \in Seq(STRING)
    <3>1. \A k \in 1..(i - 1) : p[k] \in STRING
      BY <1>0, <2>1, ElementOfSeq
    <3>. QED
      BY <2>1, <3>1, SubSeqProperties
  <2>3. suf \in Seq(STRING)
    <3>1. \A k \in (i + 1)..Len(p) : p[k] \in STRING
      BY <1>0, <2>1, ElementOfSeq
    <3>. QED
      BY <1>0, <2>1, <3>1, SubSeqProperties
  <2> HIDE DEF pre, suf
  <2>4. Len(pre) = f
    <3>1. \A k \in 1..f : name[k] \in STRING
      BY <1>0, ElementOfSeq
    <3>2. Len(SubSeq(name, 1, f)) = IF 1 <= f THEN (f - 1) + 1 ELSE 0
      BY <3>1, SubSeqProperties
    <3>. QED
      BY <2>1, <3>2
  <2>5. IsPrefix(pre, name)
    BY <1>0, <2>1, <2>2, <2>4 DEF IsPrefix
  <2>6. IsSuffix(suf, name)
    BY <2>1, <2>3, SuffixFrom
  <2>7. i \in Stars(p)
    BY <2>1
  <2>. QED
    BY <2>1, <2>5, <2>6, <2>7 DEF matchPattern, pre, suf
<1>. QED
  BY <1>2, <1>3

\* While a walk goes on, the last one has not been asked about.
Unanswered == call # NoCall => last = NoCall

\* The last walk is the one that has returned.
LEMMA UnansweredStays == Unanswered /\ [Next]_vars => Unanswered'
<1> SUFFICES ASSUME Unanswered, [Next]_vars PROVE Unanswered'
  OBVIOUS
<1>1. ASSUME NEW r, Return(r) PROVE Unanswered'
  BY <1>1 DEF Return, Unanswered
<1>2. ASSUME call # NoCall, UNCHANGED last PROVE Unanswered'
  BY <1>2 DEF Unanswered
<1>3. ASSUME call # NoCall, NEW path, Enter(path) PROVE Unanswered'
  <2>1. PICK list : Entered(path, list)
    BY <1>3 DEF Enter
  <2>. QED
    BY <1>1, <1>2, <1>3, <2>1 DEF Entered
<1>4. ASSUME NEW c, StartWalk(c) PROVE Unanswered'
  BY <1>4 DEF StartWalk, Unanswered
<1>5. ASSUME NEW r, Answer(r) PROVE Unanswered'
  BY <1>5 DEF Answer, Unanswered
<1>6. CASE WalkTree \/ FindFilesByName
  BY <1>4, <1>6 DEF WalkTree, FindFilesByName
<1>7. CASE EnterRoot
  BY <1>3, <1>7 DEF EnterRoot
<1>8. CASE Descend
  <2>1. call # NoCall
    BY <1>8 DEF Descend, NoCall
  <2>. QED
    BY <1>3, <1>8, <2>1 DEF Descend
<1>9. CASE Visit
  BY <1>2, <1>9 DEF Visit, InLoop
<1>10. CASE CallbackFails
  BY <1>1, <1>10 DEF CallbackFails
<1>11. CASE Leave
  BY <1>1, <1>2, <1>11 DEF Leave, InLoop
<1>12. CASE PathCall
  BY <1>5, <1>12 DEF PathCall
<1>13. CASE InodeCall
  BY <1>5, <1>13 DEF InodeCall
<1>14. CASE Breaks \/ UNCHANGED vars
  BY <1>14 DEF Breaks, vars, walkVars, Unanswered
<1>. QED
  BY <1>6, <1>7, <1>8, <1>9, <1>10, <1>11, <1>12, <1>13, <1>14 DEF Next, WalkStep

\* What there is below a directory, level by level.
EntryType == [inode : Nat, path : Path, dir : BOOLEAN]

\* The entries of directories, with their paths.
LEMMA EntriesAre ==
  ASSUME vol \in Volumes, NEW S \in SUBSET EntryType
  PROVE  EntriesOf(S) \in SUBSET EntryType
<1>1. ASSUME NEW d \in S, NEW e \in StoredEntries(d.inode)
      PROVE  [inode |-> e.inode, path |-> Append(d.path, e.name), dir |-> e.dir] \in EntryType
  <2>1. PICK inode : \E x \in Range(getFileExtents(inode)) : e \in Range(ExtentEntries(x))
    BY DEF StoredEntries
  <2>2. PICK x \in Range(getFileExtents(inode)) : e \in Range(ExtentEntries(x))
    BY <2>1
  <2>3. IsExtent(x)
    BY ExtentsFound
  <2>4. ExtentEntries(x) \in Seq(DirectoryEntry)
    BY <2>3, EntriesAreCollected DEF EntriesCollected, Collected
  <2>5. e \in DirectoryEntry
    BY <2>2, <2>4 DEF Range
  <2>6. d.path \in Seq(Seq(STRING)) /\ e.name \in Seq(STRING)
    BY <2>5 DEF EntryType, DirectoryEntry, Path
  <2>7. Append(d.path, e.name) \in Path
    BY <2>6, AppendProperties DEF Path
  <2>. QED
    BY <2>5, <2>7 DEF EntryType, DirectoryEntry
<1>. QED
  BY <1>1 DEF EntriesOf

\* And those of the directories among them, one level after the other.
LEMMA BelowIs ==
  ASSUME vol \in Volumes
  PROVE  \E level : /\ DOMAIN level = 0..Depth
                    /\ level[0] = EntriesOf({[inode |-> RootTree, path |-> <<>>, dir |-> TRUE]})
                    /\ \A k \in 1..Depth : level[k] = EntriesOf(level[k - 1])
                    /\ Below(RootTree) = UNION Range(level)
<1> DEFINE V == SUBSET EntryType
           first == EntriesOf({[inode |-> RootTree, path |-> <<>>, dir |-> TRUE]})
           next == [w \in (1..Depth) \X V |-> EntriesOf(w[2])]
           level[k \in 0..Depth] ==
             IF k = 0 THEN EntriesOf({[inode |-> RootTree, path |-> <<>>, dir |-> TRUE]}) ELSE EntriesOf(level[k - 1])
<1>0. Depth \in Nat
  BY VolumeIs
<1>1. ASSUME NEW S \in V PROVE EntriesOf(S) \in V
  BY EntriesAre
<1>2. next \in [(1..Depth) \X V -> V]
  <2> HIDE DEF V
  <2>. QED
    BY <1>1
<1>3. \A k \in 1..Depth, S \in V : next[<<k, S>>] = EntriesOf(S)
  OBVIOUS
<1>4. first \in V
  <2>1. {[inode |-> RootTree, path |-> <<>>, dir |-> TRUE]} \in V
    <3>1. <<>> \in Path
      BY DEF Path
    <3>. QED
      BY <3>1, TreeAssumption DEF EntryType
  <2>. QED
    BY <1>1, <2>1
<1>5. \E d : IsRecursion(d, Depth, V, first, next)
  <2> HIDE DEF next, V, first
  <2>. QED
    BY <1>0, <1>2, <1>4, RecursionExists
<1>6. PICK d : IsRecursion(d, Depth, V, first, next)
  BY <1>5
<1> HIDE DEF next, V, first
<1>7. d = [k \in 0..Depth |-> IF k = 0 THEN first ELSE EntriesOf(d[k - 1])]
  <2>1. ASSUME NEW k \in 0..Depth, k # 0
        PROVE  d[k] = EntriesOf(d[k - 1])
    <3>1. k \in 1..Depth /\ k - 1 \in 0..Depth
      BY <1>0, <2>1
    <3>2. d[k] = next[<<k, d[k - 1]>>] /\ d[k - 1] \in V
      BY <1>6, <3>1 DEF IsRecursion
    <3>. QED
      BY <1>3, <3>1, <3>2
  <2>. QED
    BY <1>6, <2>1 DEF IsRecursion
<1>8. level = [k \in 0..Depth |-> IF k = 0 THEN first ELSE EntriesOf(level[k - 1])]
  BY <1>7 DEF first
<1>9. Below(RootTree) = UNION Range(level)
  BY DEF Below
<1> HIDE DEF level
<1>10. level[0] = first /\ \A k \in 1..Depth : level[k] = EntriesOf(level[k - 1])
  <2>1. 0 \in 0..Depth /\ \A k \in 1..Depth : k \in 0..Depth /\ k # 0
    BY <1>0
  <2>. QED
    BY <1>8, <2>1, Zenon
<1>11. DOMAIN level = 0..Depth
  BY <1>8
<1>. QED
  BY <1>9, <1>10, <1>11 DEF first

\* An entry has been visited under its path.
Shown(e) == \E v \in Handed : Full(v) = e.path /\ v.entry.inode = e.inode /\ v.entry.dir = e.dir

\* When a walk has finished, all there is below the root has been visited.
LEMMA AllShown ==
  ASSUME vol \in Volumes, Finished, NEW e \in Below(RootTree)
  PROVE  Shown(e)
<1>0. Depth \in Nat
  BY VolumeIs
<1>1. PICK level : /\ DOMAIN level = 0..Depth
                   /\ level[0] = EntriesOf({[inode |-> RootTree, path |-> <<>>, dir |-> TRUE]})
                   /\ \A k \in 1..Depth : level[k] = EntriesOf(level[k - 1])
                   /\ Below(RootTree) = UNION Range(level)
  BY BelowIs
<1>2. ASSUME NEW S, \A d \in S : d.dir => Listed(d.inode, d.path), NEW x \in EntriesOf(S) PROVE Shown(x)
  <2>1. PICK d \in S : d.dir /\ \E s \in StoredEntries(d.inode) :
                          x = [inode |-> s.inode, path |-> Append(d.path, s.name), dir |-> s.dir]
    BY <1>2 DEF EntriesOf
  <2>2. PICK s \in StoredEntries(d.inode) : x = [inode |-> s.inode, path |-> Append(d.path, s.name), dir |-> s.dir]
    BY <2>1
  <2>3. Listed(d.inode, d.path)
    BY <1>2, <2>1
  <2>4. PICK v \in Handed : v.dir = d.path /\ v.entry = s
    BY <2>3 DEF Listed, WasVisited
  <2>5. x.inode = s.inode /\ x.path = Append(d.path, s.name) /\ x.dir = s.dir
    BY <2>2
  <2>. QED
    BY <2>4, <2>5 DEF Shown, Full
<1>3. ASSUME NEW x, Shown(x), x.dir PROVE Listed(x.inode, x.path)
  <2>1. PICK v \in Handed : Full(v) = x.path /\ v.entry.inode = x.inode /\ v.entry.dir = x.dir
    BY <1>3 DEF Shown
  <2>2. Listed(v.entry.inode, Full(v))
    BY <1>3, <2>1 DEF Finished
  <2>. QED
    BY <2>1, <2>2
<1> DEFINE T == {k \in 0..Depth : \A x \in level[k] : Shown(x)}
<1>4. 0 \in T
  <2>1. PICK d : d = [inode |-> RootTree, path |-> <<>>, dir |-> TRUE]
    OBVIOUS
  <2>2. d.inode = RootTree /\ d.path = <<>>
    BY <2>1
  <2>3. \A c \in {d} : c.dir => Listed(c.inode, c.path)
    BY <2>2 DEF Finished
  <2>4. level[0] = EntriesOf({d})
    BY <1>1, <2>1
  <2>. QED
    BY <1>0, <1>2, <2>3, <2>4
<1>5. ASSUME NEW k \in 1..Depth, k - 1 \in T PROVE k \in T
  <2>1. PICK S : S = level[k - 1]
    OBVIOUS
  <2>2. \A d \in S : d.dir => Listed(d.inode, d.path)
    BY <1>3, <1>5, <2>1
  <2>3. level[k] = EntriesOf(S)
    BY <1>1, <2>1
  <2>. QED
    BY <1>0, <1>2, <2>2, <2>3
<1> HIDE DEF T
<1>6. \A k \in 0..Depth : k \in T
  BY <1>0, <1>4, <1>5, UpTo
<1>7. PICK k \in 0..Depth : e \in level[k]
  BY <1>1 DEF Range
<1>. QED
  BY <1>6, <1>7 DEF T

\* A search gives exactly what there is to find, however the blocks fail while it
\* walks: what FindComplete says is found, and nothing FindSound excludes
\* (562-596, 961-1004, 1101-1121).
THEOREM SearchIsExact == Spec => []FindIsExact
<1>1. ASSUME WalkInv, SearchInv, CompleteInv, Unanswered PROVE FindComplete
  <2> SUFFICES ASSUME last.op = "find", answer.ok, Len(results) < last.max, UniqueNames, OneInode,
                      NEW e \in Below(RootTree), Glob(Last(e.path), last.pattern), loadInode(e.inode).ok
               PROVE  \E i \in 1..Len(results) : results[i] = [inode |-> e.inode, path |-> e.path]
    BY DEF FindComplete
  <2>1. call = NoCall /\ Asked = last
    BY <1>1 DEF Unanswered, NoCall, Asked
  <2>2. Finished /\ FoundAll
    BY <1>1, <2>1 DEF CompleteInv
  <2>3. PICK v \in Handed : Full(v) = e.path /\ v.entry.inode = e.inode /\ v.entry.dir = e.dir
    BY <1>1, <2>2, AllShown DEF WalkInv, WalkType, Shown
  <2>4. v \in [dir : Path, entry : DirectoryEntry]
    <3>1. PICK k \in 1..Len(visited) : v = visited[k]
      BY DEF Handed
    <3>. QED
      BY <1>1, <3>1, ElementOfSeq DEF SearchInv, SearchType
  <2>5. PICK a, b : a = v.dir /\ b = v.entry.name /\ a \in Seq(Seq(STRING)) /\ b \in Seq(STRING)
    BY <2>4 DEF DirectoryEntry, Path
  <2>6. Last(e.path) = b
    <3>1. Len(Append(a, b)) = Len(a) + 1 /\ Append(a, b)[Len(a) + 1] = b
      BY <2>5, AppendProperties
    <3>2. e.path = Append(a, b)
      BY <2>3, <2>5 DEF Full
    <3>. QED
      BY <3>1, <3>2 DEF Last
  <2>7. last.pattern \in Seq(STRING)
    BY <1>1 DEF SearchInv, SearchType, CallType
  <2>8. matchPattern(v.entry.name, Asked.pattern)
    BY <2>1, <2>5, <2>6, <2>7, GlobMatches
  <2>. QED
    BY <2>2, <2>3, <2>8 DEF FoundAll
<1>2. Init => Unanswered
  BY DEF Init, Unanswered
<1>. QED
  BY <1>1, <1>2, SearchIsSound, WalkStarts, WalkSteps, SearchStarts, SearchSteps, CompleteStarts, CompleteSteps,
     UnansweredStays, PTL DEF Spec, FindIsExact

============================================================================
