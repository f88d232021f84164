------------------------------ MODULE FileStream ------------------------------
(***************************************************************************)
(* services/file_adapters.go and ReadFile / ReadFileRange of               *)
(* services/filesystem_service.go: a file read as a stream, by             *)
(* FileReaderAdapter and, with Seek, FileSeekerAdapter.                    *)
(*                                                                         *)
(* A byte is named by its address on the medium, 0 for the zeros of a      *)
(* hole.  A file is its size, its extent records on the medium and found,  *)
(* the record that is the first of the leaf the extent search ends in (0   *)
(* if it finds none).  The search never marks an extent as compressed, so  *)
(* the branch that decompresses cannot be reached and is left out.         *)
(***************************************************************************)
EXTENDS Integers, SequencesExt

CONSTANTS
  Files,      \* [size, found, extents : Seq([logical, size, block])]
  BlockSize,
  BufLens,    \* len(p) of Read calls
  Seekable,   \* TRUE: FileSeekerAdapter
  SeekBy,     \* offsets given to Seek
  MaxOffset,  \* bound: how far the stream is moved
  Ranges,     \* <<offset, length>> of direct calls of ReadFileRange
  Word64      \* modulus of uint64 arithmetic (scaled)

\* Sizes, offsets and block numbers are unsigned, a file's size is a uint64, and
\* its extents do not overlap; the record found is one of them.
ASSUME StreamAssumption ==
  /\ BlockSize \in Nat /\ Word64 \in Nat \ {0} /\ MaxOffset \in Nat
  /\ BufLens \subseteq Nat /\ SeekBy \subseteq Int /\ Ranges \subseteq Nat \X Nat
  /\ \A f \in Files :
       /\ f.size \in 0..(Word64 - 1)
       /\ f.extents \in Seq([logical : Nat, size : Nat, block : Nat])
       /\ f.found \in 0..Len(f.extents)
       /\ \A j, k \in 1..Len(f.extents) :
            j < k => f.extents[j].logical + f.extents[j].size <= f.extents[k].logical

VARIABLES
  file,     \* the file opened
  offset,   \* fra.offset / fsa.offset
  n,        \* bytes the last Read returned
  err,      \* its error: "nil", "EOF" or "err"
  draining, \* the caller is in io.ReadAll: it reads until it gets an error
  start,    \* history: offset the bytes in out start at
  out,      \* history: bytes returned since the stream was opened or moved
  odd,      \* history: flips with every Read, so that each call is a step
  ranged    \* the last direct call of ReadFileRange: [off, len, how, bytes]

readerVars == <<file, offset, n, err, draining, start, out, odd>>
streamVars == <<readerVars, ranged>>

StreamInit ==
  /\ file \in Files
  /\ offset = 0
  /\ n = 0
  /\ err = "nil"
  /\ draining = FALSE
  /\ start = 0
  /\ out = <<>>
  /\ odd = FALSE
  /\ ranged = [off |-> 0, len |-> 0, how |-> "none", bytes |-> <<>>]

-----------------------------------------------------------------------------
(* ReadFileRange.                                                          *)

\* getFileExtents returns one extent record, or none.
Extents(f) == IF f.found = 0 THEN <<>> ELSE <<f.extents[f.found]>>

\* currentLogicalOffset when the loop is at extent k: what came before it,
\* whatever logical offset its record has.
LogicalOffset(es, k) == FoldLeft(LAMBDA sum, e : sum + e.size, 0, SubSeq(es, 1, k - 1))

\* count bytes of extent e from position from on: zeros for a hole, else the
\* bytes in a row on the medium.
ExtentData(e, from, count) ==
  [i \in 1..count |-> IF e.block = 0 THEN 0 ELSE e.block * BlockSize + from + i - 1]

\* Mutant: the position inside the extent is not taken into account.
PieceFromStart(es, k, off, len) ==
  LET lo   == LogicalOffset(es, k)
      hi   == lo + es[k].size
      from == IF off > lo THEN off - lo ELSE 0
      to   == IF off + len < hi THEN off + len - lo ELSE es[k].size
  IN  IF hi > off /\ lo < off + len THEN ExtentData(es[k], 0, to - from) ELSE <<>>

\* The part of extent k that overlaps the range asked for: [from, to] within it,
\* to < from when offset+length has wrapped.
Overlap(es, k, off, len) ==
  LET lo   == LogicalOffset(es, k)
      hi   == lo + es[k].size
      end  == (off + len) % Word64
      from == IF off > lo THEN off - lo ELSE 0
      to   == IF end < hi THEN end - lo ELSE es[k].size
  IN  IF hi > off /\ lo < end THEN [from |-> from, to |-> to] ELSE [from |-> 0, to |-> 0]

Piece(es, k, off, len) ==
  LET o == Overlap(es, k, off, len) IN ExtentData(es[k], o.from, o.to - o.from)

ReadFileRange(f, off, len) ==
  FlattenSeq([k \in 1..Len(Extents(f)) |-> Piece(Extents(f), k, off, len)])

\* bytesToRead wraps for these extents of a call: making the zeros of a hole
\* panics, reading blocks goes on until one cannot be read.
Wrapped(f, off, len) ==
  {k \in 1..Len(Extents(f)) : LET o == Overlap(Extents(f), k, off, len) IN o.to < o.from}

RangeHow(f, off, len) ==
  LET w == Wrapped(f, off, len)
  IN  IF Extents(f) = <<>> THEN "err"
      ELSE IF w = {} THEN "ok"
      ELSE IF \E k \in w : Extents(f)[k].block = 0 THEN "panic" ELSE "err"

\* ReadFileRange called for a range of the caller's.
RangeCall ==
  /\ \E r \in Ranges :
       LET how == RangeHow(file, r[1], r[2])
       IN  ranged' = [off |-> r[1], len |-> r[2], how |-> how,
                      bytes |-> IF how = "ok" THEN ReadFileRange(file, r[1], r[2]) ELSE <<>>]
  /\ UNCHANGED readerVars

-----------------------------------------------------------------------------
(* The adapters.                                                           *)

ReadAtEnd ==
  /\ offset >= file.size
  /\ n' = 0 /\ err' = "EOF" /\ odd' = ~odd
  /\ UNCHANGED <<file, offset, draining, start, out>>

\* toRead: the buffer's length, clipped at the end of the file.
ToRead(len) == IF offset + len > file.size THEN file.size - offset ELSE len

\* Mutant: the number of bytes copied is lost, and with it the advance.
ReadStays(len) ==
  /\ offset < file.size /\ Extents(file) # <<>>
  /\ n' = 0
  /\ err' = "nil" /\ odd' = ~odd
  /\ UNCHANGED <<file, offset, draining, start, out>>

Read(len) ==
  LET data == ReadFileRange(file, offset, ToRead(len))
  IN  /\ offset < file.size /\ Extents(file) # <<>>
      /\ n' = Len(data)
      /\ offset' = offset + Len(data)
      /\ out' = out \o data
      /\ err' = IF offset' >= file.size /\ n' = 0 THEN "EOF" ELSE "nil"
      /\ odd' = ~odd
      /\ UNCHANGED <<file, draining, start>>

\* The file has no extents, or the inode or a block cannot be read.
ReadFails ==
  /\ offset < file.size
  /\ n' = 0 /\ err' = "err" /\ odd' = ~odd
  /\ UNCHANGED <<file, offset, draining, start, out>>

Bases == {0, offset, file.size}

\* Seek(by, whence); a negative target is refused and changes nothing.
Seek(base, by) ==
  /\ Seekable /\ ~draining
  /\ base + by \in 0..MaxOffset
  /\ offset' = base + by
  /\ start' = base + by
  /\ out' = <<>>
  /\ n' = 0 /\ err' = "nil"
  /\ UNCHANGED <<file, draining, odd>>

\* A call of Read, with any buffer.
AnyRead == ReadAtEnd \/ ReadFails \/ \E len \in BufLens : Read(len)

\* io.ReadAll (the Go library): Read is called, with room in the buffer, until
\* it returns an error.
ReadAll ==
  /\ ~draining
  /\ draining' = TRUE /\ n' = 0 /\ err' = "nil"
  /\ UNCHANGED <<file, offset, start, out, odd>>

Drain ==
  \/ /\ draining /\ err = "nil"
     /\ ReadAtEnd \/ ReadFails \/ \E len \in BufLens \ {0} : Read(len)
  \/ /\ draining /\ err # "nil"
     /\ draining' = FALSE
     /\ UNCHANGED <<file, offset, n, err, start, out, odd>>

ReaderNext ==
  \/ ~draining /\ AnyRead
  \/ \E base \in Bases, by \in SeekBy : Seek(base, by)
  \/ ReadAll
  \/ Drain

StreamNext == (ReaderNext /\ UNCHANGED ranged) \/ RangeCall

\* io.ReadAll is a loop: nothing but its end stops it.
Draining == Drain /\ UNCHANGED ranged
StreamSpec == StreamInit /\ [][StreamNext]_streamVars /\ WF_streamVars(Draining)

-----------------------------------------------------------------------------
(* Properties.                                                             *)

\* The byte at position i of a file, by the logical offsets of its records.
ByteAt(f, i) ==
  LET at == {k \in 1..Len(f.extents) :
               f.extents[k].logical <= i /\ i < f.extents[k].logical + f.extents[k].size}
  IN  IF at = {} THEN 0
      ELSE LET e == f.extents[CHOOSE k \in at : TRUE]
           IN  IF e.block = 0 THEN 0 ELSE e.block * BlockSize + i - e.logical

\* The extent search has ended in the leaf with the file's first record.
FirstFound == file.found # 0 => file.extents[file.found].logical = 0

\* Whatever the sizes of the buffers and wherever the stream is moved to, the
\* bytes returned since are the file's bytes from there on, none skipped,
\* repeated or taken from elsewhere, if the extent found is the file's first;
\* the position matches them and stays within the file; and EOF is reported at
\* the end of the file and nowhere else (1155-1224, 9-35, 38-87).
StreamIsContent ==
  /\ FirstFound => out = [i \in 1..Len(out) |-> ByteAt(file, start + i - 1)]
  /\ offset = start + Len(out)
  /\ out # <<>> => offset <= file.size
  /\ err = "EOF" => offset >= file.size

\* A direct call of ReadFileRange returns bytes of the range asked for, all of
\* it that the extent found holds, unless offset+length exceeds a uint64; then
\* it returns nothing, fails or panics, never other bytes (1139-1233).
RangeIsContent ==
  ranged.how = "ok" /\ FirstFound =>
    /\ ranged.bytes = [i \in 1..Len(ranged.bytes) |-> ByteAt(file, ranged.off + i - 1)]
    /\ ranged.off + ranged.len < Word64 =>
         LET held == Extents(file)[1].size - ranged.off
         IN  Len(ranged.bytes) = IF held <= 0 THEN 0 ELSE IF held < ranged.len THEN held ELSE ranged.len

\* "an io.Reader for streaming file content": reading until an error is
\* returned comes to an end (file_adapters.go 9-35).
ReadAllEnds == draining ~> ~draining

\* The extent found reaches the end of the file.
Covered == file.found # 0 => file.extents[file.found].size >= file.size

\* Every Read of io.ReadAll that returns no error has moved on, when one extent
\* holds the file: it never reads the same position twice (file_adapters.go 9-35).
ReadAllAdvances ==
  [][draining /\ Covered /\ odd' # odd /\ err' = "nil" => offset' > offset]_streamVars

\* From any position a stream was moved to, io.ReadAll comes to an end when
\* one extent holds the file, short reads included, and every Read on the way
\* takes it further (file_adapters.go 9-35).
ReadAllEndsWhenCovered ==
  /\ draining /\ Covered ~> ~draining
  /\ ReadAllAdvances

=============================================================================
