------------------------------ MODULE EFIDriver ------------------------------
(***************************************************************************)
(* EFIDriverExtractor and JumpstartAnalyzer of efi_jumpstart/: the driver  *)
(* of a jumpstart structure is collected from its extents up to its length *)
(* and written to a file; the analyzer compares the two sizes.  Units are  *)
(* the bytes of a device of DeviceLen bytes; a byte is its own address.    *)
(* Sizes are int64 while reading and uint64 in the analysis (Wide = 2^64). *)
(***************************************************************************)
EXTENDS Integers, Sequences

CONSTANTS
  Jumpstarts,  \* [valid, fileLen, numExtents, extents : Seq([start, count])]
  DriverBlock,
  DeviceLen,
  Unreadable,  \* addresses at which a read fails
  Wide         \* 2^64

ASSUME DriverAssumption ==
  /\ DriverBlock \in Nat \ {0} /\ DeviceLen \in Nat /\ Wide \in Nat \ {0}
  /\ \A j \in Jumpstarts :
       /\ j.fileLen \in Nat /\ j.fileLen < Wide \div 2
       /\ j.extents \in Seq([start : Nat, count : Nat])

VARIABLES
  jump,        \* the jumpstart structure
  extent,      \* extent read next
  driverData,  \* addresses of the bytes collected
  extraction,  \* "new", "reading", "data", "done", "error"
  output         \* the output file: "none", "part", "whole"

driverVars == <<jump, extent, driverData, extraction, output>>

DriverInit ==
  /\ jump \in Jumpstarts
  /\ extent = 1 /\ driverData = <<>> /\ extraction = "new" /\ output = "none"

To(s) == extraction' = s /\ UNCHANGED <<jump, extent, driverData, output>>

\* The counts disagree, or magic or version are wrong.
NewRefused ==
  extraction = "new" /\ (jump.numExtents # Len(jump.extents) \/ ~jump.valid) /\ To("error")

GetEFIDriverData ==
  /\ extraction = "new" /\ jump.numExtents = Len(jump.extents) /\ jump.valid
  /\ To(IF jump.fileLen = 0 THEN "data" ELSE "reading")

\* int64(PrBlockCount) * int64(blockSize): the upper half is negative.
int64(x) == LET y == x % Wide IN IF y >= Wide \div 2 THEN y - Wide ELSE y
bytesInExtent(e) == int64(e.count * DriverBlock)
remainingExpected == jump.fileLen - Len(driverData)
Smaller(a, b) == IF a < b THEN a ELSE b

bytesToRead(e) == Smaller(bytesInExtent(e), remainingExpected)

Current == jump.extents[extent]
AtExtent == extraction = "reading" /\ extent <= Len(jump.extents) /\ remainingExpected > 0

\* Empty extents, and those whose size is negative, are passed over.
SkipExtent ==
  /\ AtExtent /\ (Current.count = 0 \/ bytesToRead(Current) <= 0)
  /\ extent' = extent + 1
  /\ UNCHANGED <<jump, driverData, extraction, output>>

Reads == AtExtent /\ Current.count # 0 /\ bytesToRead(Current) > 0
Offset == Current.start * DriverBlock
Span == Offset..(Offset + bytesToRead(Current) - 1)
Readable == Offset + bytesToRead(Current) <= DeviceLen /\ Span \cap Unreadable = {}

ReadExtentFails == Reads /\ ~Readable /\ To("error")

ReadExtent ==
  /\ Reads /\ Readable
  /\ driverData' = driverData \o [i \in 1..bytesToRead(Current) |-> Offset + i - 1]
  /\ extent' = extent + 1
  /\ UNCHANGED <<jump, extraction, output>>

\* Mutant: what was collected is given, complete or not.
CollectedAny ==
  extraction = "reading" /\ (extent > Len(jump.extents) \/ remainingExpected <= 0) /\ To("data")

Collected ==
  /\ extraction = "reading" /\ (extent > Len(jump.extents) \/ remainingExpected <= 0)
  /\ To(IF Len(driverData) = jump.fileLen THEN "data" ELSE "error")

\* ExtractEFIDriver: the file is created, written and synced; a write that
\* fails leaves the file behind, a sync that fails is logged.
CreateFails == extraction = "data" /\ output = "none" /\ To("error")
WriteFile == extraction = "data" /\ output = "none" /\ extraction' = "done" /\ output' = "whole" /\ UNCHANGED <<jump, extent, driverData>>
WriteFails == extraction = "data" /\ output = "none" /\ extraction' = "error" /\ output' = "part" /\ UNCHANGED <<jump, extent, driverData>>

DriverNext ==
  \/ NewRefused \/ GetEFIDriverData \/ SkipExtent \/ ReadExtentFails \/ ReadExtent \/ Collected
  \/ CreateFails \/ WriteFile \/ WriteFails
DriverEnded == extraction \in {"done", "error"} /\ UNCHANGED driverVars
DriverSpec == DriverInit /\ [][DriverNext \/ DriverEnded]_driverVars

\* AnalyzeEFIJumpstart: the sizes of the extents are summed as uint64.
calculatedTotalSize ==
  LET total[i \in 0..Len(jump.extents)] ==
        IF i = 0 THEN 0 ELSE (total[i - 1] + jump.extents[i].count * DriverBlock) % Wide
  IN  total[Len(jump.extents)]

ConsistencyWarning == calculatedTotalSize < jump.fileLen

-----------------------------------------------------------------------------
(* Properties.                                                             *)

\* How many bytes the first extents have together, and which these are, one
\* extent behind the other.
SizeUpTo(es) ==
  LET size[i \in 0..Len(es)] == IF i = 0 THEN 0 ELSE size[i - 1] + (es[i].count * DriverBlock)
  IN  size
BytesOf(e) == [i \in 1..(e.count * DriverBlock) |-> (e.start * DriverBlock) + i - 1]
BytesUpTo(es) ==
  LET all[i \in 0..Len(es)] == IF i = 0 THEN <<>> ELSE all[i - 1] \o BytesOf(es[i])
  IN  all

\* No size and no sum of sizes overflows.
SizesFit == SizeUpTo(jump.extents)[Len(jump.extents)] < Wide \div 2

\* A driver that is handed out is the first fileLen bytes of its extents, in
\* their order, as long as the sizes do not overflow, and the analyzer does not
\* warn of extents too small for it; and nothing is left on the disk of an
\* extraction that failed before its data was complete (76-137, 85-108, 140-160).
DriverIsItsExtents ==
  /\ extraction \in {"data", "done"} /\ SizesFit =>
       /\ Len(driverData) = jump.fileLen
       /\ driverData = SubSeq(BytesUpTo(jump.extents)[Len(jump.extents)], 1, jump.fileLen)
       /\ ~ConsistencyWarning
  /\ output # "none" => Len(driverData) = jump.fileLen

=============================================================================
