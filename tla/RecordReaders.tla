---------------------------- MODULE RecordReaders ----------------------------
(***************************************************************************)
(* The readers of internal/parsers that turn the bytes of one record into  *)
(* a structure of internal/types.  Each checks the length of its data      *)
(* once, reads field after field at offsets written into the code, and     *)
(* then takes what follows the fixed part: a name, an array whose length   *)
(* is one of the fields, or the rest.                                      *)
(*                                                                         *)
(* A reader is                                                             *)
(*   min     the length its check demands,                                 *)
(*   layout  the widths of the slices it reads, in order; a negative width *)
(*           is passed over without being read,                            *)
(*   opt     slices read one by one only if they fit,                      *)
(*   fills   the structure of RecordFormats that it fills,                 *)
(*   check   after how many fields magic, type or version is compared (0:  *)
(*           never),                                                       *)
(*   tail    what is done with the bytes behind the layout.                *)
(* A slice outside the data is a run-time panic.  The value of the length  *)
(* or count field is any of Counts; uint32 arithmetic is modulo Word32,    *)
(* which stands for 2^32.                                                  *)
(***************************************************************************)
EXTENDS RecordFormats

CONSTANTS
  Word32,          \* modulus of uint32 arithmetic (scaled)
  Counts,          \* values of a length or count field
  LengthsOf(_, _)  \* lengths of the data a reader is given, with a count

ASSUME RecordAssumption == Word32 \in Nat \ {0} /\ Counts \subseteq 0..(Word32 - 1)

\* What is done behind the layout, with n the value of the count field:
\*   none, rest   nothing; all that is left is kept
\*   exact        n items of size bytes, an error if they do not fit
\*   fitting      items are taken as long as they fit
\*   clamped      n bytes, cut off at the end of the data
\*   ifFits       n items if they fit, else none, without an error
\*   slots        n of the max entries read before are looked at
\* The field is taken modulo mask, and refused above max.
Then(kind, size) == [kind |-> kind, size |-> size, mask |-> Word32, max |-> Word32]
None == Then("none", 0)
Rest == Then("rest", 0)
Name == Then("exact", 1)

Reader(min, layout, fills) ==
  [min |-> min, layout |-> layout, opt |-> <<>>, fills |-> fills, check |-> 0, tail |-> None]
With(reader, tail) == [reader EXCEPT !.tail = tail]
Checked(reader, k) == [reader EXCEPT !.check = k]
CheckedLast(reader) == Checked(reader, Len(reader.layout))

\* The object header as most readers take it, and as parseReaper,
\* parseReaperList and parseIntegrityMeta do.
ObjHeader == <<8, 8, 8, 4, 4>>
WideHeader == <<32, 8, 8, 4, 4>>
Key == <<8>>

-----------------------------------------------------------------------------
(* container                                                               *)

parseCheckpointMapping == Reader(40, <<4, 4, 4, 4, 8, 8, 8>>, CheckpointMappingT)
parseCheckpointMap == Reader(40, ObjHeader \o <<4, 4>>, CheckpointMapPhysT)
parseCheckpointMappings == With(parseCheckpointMap, Then("exact", 40))
parseContainerSuperblock ==
  CheckedLast([Reader(1024,
     ObjHeader \o <<4, 4, 8, 8, 8, 8, 16, 8, 8, 4, 4, 8, 8, 4, 4, 4, 4, 4, 4, 8, 8, 8, 4, 4>>
       \o Times(100, <<8>>) \o Times(32, <<8>>) \o <<8, 8>> \o <<8, 8, 8, 16>> \o <<8, 8>>
       \o Times(4, <<8>>) \o <<8, 8, 8>> \o <<8, 8>> \o <<8>>,
     NxSuperblockT) EXCEPT !.opt = <<16>>])
VolumeOIDs == With(parseContainerSuperblock, [Then("slots", 8) EXCEPT !.max = 100])
parseEvictMapping == Reader(16, <<8, 8>>, EvictMappingValT)

(* object_maps, btrees                                                     *)

parseOmapPhys == Reader(72, ObjHeader \o <<4, 4, 4, 4, 8, 8, 8, 8, 8>>, OmapPhysT)
parseBTreeNode ==
  CheckedLast(With(Reader(56, ObjHeader \o <<2, 2, 4>> \o Times(8, <<2>>), BtreeNodePhysT), Rest))
parseBTreeInfo == Reader(48, <<4, 4, 4, 4, 4, 4, 8, 8>>, BtreeInfoT)

(* data_streams                                                            *)

NewCompressedDataHeaderReader == Checked(Reader(16, <<4, 4, 8>>, CompressedDataHeaderT), 1)
parseDataStreamIDKey == Reader(8, Key, JDstreamIdKeyT)
parseDataStreamIDValue == Reader(4, <<4>>, JDstreamIdValT)
parseDataStream == Reader(40, <<8, 8, 8, 8, 8>>, JDstreamT)
parseExtendedAttributeDataStream == Reader(48, <<8, 8, 8, 8, 8, 8>>, JXattrDstreamT)
parseFileExtentKey == Reader(16, Key \o <<8>>, JFileExtentKeyT)
parseFileExtentValue == Reader(24, <<8, 8, 8>>, JFileExtentValT)
parsePhysicalExtentKey == Reader(8, Key, JPhysExtKeyT)
parsePhysicalExtentValue == Reader(20, <<8, 8, 4>>, JPhysExtValT)

(* siblings, snapshot                                                      *)

parseSiblingLinkKey == Reader(16, Key \o <<8>>, JSiblingKeyT)
parseSiblingLinkValue == With(Reader(10, <<8, 2>>, JSiblingValT), Name)
parseSiblingMapKey == Reader(8, Key, JSiblingMapKeyT)
parseSiblingMapValue == Reader(8, <<8>>, JSiblingMapValT)
parseSnapMetaExt == Reader(40, <<4, 4, 8, 16, 8>>, SnapMetaExtT)
parseSnapMetadataKey == Reader(8, Key, JSnapMetadataKeyT)
parseSnapMetadataValue == With(Reader(38, <<8, 8, 8, 8, 8, 4, 4, 2>>, JSnapMetadataValT), Name)
parseSnapNameKey == With(Reader(10, Key \o <<2>>, JSnapNameKeyT), Name)
parseSnapNameValue == Reader(8, <<8>>, JSnapNameValT)

(* file_system_objects                                                     *)

parseDirectoryKey == With(Reader(10, Key \o <<2>>, JDrecKeyT), Name)
\* The length is the field's low ten bits, JDrecLenMask.
parseHashedDirectoryKey ==
  With(Reader(12, Key \o <<4>>, JDrecHashedKeyT), [Name EXCEPT !.mask = 1024])
parseDirectoryValue == With(Reader(18, <<8, 8, 2>>, JDrecValT), Rest)
parseDirStatsKey == Reader(8, Key, JDirStatsKeyT)
\* Mutant: the length check counts a field the value does not have.
parseDirStatsValueLong == Reader(40, <<8, 8, 8, 8>>, JDirStatsValT)
parseDirStatsValue == Reader(32, <<8, 8, 8, 8>>, JDirStatsValT)
parseXattrKey == With(Reader(10, Key \o <<2>>, JXattrKeyT), Name)
parseXattrValue == With(Reader(4, <<2, 2>>, JXattrValT), Rest)
parseInodeKey == Reader(8, Key, JInodeKeyT)
\* Mutant: the flags after the times are taken for a 32-bit field.
parseInodeValueNarrow ==
  With(Reader(92, <<8, 8, 8, 8, 8, 8, 4, 4, 4, 4, 4, 4, 4, 2, 2, 8>>, JInodeValT), Rest)
parseInodeValue ==
  With(Reader(92, <<8, 8, 8, 8, 8, 8, 8, 4, 4, 4, 4, 4, 4, 2, 2, 8>>, JInodeValT), Rest)
parseJKey == Reader(8, Key, JKeyT)

(* sealed_volumes, reaper                                                  *)

parseIntegrityMeta ==
  Reader(152, WideHeader \o <<4, 4, 4, 4, 8>> \o Times(9, <<8>>), IntegrityMetaPhysT)
parseFextTreeKey == Reader(16, <<8, 8>>, FextTreeKeyT)
parseFextTreeVal == Reader(16, <<8, 8>>, FextTreeValT)
parseFileInfoKey == Reader(16, Key \o <<8>>, JFileInfoKeyT)
parseFileInfoValue ==
  With(Reader(4, <<2, 1>>, JFileDataHashValT), [Name EXCEPT !.mask = 256, !.max = 64])
parseApfsReapState == Reader(20, <<8, 8, 4>>, ApfsReapStateT)
parseOmapCleanupState == Reader(56, <<4, 4, 8, 8, 8, 8, 8, 8>>, OmapCleanupStateT)
parseOmapReapState == Reader(28, <<4, 8, 8>>, OmapReapStateT)
parseReaperListEntry == Reader(40, <<4, 4, 4, 4, 8, 8, 8>>, NxReapListEntryT)
parseReaperList ==
  With(Reader(72, WideHeader \o <<8, 4, 4, 4, 4, 4, 4>>, NxReapListPhysT), Then("fitting", 40))
parseReaper ==
  With(Reader(136, WideHeader \o <<8, 8, 8, 8, 4, 4, 4, 4, 8, 8, 8, 4, 4>>, NxReaperPhysT),
       Then("clamped", 1))

(* space_manager                                                           *)

parseChunkInfo == Reader(32, <<8, 8, 4, 4, 8>>, ChunkInfoT)
parseChunkInfoBlock ==
  CheckedLast(With(Reader(40, ObjHeader \o <<4, 4>>, ChunkInfoBlockT), Then("exact", 32)))
parseCibAddrBlock ==
  CheckedLast(With(Reader(40, ObjHeader \o <<4, 4>>, CibAddrBlockT), Then("exact", 8)))
parseSpacemanFreeQueueEntry == Reader(24, <<8, 8, 8>>, SpacemanFreeQueueEntryT)
parseSpacemanFreeQueue == Reader(40, <<8, 8, 8, 2, 2, 4, 8>>, SpacemanFreeQueueT)
parseSpacemanDevice == Reader(56, <<8, 8, 4, 4, 8, 4, 4, 8, 8>>, SpacemanDeviceT)
parseAllocationZoneBoundaries == Reader(16, <<8, 8>>, SpacemanAllocationZoneBoundariesT)
parseAllocationZoneInfo ==
  Reader(136, <<8, 8>> \o Times(7, <<8, 8>>) \o <<2, 2, 4>>, SpacemanAllocationZoneInfoPhysT)
parseDataZoneInfoStruct ==
  Reader(2176, Times(16, <<8, 8>> \o Times(7, <<8, 8>>) \o <<2, 2, 4>>), SpacemanDataZoneInfoPhysT)
\* The check per zone in parseDataZoneInfo never fails behind the 2700 bytes.
parseSpaceManager ==
  CheckedLast(Reader(2700,
    ObjHeader \o <<4, 4, 4, 4>> \o Times(2, <<8, 8, 4, 4, 8, 4, 4, 8, 8>>)
      \o <<4, 4, 8, 4, 4, 8, 8, 8, 8>> \o Times(3, <<8, 8, 8, 2, 2, 4, 8>>)
      \o <<2, 2, 4, 4, 4, 4, 4>> \o Times(16, Times(8, <<8, 8>>) \o <<2, 2, 4>>),
    SpacemanPhysT))

(* encryption, encryption_rolling, volumes                                 *)

parseCryptoKey == Reader(8, Key, JCryptoKeyT)
parseCryptoValue == [Reader(4, <<4>>, JCryptoValT) EXCEPT !.opt = <<20>>]
parseWrappedCryptoState ==
  With(Reader(20, <<2, 2, 4, 4, 4, 2, 2>>, WrappedCryptoStateT),
       [Then("ifFits", 1) EXCEPT !.max = CpMaxWrappedkeysize])
parseMediaKeybag == Reader(48, ObjHeader \o <<2, 2, 4, 8>>, MediaKeybagT)
\* Behind the version, eight bytes are passed over as padding.
parseEncryptionRollingState ==
  Reader(136, ObjHeader \o <<4, 4>> \o <<-8>> \o Times(11, <<8>>), ErStatePhysT)
parseEncryptionRollingV1State ==
  With(Reader(136, ObjHeader \o <<4, 4>> \o <<-8>> \o Times(9, <<8>>) \o <<4, 4, 8>>, ErStatePhysV1T),
       Then("ifFits", 8))
parseRecoveryBlock == With(Reader(48, ObjHeader \o <<8, 8>>, ErRecoveryBlockPhysT), Rest)
parseGeneralBitmap == Reader(56, ObjHeader \o <<8, 8, 8>>, GbitmapPhysT)
parseGeneralBitmapBlock == With(Reader(40, ObjHeader, GbitmapBlockPhysT), Rest)
\* The 20 bytes of the crypto state are passed over; formatted_by and
\* modified_by are passed over as nine fields of eight bytes.
parseVolumeSuperblock ==
  [Checked(Reader(1024,
     ObjHeader \o <<4, 4, 8, 8, 8, 8, 8, 8, 8>> \o <<-2, -2, -4, -4, -4, -2, -2>>
       \o <<4, 4, 4>> \o Times(14, <<8>>) \o <<16, 8, 8>> \o <<-8>> \o Times(8, <<-8>>),
     ApfsSuperblockT), 6) EXCEPT !.opt = <<256, 4, 2>>]

-----------------------------------------------------------------------------
(* Readers of a record the program has written itself: the accessors of    *)
(* the space manager encode a field of theirs again and read it back.      *)

ReadBack(reader, written) == [reader EXCEPT !.fills = written, !.tail = None]
GetChunkInfoReader == ReadBack(parseChunkInfo, <<8, 8, 4, 4, 8>>)
getDeviceReader == ReadBack(parseSpacemanDevice, <<8, 8, 4, 4, 8, 4, 4, 8, 8>>)
GetFreeQueue == ReadBack(parseSpacemanFreeQueue, <<8, 8, 8, 2, 2, 4, 8>>)
GetDataZoneInfo == ReadBack(parseDataZoneInfoStruct, Times(16, Times(8, <<8, 8>>) \o <<2, 2, 4>>))
GetAllocationZoneReader == ReadBack(parseAllocationZoneInfo, Times(8, <<8, 8>>) \o <<2, 2, 4>>)
GetCurrentBoundaries == ReadBack(parseAllocationZoneBoundaries, <<8, 8>>)
GetPreviousBoundary == ReadBack(parseAllocationZoneBoundaries, <<8, 8>>)

-----------------------------------------------------------------------------
(* Records of the file system tree are a key and a value, read in turn.    *)

NewDataStreamIDReader == <<parseDataStreamIDKey, parseDataStreamIDValue>>
NewFileExtentReader == <<parseFileExtentKey, parseFileExtentValue>>
NewPhysicalExtentReader == <<parsePhysicalExtentKey, parsePhysicalExtentValue>>
NewSiblingLinkReader == <<parseSiblingLinkKey, parseSiblingLinkValue>>
NewSiblingMapReader == <<parseSiblingMapKey, parseSiblingMapValue>>
NewSnapMetadataReader == <<parseSnapMetadataKey, parseSnapMetadataValue>>
NewSnapNameReader == <<parseSnapNameKey, parseSnapNameValue>>
NewDirectoryEntryReader ==
  {<<key, parseDirectoryValue>> : key \in {parseDirectoryKey, parseHashedDirectoryKey}}
NewDirectoryStatsReader == <<parseDirStatsKey, parseDirStatsValue>>
NewExtendedAttributeReader == <<parseXattrKey, parseXattrValue>>
NewInodeReader == <<parseInodeKey, parseInodeValue>>
NewFileInfoReader == <<parseFileInfoKey, parseFileInfoValue>>
NewCryptoStateReader == <<parseCryptoKey, parseCryptoValue>>

Pairs ==
  {NewDataStreamIDReader, NewFileExtentReader, NewPhysicalExtentReader, NewSiblingLinkReader,
   NewSiblingMapReader, NewSnapMetadataReader, NewSnapNameReader, NewDirectoryStatsReader,
   NewExtendedAttributeReader, NewInodeReader, NewFileInfoReader, NewCryptoStateReader}
  \cup NewDirectoryEntryReader

\* The structure behind eight bytes, as if the object header had eight.
ReadJumpstartObjectFromPaddr ==
  CheckedLast(With(Reader(152, <<-8, 4, 4, 4, 4, -128>>, NxEfiJumpstartT), Then("exact", 16)))

Singles ==
  {parseCheckpointMapping, parseCheckpointMappings, parseContainerSuperblock, VolumeOIDs,
   parseEvictMapping, parseOmapPhys, parseBTreeNode, parseBTreeInfo,
   NewCompressedDataHeaderReader, parseDataStream, parseExtendedAttributeDataStream,
   parseSnapMetaExt, parseJKey, parseIntegrityMeta, parseFextTreeKey, parseFextTreeVal,
   parseApfsReapState, parseOmapCleanupState, parseOmapReapState, parseReaperListEntry,
   parseReaperList, parseReaper, parseChunkInfo, parseChunkInfoBlock, parseCibAddrBlock,
   parseSpacemanFreeQueueEntry, parseSpacemanFreeQueue, parseSpacemanDevice,
   parseAllocationZoneBoundaries, parseAllocationZoneInfo, parseDataZoneInfoStruct,
   parseSpaceManager, parseWrappedCryptoState, parseMediaKeybag, parseEncryptionRollingState,
   parseEncryptionRollingV1State, parseRecoveryBlock, parseGeneralBitmap,
   parseGeneralBitmapBlock, parseVolumeSuperblock, ReadJumpstartObjectFromPaddr}

Rewritten ==
  {GetChunkInfoReader, getDeviceReader, GetFreeQueue, GetDataZoneInfo, GetAllocationZoneReader,
   GetCurrentBoundaries, GetPreviousBoundary}

AllReaders == Singles \cup Rewritten \cup {p[1] : p \in Pairs} \cup {p[2] : p \in Pairs}

\* Data comes from blocks, of at most 65536 bytes.
ASSUME LengthAssumption ==
  \A r \in AllReaders, n \in Counts \cup {0} : LengthsOf(r, n) \subseteq 0..(Word32 - 1)

VARIABLES
  rec,    \* the readers applied, one per part of the record
  lens,   \* bytes of each part
  count,  \* value of the length or count field
  sound,  \* magic, type and version are what the reader expects
  part,   \* the part being read
  pos,    \* fields of it taken so far
  off,    \* the reader's offset
  took,   \* bytes taken behind the layout
  out     \* "reading", "ok", "error" or "panic"

recVars == <<rec, lens, count, sound, part, pos, off, took, out>>

rdr == rec[part]
dataLen == lens[part]

CountsOf(parts) ==
  IF \E k \in 1..Len(parts) : parts[k].tail.size > 0 THEN Counts ELSE {0}

RecInit ==
  /\ \/ \E r \in Singles :
          /\ rec = <<r>>
          /\ count \in CountsOf(<<r>>)
          /\ \E l \in LengthsOf(r, count) : lens = <<l>>
     \/ \E p \in Pairs :
          /\ rec = p
          /\ count \in CountsOf(p)
          /\ \E k \in LengthsOf(p[1], count), v \in LengthsOf(p[2], count) : lens = <<k, v>>
     \/ \E r \in Rewritten : rec = <<r>> /\ count = 0 /\ lens = <<Size(r.fills)>>
  /\ sound \in (IF rec[1].check = 0 THEN {TRUE} ELSE BOOLEAN)
  /\ part = 1 /\ pos = 0 /\ off = 0 /\ took = 0 /\ out = "reading"

CheckDue == rdr.check > 0 /\ pos = rdr.check

TooShort ==
  /\ out = "reading" /\ pos = 0 /\ dataLen < rdr.min
  /\ out' = "error"
  /\ UNCHANGED <<rec, lens, count, sound, part, pos, off, took>>

CheckFails ==
  /\ out = "reading" /\ CheckDue /\ ~sound
  /\ out' = "error"
  /\ UNCHANGED <<rec, lens, count, sound, part, pos, off, took>>

Reading == out = "reading" /\ dataLen >= rdr.min /\ (CheckDue => sound)
InLayout == pos < Len(rdr.layout)

ReadField ==
  /\ Reading /\ InLayout
  /\ LET w == rdr.layout[pos + 1]
     IN  /\ w < 0 \/ off + w <= dataLen
         /\ off' = off + Width(w)
  /\ pos' = pos + 1
  /\ UNCHANGED <<rec, lens, count, sound, part, took, out>>

ReadBeyond ==
  /\ Reading /\ InLayout
  /\ rdr.layout[pos + 1] > 0 /\ off + rdr.layout[pos + 1] > dataLen
  /\ out' = "panic"
  /\ UNCHANGED <<rec, lens, count, sound, part, pos, off, took>>

\* An optional slice that does not fit leaves the offset where it is.
ReadOptional ==
  /\ Reading /\ ~InLayout
  /\ pos < Len(rdr.layout) + Len(rdr.opt)
  /\ LET w == rdr.opt[pos - Len(rdr.layout) + 1]
     IN  off' = IF off + w <= dataLen THEN off + w ELSE off
  /\ pos' = pos + 1
  /\ UNCHANGED <<rec, lens, count, sound, part, took, out>>

-----------------------------------------------------------------------------
(* What follows the layout.                                                *)

announced == count % rdr.tail.mask
Left == dataLen - off

\* Bytes taken of a tail whose reader gives no error for it.
Taken ==
  CASE rdr.tail.kind \in {"none", "slots"} -> 0
    [] rdr.tail.kind = "rest" -> Left
    [] rdr.tail.kind = "exact" -> announced * rdr.tail.size
    [] rdr.tail.kind = "fitting" ->
         rdr.tail.size * (IF announced * rdr.tail.size <= Left THEN announced ELSE Left \div rdr.tail.size)
    [] rdr.tail.kind = "clamped" ->
         LET end == IF (off + announced) % Word32 > dataLen THEN dataLen ELSE (off + announced) % Word32
         IN  IF end > off THEN end - off ELSE 0
    [] rdr.tail.kind = "ifFits" ->
         LET need == (announced * rdr.tail.size) % Word32 IN IF need <= Left THEN need ELSE 0

TailError ==
  \/ rdr.tail.kind # "slots" /\ announced > rdr.tail.max
  \/ rdr.tail.kind = "exact" /\ announced * rdr.tail.size > Left

TailPanics == rdr.tail.kind = "slots" /\ announced > rdr.tail.max

AtTail == Reading /\ pos = Len(rdr.layout) + Len(rdr.opt)

TailRefused ==
  /\ AtTail /\ TailError
  /\ out' = "error"
  /\ UNCHANGED <<rec, lens, count, sound, part, pos, off, took>>

SlotBeyond ==
  /\ AtTail /\ TailPanics
  /\ out' = "panic"
  /\ UNCHANGED <<rec, lens, count, sound, part, pos, off, took>>

TakeTail ==
  /\ AtTail /\ ~TailError /\ ~TailPanics
  /\ IF part < Len(rec)
     THEN part' = part + 1 /\ pos' = 0 /\ off' = 0 /\ took' = 0 /\ UNCHANGED out
     ELSE out' = "ok" /\ took' = Taken /\ UNCHANGED <<part, pos, off>>
  /\ UNCHANGED <<rec, lens, count, sound>>

RecNext ==
  \/ TooShort \/ CheckFails \/ ReadField \/ ReadBeyond \/ ReadOptional
  \/ TailRefused \/ SlotBeyond \/ TakeTail

RecSpec == RecInit /\ [][RecNext]_recVars

-----------------------------------------------------------------------------
(* Properties.                                                             *)

\* The readers whose check lets data through that they then read beyond.
Understated == {parseOmapPhys, parseSnapMetadataValue, parseReaperList,
                parseContainerSuperblock, VolumeOIDs}

\* Reading never leaves the data (a panic), except: four readers check for
\* fewer bytes than they read, and then only on a record that is cut off; and
\* VolumeOIDs looks at as many slots as the superblock says, of the 100 there
\* are (omap_reader.go:35, snap_metadata_reader.go:61, reaper_list_reader.go:39,
\* container_superblock_reader.go:43, 213).
ReadsStayInData ==
  /\ out = "panic" => \/ rdr \in Understated /\ dataLen < Size(rdr.layout)
                      \/ rdr = VolumeOIDs /\ count > NxMaxFileSystems
  /\ off <= dataLen /\ off + took <= dataLen

\* How many leading fields a reader finds where the structure has them.  Three
\* readers take a header of 32 instead of 8 checksum bytes, the encryption
\* rolling readers pass over eight bytes the structure does not have, the
\* volume superblock's history is passed over too short, and the jumpstart
\* reader passes over 8 of the 32 bytes of the header.
FieldsInPlace(r) ==
  CASE r \in {parseReaper, parseReaperList, parseIntegrityMeta} -> 0
    [] r \in {parseEncryptionRollingState, parseEncryptionRollingV1State} -> 7
    [] r = parseVolumeSuperblock -> 41
    [] r = ReadJumpstartObjectFromPaddr -> 1
    [] OTHER -> Len(r.layout)

\* Every field is read where the structure of internal/types has it, in every
\* reader, up to the field FieldsInPlace names: the next is passed over or taken
\* from elsewhere.  The same for what the space manager's accessors write and read back.
FieldsMatchStruct ==
  LET k == FieldsInPlace(rdr)
  IN  /\ pos <= k => off = Offset(rdr.fills, pos)
      /\ k < Len(rdr.layout) /\ pos = k + 1 =>
           off # Offset(rdr.fills, pos) \/ rdr.layout[pos] < 0

\* Readers that demand more bytes than the structure has.
Demanding == {parseBTreeInfo, parseOmapReapState, parseIntegrityMeta, parseSpaceManager,
              parseEncryptionRollingState, parseEncryptionRollingV1State, parseFileInfoValue,
              parseGeneralBitmapBlock, parseReaper, parseReaperList}

\* A record that is complete is read without an error, and with all the items
\* its count field announces: an error means the part is shorter than the
\* structure, is not of the type asked for, or announces more than is there or
\* than is allowed.  The readers of Demanding refuse some complete records.
CompleteRecordsAreRead ==
  /\ out = "error" => \/ ~sound \/ rdr \in Demanding
                      \/ dataLen < Size(rdr.fills) + announced * rdr.tail.size
                      \/ announced > rdr.tail.max
  /\ out = "ok" /\ rdr.tail.kind \in {"exact", "fitting", "ifFits"}
       /\ dataLen >= Size(rdr.layout) + announced * rdr.tail.size => took = announced * rdr.tail.size

\* The readers take the records that are complete and no others: neither an
\* incomplete one read beyond its end, nor a complete one refused, but for the
\* readers named above.
ReadersTakeCompleteRecords == ReadsStayInData /\ CompleteRecordsAreRead

=============================================================================
