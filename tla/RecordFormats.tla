---------------------------- MODULE RecordFormats ----------------------------
(***************************************************************************)
(* The on-disk structures of internal/types: each is the sequence of the   *)
(* widths, in bytes, of its fields in the order they are declared.  A      *)
(* structure nested in another contributes its own fields; a slice at the  *)
(* end (names, extended fields, arrays whose length is a field) is not     *)
(* part of the fixed record.                                               *)
(***************************************************************************)
EXTENDS Integers, Sequences, FiniteSets

\* n copies of the fields s: an array of the record s.
Times(n, s) == [k \in 1..(n * Len(s)) |-> s[((k - 1) % Len(s)) + 1]]

\* Bytes of the first k fields of s; a field that is passed over (negative in
\* a reader's layout) counts with its width.
Width(w) == IF w < 0 THEN -w ELSE w
Offset(s, k) ==
  Cardinality(UNION {{<<j, b>> : b \in 1..Width(s[j])} : j \in 1..k})
Size(s) == Offset(s, Len(s))

-----------------------------------------------------------------------------
(* objects.go, general_types.go, btree.go, object_maps.go                  *)

ObjPhysT == <<8, 8, 8, 4, 4>>
Prange == <<8, 8>>
NlocT == <<2, 2>>
BtreeNodePhysT == ObjPhysT \o <<2, 2, 4>> \o Times(4, NlocT)
BtreeInfoFixedT == <<4, 4, 4, 4>>
BtreeInfoT == BtreeInfoFixedT \o <<4, 4, 8, 8>>
OmapKeyT == <<8, 8>>
OmapPhysT == ObjPhysT \o <<4, 4, 4, 4, 8, 8, 8, 8, 8>>

(* container.go                                                            *)

NxMaxFileSystems == 100
NxNumCounters == 32
NxEphInfoCount == 4
NxSuperblockT ==
  ObjPhysT \o <<4, 4, 8, 8, 8, 8, 16, 8, 8, 4, 4, 8, 8, 4, 4, 4, 4, 4, 4, 8, 8, 8, 4, 4>>
    \o Times(NxMaxFileSystems, <<8>>) \o Times(NxNumCounters, <<8>>)
    \o Prange \o <<8, 8, 8, 16>> \o Prange \o Times(NxEphInfoCount, <<8>>)
    \o <<8, 8, 8>> \o Prange \o <<8>> \o Prange
CheckpointMappingT == <<4, 4, 4, 4, 8, 8, 8>>
CheckpointMapPhysT == ObjPhysT \o <<4, 4>>
EvictMappingValT == <<8, 8>>

(* compression.go, data_streams.go, file_system_objects.go, siblings.go,   *)
(* snapshot.go, efi_jumpstart.go                                           *)

CompressedDataHeaderT == <<4, 4, 8>>
JKeyT == <<8>>
JPhysExtKeyT == JKeyT
JPhysExtValT == <<8, 8, 4>>
JFileExtentKeyT == JKeyT \o <<8>>
JFileExtentValT == <<8, 8, 8>>
JDstreamIdKeyT == JKeyT
JDstreamIdValT == <<4>>
JDstreamT == <<8, 8, 8, 8, 8>>
JXattrDstreamT == <<8>> \o JDstreamT
JInodeKeyT == JKeyT
JInodeValT == <<8, 8, 8, 8, 8, 8, 8, 4, 4, 4, 4, 4, 4, 2, 2, 8>>
JDrecKeyT == JKeyT \o <<2>>
JDrecHashedKeyT == JKeyT \o <<4>>
JDrecValT == <<8, 8, 2>>
JDirStatsKeyT == JKeyT
JDirStatsValT == <<8, 8, 8, 8>>
JXattrKeyT == JKeyT \o <<2>>
JXattrValT == <<2, 2>>
JSiblingKeyT == JKeyT \o <<8>>
JSiblingValT == <<8, 2>>
JSiblingMapKeyT == JKeyT
JSiblingMapValT == <<8>>
JSnapMetadataKeyT == JKeyT
JSnapMetadataValT == <<8, 8, 8, 8, 8, 4, 4, 2>>
JSnapNameKeyT == JKeyT \o <<2>>
JSnapNameValT == <<8>>
SnapMetaExtT == <<4, 4, 8, 16, 8>>
NxEfiJumpstartT == ObjPhysT \o <<4, 4, 4, 4>> \o Times(16, <<8>>)

(* sealed_volumes.go, reaper.go                                            *)

IntegrityMetaPhysT == ObjPhysT \o <<4, 4, 4, 4, 8>> \o Times(9, <<8>>)
FextTreeKeyT == <<8, 8>>
FextTreeValT == <<8, 8>>
JFileInfoKeyT == JKeyT \o <<8>>
JFileDataHashValT == <<2, 1>>
NxReaperPhysT == ObjPhysT \o <<8, 8, 8, 8, 4, 4, 4, 4, 8, 8, 8, 4, 4>>
NxReapListPhysT == ObjPhysT \o <<8, 4, 4, 4, 4, 4, 4>>
NxReapListEntryT == <<4, 4, 4, 4, 8, 8, 8>>
OmapReapStateT == <<4>> \o OmapKeyT
OmapCleanupStateT == <<4, 4, 8, 8, 8, 8>> \o OmapKeyT
ApfsReapStateT == <<8, 8, 4>>

(* space_manager.go                                                        *)

SmAllocZoneNumPreviousBoundaries == 7
SmDataZoneAllocZoneCount == 8
SdCount == 2
SfqCount == 3
ChunkInfoT == <<8, 8, 4, 4, 8>>
ChunkInfoBlockT == ObjPhysT \o <<4, 4>>
CibAddrBlockT == ObjPhysT \o <<4, 4>>
SpacemanFreeQueueKeyT == <<8, 8>>
SpacemanFreeQueueEntryT == SpacemanFreeQueueKeyT \o <<8>>
SpacemanFreeQueueT == <<8, 8, 8, 2, 2, 4, 8>>
SpacemanDeviceT == <<8, 8, 4, 4, 8, 4, 4, 8, 8>>
SpacemanAllocationZoneBoundariesT == <<8, 8>>
SpacemanAllocationZoneInfoPhysT ==
  SpacemanAllocationZoneBoundariesT
    \o Times(SmAllocZoneNumPreviousBoundaries, SpacemanAllocationZoneBoundariesT) \o <<2, 2, 4>>
SpacemanDataZoneInfoPhysT ==
  Times(SdCount * SmDataZoneAllocZoneCount, SpacemanAllocationZoneInfoPhysT)
SpacemanPhysT ==
  ObjPhysT \o <<4, 4, 4, 4>> \o Times(SdCount, SpacemanDeviceT)
    \o <<4, 4, 8, 4, 4, 8, 8, 8, 8>> \o Times(SfqCount, SpacemanFreeQueueT)
    \o <<2, 2, 4, 4, 4, 4, 4>> \o SpacemanDataZoneInfoPhysT

(* encryption.go, encryption_rolling.go, volumes.go                        *)

CpMaxWrappedkeysize == 128
JCryptoKeyT == JKeyT
WrappedCryptoStateT == <<2, 2, 4, 4, 4, 2, 2>>
WrappedMetaCryptoStateT == <<2, 2, 4, 4, 4, 2, 2>>
JCryptoValT == <<4>> \o WrappedCryptoStateT
KbLockerT == <<2, 2, 4, 8>>
KeybagEntryT == <<16, 2, 2, 4>>
XFieldT == <<1, 1, 2>>
MediaKeybagT == ObjPhysT \o KbLockerT
ErStatePhysHeaderT == ObjPhysT \o <<4, 4>>
ErStatePhysT == ErStatePhysHeaderT \o Times(11, <<8>>)
ErStatePhysV1T == ErStatePhysHeaderT \o Times(9, <<8>>) \o <<4, 4, 8>>
ErRecoveryBlockPhysT == ObjPhysT \o <<8, 8>>
GbitmapBlockPhysT == ObjPhysT
GbitmapPhysT == ObjPhysT \o <<8, 8, 8>>
ApfsMaxHist == 8
ApfsVolnameLen == 256
ApfsModifiedNamelen == 32
ApfsModifiedByT == <<ApfsModifiedNamelen, 8, 8>>
ApfsSuperblockT ==
  ObjPhysT \o <<4, 4, 8, 8, 8, 8, 8, 8, 8>> \o WrappedMetaCryptoStateT
    \o <<4, 4, 4>> \o Times(14, <<8>>) \o <<16, 8, 8>>
    \o ApfsModifiedByT \o Times(ApfsMaxHist, ApfsModifiedByT)
    \o <<ApfsVolnameLen, 4, 2, 2, 8, 8, 8, 8, 8, 16, 8, 8, 4, 4, 8>>

=============================================================================
