----------------------------- MODULE VolumeService -----------------------------
(***************************************************************************)
(* services/volume_service.go: opening a volume by its OID, through the    *)
(* object map or, failing that, by looking for a superblock, and the space *)
(* figures reported for it.                                                *)
(*                                                                         *)
(* disk.blocks[b] is what block b holds: a volume superblock [oid, quota,  *)
(* alloc, short], where short means that fewer bytes than a superblock are *)
(* there, or NotVolume.  disk.map[oid] is where the object map puts an     *)
(* object.  Any single read may fail.                                      *)
(***************************************************************************)
EXTENDS Integers

CONSTANTS
  Disks,      \* the containers considered
  VolumeOIDs, \* OIDs asked for
  ScanEnd,    \* the scan looks at blocks 1..ScanEnd-1 (500 in the code)
  BlockSize,
  Word        \* integers are computed modulo this (2^64)

ASSUME VolumeAssumption ==
  /\ VolumeOIDs \subseteq Nat /\ ScanEnd \in Nat
  /\ BlockSize \in Nat \ {0} /\ Word \in Nat \ {0}
  /\ \A d \in Disks : \A b \in DOMAIN d.blocks :
       d.blocks[b].quota \in Nat /\ d.blocks[b].alloc \in Nat /\ d.blocks[b].short \in BOOLEAN

VARIABLES
  disk,
  step,      \* "idle", "resolve", "direct", "scan", "read", then "open" or "failed"
  asked,     \* volumeOID
  addr,      \* physicalAddr, or the block the scan is at
  volumeSB   \* the superblock parsed, or NotVolume

volVars == <<disk, step, asked, addr, volumeSB>>

NotVolume == [oid |-> 0, quota |-> 0, alloc |-> 0, short |-> FALSE]

VolInit ==
  /\ disk \in Disks
  /\ step = "idle" /\ asked = 0 /\ addr = 0 /\ volumeSB = NotVolume

-----------------------------------------------------------------------------

\* NewVolumeService(container, oid); OID 0 is refused.
NewVolumeService ==
  /\ step \in {"idle", "open", "failed"}
  /\ \E oid \in VolumeOIDs : asked' = oid /\ step' = IF oid = 0 THEN "failed" ELSE "resolve"
  /\ addr' = 0 /\ volumeSB' = NotVolume
  /\ UNCHANGED disk

\* NewVolumeServiceFromPhysicalOID takes the OID for a block number.
NewVolumeServiceFromPhysicalOID ==
  /\ step \in {"idle", "open", "failed"}
  /\ \E oid \in VolumeOIDs : /\ asked' = oid /\ addr' = oid
                             /\ step' = IF oid = 0 THEN "failed" ELSE "read"
  /\ volumeSB' = NotVolume
  /\ UNCHANGED disk

Resolved ==
  /\ step = "resolve" /\ asked \in DOMAIN disk.map
  /\ addr' = disk.map[asked] /\ step' = "read"
  /\ UNCHANGED <<disk, asked, volumeSB>>

\* Fallback 1: the OID as a block number.  Also when a read on the way failed.
NotResolved ==
  /\ step = "resolve"
  /\ addr' = asked /\ step' = "direct"
  /\ UNCHANGED <<disk, asked, volumeSB>>

isValidVolumeSuperblock(b) == b \in DOMAIN disk.blocks /\ disk.blocks[b] # NotVolume

DirectHit ==
  /\ step = "direct" /\ isValidVolumeSuperblock(addr)
  /\ step' = "read"
  /\ UNCHANGED <<disk, asked, addr, volumeSB>>

\* Fallback 2: scan from block 1.  A read that fails counts as no superblock.
DirectMiss ==
  /\ step = "direct"
  /\ addr' = 1 /\ step' = "scan"
  /\ UNCHANGED <<disk, asked, volumeSB>>

ScanHit ==
  /\ step = "scan" /\ addr < ScanEnd /\ isValidVolumeSuperblock(addr)
  /\ step' = "read"
  /\ UNCHANGED <<disk, asked, addr, volumeSB>>

ScanMiss ==
  /\ step = "scan" /\ addr < ScanEnd
  /\ addr' = addr + 1
  /\ UNCHANGED <<disk, step, asked, volumeSB>>

ScanEnds ==
  /\ step = "scan" /\ addr = ScanEnd
  /\ step' = "failed"
  /\ UNCHANGED <<disk, asked, addr, volumeSB>>

\* Mutant: the magic number is not checked again.
OpenVolumeUnchecked ==
  /\ step = "read" /\ addr \in DOMAIN disk.blocks
  /\ volumeSB' = disk.blocks[addr] /\ step' = "open"
  /\ UNCHANGED <<disk, asked, addr>>

\* The block is read once more, and its magic number and length checked.
OpenVolume ==
  /\ step = "read" /\ isValidVolumeSuperblock(addr) /\ ~disk.blocks[addr].short
  /\ volumeSB' = disk.blocks[addr] /\ step' = "open"
  /\ UNCHANGED <<disk, asked, addr>>

OpenFails ==
  /\ step = "read"
  /\ step' = "failed"
  /\ UNCHANGED <<disk, asked, addr, volumeSB>>

VolStep == Resolved \/ NotResolved \/ DirectHit \/ DirectMiss \/ ScanHit \/ ScanMiss
           \/ ScanEnds \/ OpenVolume \/ OpenFails

VolNext == NewVolumeService \/ NewVolumeServiceFromPhysicalOID \/ VolStep

-----------------------------------------------------------------------------
(* GetSpaceUsageStats and GetVolumeMetadata, which report the same figures. *)

FreeBlocks(sb) == (sb.quota - sb.alloc) % Word
SpaceStats(sb) ==
  [TotalCapacity |-> (sb.quota * BlockSize) % Word, UsedSpace |-> (sb.alloc * BlockSize) % Word,
   FreeSpace |-> (FreeBlocks(sb) * BlockSize) % Word]

\* In percent, capped.
SpaceUtilization(sb) ==
  IF sb.quota = 0 THEN 0
  ELSE LET u == (sb.alloc * 100) \div sb.quota IN IF u > 100 THEN 100 ELSE u

\* Validate of the superblock reader, as far as space is concerned.
Validate(sb) == ~(sb.quota > 0 /\ sb.alloc > sb.quota)

-----------------------------------------------------------------------------
(* Properties.                                                             *)

\* A service that was opened has a superblock, whichever way it was found, and
\* if it was found where the object map has it, its own (22-83).
OpenHasSuperblock ==
  step = "open" =>
    /\ volumeSB # NotVolume /\ ~volumeSB.short
    /\ asked \in DOMAIN disk.map /\ addr = disk.map[asked] => volumeSB = disk.blocks[disk.map[asked]]

\* For a volume within a quota, free and used space add up to the capacity and
\* the utilization says the same; without a quota, which is a quota of 0, the
\* subtraction wraps as soon as a block is allocated (150-161, volume_space_management.go:40-52).
SpaceAddsUp ==
  step = "open" =>
    LET s == SpaceStats(volumeSB)
    IN  IF volumeSB.quota > 0 /\ Validate(volumeSB)
        THEN s.FreeSpace + s.UsedSpace = s.TotalCapacity
               /\ SpaceUtilization(volumeSB) * s.TotalCapacity <= 100 * s.UsedSpace
        ELSE volumeSB.alloc > 0 => s.FreeSpace > s.TotalCapacity

\* A volume that is open reports a superblock that is there, and its space.
OpenVolumeIsSound == OpenHasSuperblock /\ SpaceAddsUp

\* Opening ends: the scan is bounded whatever the blocks hold.
OpeningEnds == step = "resolve" ~> step \in {"open", "failed"}

=============================================================================
