-------------------------- MODULE JumpstartLocator --------------------------
(***************************************************************************)
(* APFSJumpstartLocator of efi_jumpstart/efi_jumpstart_locator.go: the EFI *)
(* jumpstart is looked for at the address the superblock names, then along *)
(* the checkpoint maps, and as a last resort by its signature.  A disk has *)
(* a superblock and blocks; a block is readable or not, and has a type, a  *)
(* number of mappings, the mappings and the flag "last", and may hold the  *)
(* signature.  Address 0 means "none" throughout the code.                 *)
(***************************************************************************)
EXTENDS Integers, Sequences

CONSTANTS
  JumpDisks,         \* [superblock, at : address -> block, partitions : set of types]
  MaxCount,      \* mappings a map may announce, 1000
  MapsInBlock,   \* mappings that fit into a block
  ScanBlocks,    \* blocks the signature scan looks at, 1024
  DefaultBlocks, \* size of the descriptor area if the superblock has none, 64
  DefaultBase,   \* its address then
  FlagBit,       \* 2^31: the flag in the number of blocks
  Partitions     \* the UUIDs asked for; "disk" for FindEFIJumpstart

ASSUME LocatorAssumption ==
  /\ {MaxCount, MapsInBlock, ScanBlocks, DefaultBlocks, DefaultBase, FlagBit} \subseteq Nat \ {0}
  /\ \A d \in JumpDisks :
       /\ {d.superblock.base, d.superblock.blocks, d.superblock.index, d.superblock.next} \subseteq Nat
       /\ \A a \in DOMAIN d.at : d.at[a].count \in Nat /\ Len(d.at[a].maps) \in Nat

VARIABLES
  jdisk,    \* the disk
  uuid,    \* partition asked for
  stage,   \* "start", "latest", "indexed", "maps", "chain", "scan"
  block,   \* address or index of the block looked at next
  located,  \* "searching", "found", "absent", "error"
  paddr    \* address found

jumpVars == <<jdisk, uuid, stage, block, located, paddr>>

JumpInit ==
  /\ jdisk \in JumpDisks /\ uuid \in Partitions
  /\ stage = "start" /\ block = 0
  /\ located = "searching" /\ paddr = 0

sb == jdisk.superblock
NoBlock == [readable |-> FALSE, type |-> "other", count |-> 0, maps |-> <<>>, last |-> TRUE, signature |-> FALSE]
At(a) == IF a \in DOMAIN jdisk.at THEN jdisk.at[a] ELSE NoBlock

descBase == IF sb.base # 0 THEN sb.base ELSE DefaultBase
areaBlocks == IF sb.blocks > 0 THEN sb.blocks % FlagBit ELSE DefaultBlocks

\* The maps are read every 48 bytes, a mapping has 40: what is read as the k-th
\* is a mapping only where the two meet, and else begins within one.
MappingSize == 40
MappingStride == 48
Mapping(b, k) ==
  LET p == (k - 1) * MappingStride
      i == (p \div MappingSize) + 1
  IN  IF p % MappingSize = 0 /\ i <= Len(b.maps) THEN b.maps[i] ELSE [type |-> "other", paddr |-> 0]

CpmMap(b) == [k \in 1..b.count |-> Mapping(b, k)]

\* readCheckpointMap: mappings that do not fit are read from the blocks behind,
\* where the end of the disk is no error.
MapRead(a) ==
  /\ At(a).readable /\ At(a).count <= MaxCount
  /\ At(a).count > MapsInBlock =>
       \A b \in (a + 1)..(a + (At(a).count - 1) \div MapsInBlock) : b \in DOMAIN jdisk.at => At(b).readable

\* readCheckpointMapFromPaddr: all mappings must be in the block.
MapReadFromPaddr(a) == At(a).readable /\ At(a).count <= MapsInBlock

isValidCheckpointMap(b) == b.type = "map" /\ b.count # 0

Named(b, type) == {k \in 1..b.count : CpmMap(b)[k].type = type}
First(b, type) == CpmMap(b)[CHOOSE k \in Named(b, type) : \A j \in Named(b, type) : k <= j].paddr

End(a, p) == located' = a /\ paddr' = p /\ UNCHANGED <<jdisk, uuid, stage, block>>
Go(s, b) == stage' = s /\ block' = b /\ UNCHANGED <<jdisk, uuid, located, paddr>>
In(s) == located = "searching" /\ stage = s

\* The UUID must be the APFS partition type, the partitions listed are the EFI
\* system partitions, each under its type: none can have it.
ListEFIPartitions == {t \in jdisk.partitions : t = "efi"}
FindEFIJumpstartInPartition ==
  /\ In("start") /\ uuid # "disk"
  /\ IF uuid = "apfs" /\ uuid \in ListEFIPartitions THEN Go("start", 0) ELSE End("error", 0)

AskedDisk == In("start") /\ uuid = "disk"
SuperblockBad == ~sb.readable \/ ~sb.magic
IndicesBad == sb.index >= areaBlocks \/ sb.next >= areaBlocks

SuperblockFails == AskedDisk /\ SuperblockBad /\ End("error", 0)
SuperblockNames == AskedDisk /\ ~SuperblockBad /\ sb.jumpstart # 0 /\ End("found", sb.jumpstart)
IndicesFail == AskedDisk /\ ~SuperblockBad /\ sb.jumpstart = 0 /\ IndicesBad /\ End("error", 0)

latestIndex == IF sb.next = 0 THEN areaBlocks - 1 ELSE sb.next - 1

SearchCheckpoints ==
  /\ AskedDisk /\ ~SuperblockBad /\ sb.jumpstart = 0 /\ ~IndicesBad
  /\ Go("latest", descBase + latestIndex)

\* Mutant: a map that cannot be read leads to the signature scan too.
MapFailsScans == (In("latest") \/ In("indexed")) /\ ~MapRead(block) /\ Go("scan", 0)

MapFails == (In("latest") \/ In("indexed")) /\ ~MapRead(block) /\ End("error", 0)

MapValid ==
  /\ In("latest") \/ In("indexed")
  /\ MapRead(block) /\ isValidCheckpointMap(At(block))
  /\ Go("chain", block)

LatestInvalid ==
  /\ In("latest") /\ MapRead(block) /\ ~isValidCheckpointMap(At(block))
  /\ Go("indexed", descBase + sb.index)

IndexedInvalid ==
  /\ In("indexed") /\ MapRead(block) /\ ~isValidCheckpointMap(At(block))
  /\ Go("maps", 0)

Usable(a) == MapRead(a) /\ isValidCheckpointMap(At(a))
ScanMap ==
  /\ In("maps") /\ block < areaBlocks
  /\ IF Usable(descBase + block) THEN Go("chain", descBase + block) ELSE Go("maps", block + 1)

NoMap == In("maps") /\ block = areaBlocks /\ Go("scan", 0)

JumpstartMapped ==
  /\ In("chain") /\ Named(At(block), "jumpstart") # {}
  /\ LET p == First(At(block), "jumpstart") IN IF p = 0 THEN Go("scan", 0) ELSE End("found", p)

LastMap ==
  /\ In("chain") /\ Named(At(block), "jumpstart") = {}
  /\ At(block).last \/ Named(At(block), "map") = {}
  /\ Go("scan", 0)

\* Whatever is there is taken for a map.
FollowMap ==
  /\ In("chain") /\ Named(At(block), "jumpstart") = {}
  /\ ~At(block).last /\ Named(At(block), "map") # {}
  /\ LET p == First(At(block), "map") IN IF MapReadFromPaddr(p) THEN Go("chain", p) ELSE End("error", 0)

\* Mutant: an unreadable block is tried again.
ScanSignatureRetries ==
  /\ In("scan") /\ block < ScanBlocks
  /\ IF At(block).readable /\ At(block).signature THEN End(IF block = 0 THEN "absent" ELSE "found", block)
     ELSE Go("scan", IF At(block).readable THEN block + 1 ELSE block)

\* Blocks that cannot be read are skipped; address 0 is "not found".
ScanSignature ==
  /\ In("scan") /\ block < ScanBlocks
  /\ IF At(block).readable /\ At(block).signature THEN End(IF block = 0 THEN "absent" ELSE "found", block)
     ELSE Go("scan", block + 1)

SignatureAbsent == In("scan") /\ block = ScanBlocks /\ End("absent", 0)

JumpStep ==
  \/ FindEFIJumpstartInPartition \/ SuperblockFails \/ SuperblockNames \/ IndicesFail
  \/ SearchCheckpoints \/ MapFails \/ MapValid \/ LatestInvalid \/ IndexedInvalid
  \/ ScanMap \/ NoMap \/ JumpstartMapped \/ LastMap \/ FollowMap \/ ScanSignature \/ SignatureAbsent

JumpEnded == located # "searching" /\ UNCHANGED jumpVars
JumpNext == JumpStep \/ JumpEnded
JumpSpec == JumpInit /\ [][JumpNext]_jumpVars /\ WF_jumpVars(JumpStep)

-----------------------------------------------------------------------------
(* Properties.                                                             *)

Where == DOMAIN jdisk.at
Succ(a) ==
  IF Named(At(a), "jumpstart") # {} \/ At(a).last \/ Named(At(a), "map") = {} THEN {}
  ELSE {First(At(a), "map")}

\* The maps along the chain that begins at a: the least set of addresses with a
\* and the map that follows each.
Addresses(a) == {a} \cup UNION {{At(x).maps[i].paddr : i \in 1..Len(At(x).maps)} : x \in Where}
ChainFrom(a) ==
  {y \in Addresses(a) : \A S \in SUBSET Addresses(a) :
     a \in S /\ (\A x \in S : Succ(x) \subseteq S) => y \in S}

Area == {descBase + i : i \in 0..(areaBlocks - 1)}
Start ==
  LET latest == descBase + latestIndex
      indexed == descBase + sb.index
      usable == {u \in Area : Usable(u)}
  IN  IF Usable(latest) THEN latest
      ELSE IF Usable(indexed) THEN indexed
      ELSE IF usable = {} THEN 0 ELSE CHOOSE u \in usable : \A v \in usable : u <= v

\* "Only fall back to signature scanning for 'no valid checkpoint map found'
\* errors.  Preserve other errors like read failures or invalid indices" (281):
\* an address the scan found is given only when the maps at the two indices
\* could be read and no map of the chain names a jumpstart, and it is the first
\* block with the signature.
ScanIsLastResort ==
  located = "found" /\ stage = "scan" =>
    /\ sb.jumpstart = 0
    /\ MapRead(descBase + latestIndex)
    /\ ~Usable(descBase + latestIndex) => MapRead(descBase + sb.index)
    /\ Start # 0 => \A a \in ChainFrom(Start) :
                       Named(At(a), "jumpstart") # {} => First(At(a), "jumpstart") = 0
    /\ \A a \in 0..(paddr - 1) : ~(At(a).readable /\ At(a).signature)

\* An address found in a map is that of the first map of the chain with a
\* jumpstart, and the "not found" of the whole search is true of every block it
\* could read but the superblock's.
FoundAlongChain ==
  /\ located = "found" /\ stage = "chain" =>
       \E a \in ChainFrom(Start) : Named(At(a), "jumpstart") # {} /\ paddr = First(At(a), "jumpstart")
  /\ located = "absent" /\ ~At(0).signature =>
       \A a \in 1..(ScanBlocks - 1) : ~(At(a).readable /\ At(a).signature)

\* The address handed out comes from the first source that has one, in the order
\* the locator promises: the superblock, the chain of maps, the scan.
LocatedInOrder == ScanIsLastResort /\ FoundAlongChain

\* Maps that name each other in a circle: the search along them never ends.
Circular == \E C \in SUBSET Where : C # {} /\ \A a \in C : Succ(a) # {} /\ Succ(a) \subseteq C

\* Every search ends, unless the maps are circular.
LocateEnds == Circular \/ <>(located # "searching")

=============================================================================
