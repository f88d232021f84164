------------------------------ MODULE MCServices ------------------------------
(***************************************************************************)
(* The parts that open something, beside each other, one of them at work.  *)
(* Device images are scaled: a block is 2 bytes, the common offsets are 0, *)
(* 2 and 8, and the first entry detection reads is the second of the table *)
(* (in the code the ninth: the table starts at LBA 2 and it reads from LBA *)
(* 4 on).  Types of superblocks: 1 is ObjectTypeNxSuperblock as the        *)
(* service compares it, 129 the same with a storage flag (0x80000001).     *)
(***************************************************************************)
EXTENDS VolumeService, ObjectLocator, CheckpointDiscovery, DMGDevice, JumpstartLocator, EFIDriver, TLC

VARIABLE working  \* which part is used

VSB(o, q, a, s) == [oid |-> o, quota |-> q, alloc |-> a, short |-> s]

\* Volumes 7 and 8: mapped, not mapped, mapped to a block without a superblock;
\* within its quota, without one, above it; a superblock cut off.
MCDisks ==
  {[blocks |-> b, map |-> m] :
     b \in {1 :> NotVolume @@ 2 :> VSB(7, 10, 4, FALSE) @@ 3 :> VSB(8, 0, 5, FALSE),
            1 :> VSB(8, 3, 9, TRUE) @@ 3 :> VSB(7, 16, 16, FALSE) @@ 4 :> VSB(8, 3, 9, FALSE)},
     m \in {7 :> 2, 7 :> 3 @@ 8 :> 4, 7 :> 1, 3 :> 2}}

\* Object 1 names 2 twice, itself in the last word and no plausible OID; object 2
\* moves on; object 3 is found only before the medium is written.
MCWords(o, v) == CASE o = 1 -> <<2, 0, 2, 3, 999, 1>> [] o = 2 -> <<1 + v, 4>> [] OTHER -> <<0, o>>
MCMapped(o, v) == o # 3 \/ v = 0
MCKnown == <<1, 2>>

MCCommonOffsets == <<0, 2, 8>>
Part(a, s) == [apfs |-> a, start |-> s]
Image(gpt, parts, magic, start) ==
  [size |-> 13, gpt |-> gpt, entries |-> parts, magic |-> magic, at |-> start]

\* Raw, at a common offset, at another block boundary (with a copy of the
\* superblock behind it, then at a common offset), past what is looked at, and
\* in the partition the table names (with an older superblock left before it);
\* in the last one it is the table's first entry.
MCImages ==
  { Image(FALSE, <<>>, {0, 4}, 0), Image(FALSE, <<>>, {2, 6}, 2),
    Image(FALSE, <<>>, {6, 10}, 6), Image(FALSE, <<>>, {6, 8}, 6), Image(FALSE, <<>>, {12}, 12),
    Image(TRUE, <<Part(FALSE, 1), Part(FALSE, 3), Part(TRUE, 5), Part(TRUE, 7)>>, {2, 5}, 5),
    Image(TRUE, <<Part(FALSE, 1)>>, {8}, 8),
    Image(TRUE, <<Part(TRUE, 5)>>, {5}, 5) }

\* Blocks of the descriptor area: no map, unreadable, with too many mappings,
\* with a jumpstart mapping (second, where it is misread, or at address 0), with
\* a mapping of another map, of a cycle, and last.
Blk(t, n, ms, last) == [NoBlock EXCEPT !.readable = TRUE, !.type = t, !.count = n, !.maps = ms, !.last = last]
MapTo(t, a, n, last) ==
  Blk("map", n, <<[type |-> t, paddr |-> a], [type |-> "jumpstart", paddr |-> 6]>>, last)
Plain == Blk("other", 0, <<>>, FALSE)
Signed == [Plain EXCEPT !.signature = TRUE]
AreaBlocks ==
  {Plain, NoBlock, Blk("map", 9, <<>>, FALSE), MapTo("jumpstart", 0, 1, FALSE), MapTo("map", 2, 1, FALSE),
   MapTo("map", 3, 3, FALSE), MapTo("map", 3, 1, TRUE)}
Super(r, m, j, b, n, i, x) ==
  [readable |-> r, magic |-> m, jumpstart |-> j, base |-> b, blocks |-> n, index |-> i, next |-> x]
JDisk(s, a, b, c, d) ==
  [superblock |-> s, at |-> 0 :> Plain @@ 1 :> a @@ 2 :> b @@ 3 :> c @@ 4 :> d, partitions |-> {"efi", "apfs"}]
MCJumpDisks ==
  {JDisk(Super(TRUE, TRUE, 0, b, n, i, x), a1, a2, a3, a4) :
     b \in {0, 1}, n \in {10}, i \in {0, 1}, x \in {0, 1}, a1 \in AreaBlocks, a2 \in AreaBlocks,
     a3 \in {NoBlock, MapTo("jumpstart", 7, 1, FALSE), MapTo("map", 2, 1, FALSE), Signed}, a4 \in {Signed, Plain}}
  \cup {JDisk(Super(r, m, j, 0, n, i, x), Plain, Plain, Plain, Signed) :
          r \in BOOLEAN, m \in BOOLEAN, j \in {0, 5}, n \in {0, 8}, i \in {1, 2}, x \in {0, 9}}

\* Drivers of 0 to 5 bytes in up to two extents, with empty, unreadable and
\* oversized ones; 40 blocks are 80 bytes, a negative size.
Ext(s, c) == [start |-> s, count |-> c]
Jump(v, l, n, es) == [valid |-> v, fileLen |-> l, numExtents |-> n, extents |-> es]
MCJumpstarts ==
  {Jump(TRUE, l, Len(es), es) :
     l \in {0, 1, 2, 5},
     es \in {<<>>, <<Ext(1, 1)>>, <<Ext(3, 2), Ext(1, 2)>>, <<Ext(3, 0), Ext(1, 3)>>, <<Ext(0, 40), Ext(1, 3)>>,
             <<Ext(5, 1), Ext(0, 1)>>, <<Ext(7, 1)>>}}
  \cup {Jump(FALSE, 1, 1, <<Ext(1, 1)>>), Jump(TRUE, 1, 2, <<Ext(1, 1)>>)}

Parts == {"volume", "locator", "checkpoint", "dmg", "jumpstart", "driver"}
Some(S) == CHOOSE x \in S : TRUE
AnyDisks == Some(Disks)
AnyImages == Some(Images)
AnyJumpDisks == Some(JumpDisks)
AnyJumpstarts == Some(Jumpstarts)

MCInit ==
  /\ working \in Parts
  /\ IF working = "volume" THEN TRUE ELSE disk = AnyDisks
  /\ IF working = "checkpoint" THEN TRUE ELSE contiguous = TRUE /\ storedType = TypeNx /\ fromDevice = FALSE
  /\ IF working = "dmg" THEN TRUE ELSE image = AnyImages /\ aligned = TRUE
  /\ IF working = "jumpstart" THEN TRUE ELSE jdisk = AnyJumpDisks /\ uuid = "disk"
  /\ IF working = "driver" THEN TRUE ELSE jump = AnyJumpstarts
  /\ VolInit /\ LocInit /\ Init /\ DMGInit /\ JumpInit /\ DriverInit

MCNext ==
  \/ working = "volume" /\ VolNext /\ UNCHANGED <<working, locVars, vars, dmgVars, jumpVars, driverVars>>
  \/ working = "locator" /\ LocNext /\ UNCHANGED <<working, volVars, vars, dmgVars, jumpVars, driverVars>>
  \/ working = "checkpoint" /\ Next /\ UNCHANGED <<working, volVars, locVars, dmgVars, jumpVars, driverVars>>
  \/ working = "dmg" /\ DMGNext /\ UNCHANGED <<working, volVars, locVars, vars, jumpVars, driverVars>>
  \/ working = "jumpstart" /\ JumpNext /\ UNCHANGED <<working, volVars, locVars, vars, dmgVars, driverVars>>
  \/ working = "driver" /\ (DriverNext \/ DriverEnded)
       /\ UNCHANGED <<working, volVars, locVars, vars, dmgVars, jumpVars>>

\* All is plain code without a lock held over a step: once called, it goes on.
\* Nothing is assumed of the file system that writes checkpoints.
MCSpec ==
  /\ MCInit /\ [][MCNext]_<<working, volVars, locVars, vars, dmgVars, jumpVars, driverVars>>
  /\ WF_volVars(working = "volume" /\ VolStep)
  /\ \A f \in Finders : WF_locVars(working = "locator" /\ LocStep(f))
  /\ WF_vars(working = "checkpoint" /\ Service)
  /\ WF_jumpVars(working = "jumpstart" /\ JumpStep)

\* Whatever is asked of the services comes to an end: opening a volume, finding
\* or analysing objects, discovering the superblock and, unless checkpoint maps
\* name each other in a circle, the search for the jumpstart record.
ServicesEnd ==
  /\ OpeningEnds /\ FindsEnd /\ DiscoveryEnds
  /\ working = "jumpstart" => LocateEnds

=============================================================================
