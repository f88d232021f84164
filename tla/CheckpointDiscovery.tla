------------------------- MODULE CheckpointDiscovery -------------------------
(***************************************************************************)
(* services/checkpoint_discovery_service.go: FindLatestValidSuperblock on  *)
(* a container whose last user crashed.  The file system (not code of this *)
(* repository) commits a checkpoint by writing a map block and then a      *)
(* superblock into the descriptor area, which it uses as a ring, and       *)
(* copies the latest superblock to block zero now and then; a crash leaves *)
(* the block being written torn.  After the crash the service scans the    *)
(* area block by block; or it scans the area of a container that is still  *)
(* in use.                                                                 *)
(*                                                                         *)
(* A block is what parseSuperblock makes of it, and whether its checksum   *)
(* still matches (intact), which the service does not look at.             *)
(***************************************************************************)
EXTENDS Integers, Sequences

CONSTANTS
  DescBlocks,   \* nx_xp_desc_blocks: size of the descriptor area
  TypeNx,       \* types.ObjectTypeNxSuperblock
  StoredTypes,  \* o_type a file system may write into a superblock's header
  TypeMap,      \* o_type of a checkpoint map
  Tears,        \* how a crash tears a block: subset of {"old", "new", "lost"}
  Contiguous,   \* values of the test of nx_xp_desc_base's most significant bit
  MaxXid        \* bound: checkpoints committed

ASSUME AreaAssumption ==
  /\ DescBlocks \in Nat
  /\ MaxXid \in Nat
  /\ Tears \subseteq {"old", "new", "lost"}
  /\ Contiguous \subseteq BOOLEAN
  /\ StoredTypes \subseteq Nat /\ TypeNx \in Nat /\ TypeMap \in Nat

NxMagic == 1
SB(t, x) == [type |-> t, magic |-> NxMagic, omap |-> 1, bsize |-> 4096,
             xid |-> x, intact |-> TRUE]
Blank == [type |-> 0, magic |-> 0, omap |-> 0, bsize |-> 0, xid |-> 0, intact |-> FALSE]
MapBlock == [Blank EXCEPT !.type = TypeMap, !.intact = TRUE]

VARIABLES
  area,        \* descriptor area: offset -> block
  blockZero,   \* the superblock the container reader parsed at block zero
  contiguous,  \* the descriptor area is contiguous
  storedType,  \* o_type of this container's superblocks
  fromDevice,  \* the reader was made by NewContainerReaderFromDevice
  ring,        \* offset the file system writes next
  committed,   \* next-xid of the last checkpoint committed
  half,        \* the map block of the next checkpoint has been written
  running,     \* the container is in use while it is scanned
  atScan,      \* history: committed when the service was called
  written,     \* history: blocks written since
  phase,       \* "live", then "mount", "scan" and "done"
  blockOffset, \* the scan's loop variable
  candidates,  \* <<[sb, valid, addr]>>
  missed,      \* history: a block of the area could not be read
  answer       \* the candidate returned, or NoAnswer

setup == <<contiguous, storedType, fromDevice>>
live == <<running, atScan, written>>
mediumVars == <<area, blockZero, setup, ring, committed, half, live>>
vars == <<mediumVars, phase, blockOffset, candidates, missed, answer>>

NoAnswer == [sb |-> Blank, valid |-> FALSE, addr |-> 0]
Failed == [NoAnswer EXCEPT !.addr = 1]

Init ==
  /\ area = [i \in 0..(DescBlocks - 1) |-> Blank]
  /\ contiguous \in Contiguous
  /\ storedType \in StoredTypes
  /\ blockZero = SB(storedType, 1)
  /\ fromDevice \in BOOLEAN
  /\ ring = 0 /\ committed = 1 /\ half = FALSE
  /\ running = FALSE /\ atScan = 0 /\ written = 0
  /\ phase = "live"
  /\ blockOffset = 0
  /\ candidates = <<>>
  /\ missed = FALSE
  /\ answer = NoAnswer

-----------------------------------------------------------------------------
(* The file system, and the crash.                                         *)

Pending == IF half THEN SB(storedType, committed + 1) ELSE MapBlock

\* A checkpoint is committed once its superblock is on the medium.
WriteBlock ==
  /\ (phase = "live") \/ (running /\ phase \in {"mount", "scan"})
  /\ DescBlocks > 0
  /\ committed < MaxXid
  /\ written' = IF running THEN written + 1 ELSE written
  /\ area' = [area EXCEPT ![ring] = Pending]
  /\ ring' = (ring + 1) % DescBlocks
  /\ committed' = IF half THEN committed + 1 ELSE committed
  /\ half' = ~half
  /\ UNCHANGED <<blockZero, setup, running, atScan, phase, blockOffset, candidates, missed, answer>>

WriteBlockZero ==
  /\ phase = "live"
  /\ blockZero' = SB(storedType, committed)
  /\ UNCHANGED <<area, setup, ring, committed, half, live,
                 phase, blockOffset, candidates, missed, answer>>

\* The part of the block the service parses is the old one's, the new one's,
\* or neither.
Torn(how) ==
  CASE how = "old"  -> [area[ring] EXCEPT !.intact = FALSE]
    [] how = "new"  -> [Pending EXCEPT !.intact = FALSE]
    [] how = "lost" -> [Pending EXCEPT !.intact = FALSE, !.magic = 0]

Crash ==
  /\ phase = "live"
  /\ \/ UNCHANGED area
     \/ /\ DescBlocks > 0
        /\ \E how \in Tears : area' = [area EXCEPT ![ring] = Torn(how)]
  /\ phase' = "mount"
  /\ UNCHANGED <<blockZero, setup, ring, committed, half, live,
                 blockOffset, candidates, missed, answer>>

\* The service is called for a container that is in use.
OpenRunning ==
  /\ phase = "live"
  /\ running' = TRUE /\ atScan' = committed
  /\ phase' = "mount"
  /\ UNCHANGED <<area, blockZero, setup, ring, committed, half, written,
                 blockOffset, candidates, missed, answer>>

-----------------------------------------------------------------------------
(* The service.                                                            *)

\* The superblock of a device's reader is a copy without the checkpoint
\* fields: its nx_xp_desc_base and nx_xp_desc_blocks are zero.
descBlocks == IF fromDevice THEN 0 ELSE DescBlocks
isNonContiguous == ~fromDevice /\ ~contiguous

isSuperblock(b) == b.type = TypeNx

validateSuperblock(sb) ==
  /\ sb.magic = NxMagic
  /\ sb.omap # 0
  /\ sb.bsize # 0 /\ sb.bsize <= 65536
  /\ sb.xid # 0

Candidate(b, addr) == [sb |-> b, valid |-> validateSuperblock(b), addr |-> addr]

\* Block zero is the first candidate.
StartScan ==
  /\ phase = "mount"
  /\ ~isNonContiguous
  /\ candidates' = <<Candidate(blockZero, 0)>>
  /\ phase' = "scan"
  /\ UNCHANGED <<mediumVars, blockOffset, missed, answer>>

\* parseDescriptorAreaBTree ends in an error, whatever it reads.
NonContiguous ==
  /\ phase = "mount"
  /\ isNonContiguous
  /\ answer' = Failed
  /\ phase' = "done"
  /\ UNCHANGED <<mediumVars, blockOffset, candidates, missed>>

\* Mutant: the scan stops at the first block that is not a superblock.
ScanBlockStops ==
  /\ phase = "scan"
  /\ blockOffset < descBlocks
  /\ candidates' = IF isSuperblock(area[blockOffset])
                   THEN Append(candidates, Candidate(area[blockOffset], blockOffset + 1))
                   ELSE candidates
  /\ blockOffset' = IF isSuperblock(area[blockOffset]) THEN blockOffset + 1 ELSE descBlocks
  /\ UNCHANGED <<mediumVars, phase, missed, answer>>

\* A block that was read: kept when it is a superblock, valid or not.
ScanBlock ==
  /\ phase = "scan"
  /\ blockOffset < descBlocks
  /\ candidates' = IF isSuperblock(area[blockOffset])
                   THEN Append(candidates, Candidate(area[blockOffset], blockOffset + 1))
                   ELSE candidates
  /\ blockOffset' = blockOffset + 1
  /\ UNCHANGED <<mediumVars, phase, missed, answer>>

\* A block that could not be read is skipped.
ScanSkips ==
  /\ phase = "scan"
  /\ blockOffset < descBlocks
  /\ blockOffset' = blockOffset + 1
  /\ missed' = TRUE
  /\ UNCHANGED <<mediumVars, phase, candidates, answer>>

Valid == {i \in 1..Len(candidates) : candidates[i].valid}

\* Mutant: the last valid candidate wins.
LatestIsLast == {i \in Valid : \A j \in Valid : j <= i}

\* Step 4: the first candidate that no valid one exceeds.
Latest ==
  {i \in Valid : \A j \in Valid :
     \/ candidates[j].sb.xid < candidates[i].sb.xid
     \/ candidates[j].sb.xid = candidates[i].sb.xid /\ i <= j}

Select ==
  /\ phase = "scan"
  /\ blockOffset >= descBlocks
  /\ \/ \E i \in Latest : answer' = candidates[i]
     \/ Valid = {} /\ answer' = Failed
  /\ phase' = "done"
  /\ UNCHANGED <<mediumVars, blockOffset, candidates, missed>>

Done == phase = "done" /\ UNCHANGED vars

Service == StartScan \/ NonContiguous \/ ScanBlock \/ ScanSkips \/ Select

Next == WriteBlock \/ WriteBlockZero \/ Crash \/ OpenRunning \/ Service \/ Done

Spec == Init /\ [][Next]_vars

\* Reads return and the loop runs; nothing is assumed of the file system.
FairSpec == Spec /\ WF_vars(Service)

-----------------------------------------------------------------------------
(* Properties.                                                             *)

Found == phase = "done" /\ answer # Failed

\* The answer is a superblock that the crash tore in the middle of.
AnswerTorn == Found /\ ~answer.sb.intact

\* The service can see the descriptor area as it is: the reader has the
\* checkpoint fields, superblocks bear their type without a storage flag, and
\* every block was read.
AreaSeen == contiguous /\ ~fromDevice /\ storedType = TypeNx /\ ~missed

\* After a crash the service comes up with the last checkpoint that was
\* committed, wherever in the ring the crash hit and however old block zero
\* is, or with the torn superblock of the one after it (78-158).
RecoversLatest ==
  phase = "done" /\ AreaSeen /\ ~running =>
    Found /\ answer.sb.xid = IF AnswerTorn THEN committed + 1 ELSE committed

\* Whatever could not be read, and whatever types the area bears, what is
\* returned passes the validation, is no older than block zero and, unless it
\* is torn, no newer than the last commit (126, 150-158).
NeverOlderThanBlockZero ==
  Found => /\ validateSuperblock(answer.sb)
           /\ blockZero.xid <= answer.sb.xid
           /\ AnswerTorn \/ answer.sb.xid <= committed

\* A scan of a container in use that overlaps with less than a round of the
\* ring finds a checkpoint at least as new as the last one committed when it
\* began, although blocks change before and behind it (96-145).
LiveScanKeepsUp ==
  Found /\ running /\ AreaSeen /\ written < DescBlocks - 1 => atScan <= answer.sb.xid

\* A crash is followed by an answer or an error.
DiscoveryEnds == phase = "mount" ~> phase = "done"

=============================================================================
