------------------------------ MODULE FileSystem ------------------------------
(***************************************************************************)
(* services/filesystem_service.go: finding inodes and extents in the file  *)
(* system tree, resolving paths, listing and walking directories, searching *)
(* by name.  The service keeps no state of its own and re-reads everything; *)
(* blocks may become unreadable between two reads.                          *)
(*                                                                         *)
(* vol.nodes[oid] is the B-tree node a virtual OID resolves to: [leaf,     *)
(* fixed, nkeys, recs].  A record is [id, type, keyAt, valAt, val]: where   *)
(* its key and value begin in the node's data, and what the bytes at valAt  *)
(* decode to.  vol.blocks[b] is a data block, [node, recs]: a B-tree node,  *)
(* or raw directory records [inode, name, dir, nameLen].  Names and         *)
(* patterns are sequences of letters, paths sequences of names.             *)
(***************************************************************************)
EXTENDS Integers, Sequences, FiniteSets, SequencesExt

CONSTANTS
  Volumes,    \* the volumes considered
  RootTree,   \* volumeSB.ApfsRootTreeOid
  DataLen,    \* bytes of a node's data
  InodeLen,   \* least length of a JInodeValT
  InodeRecordLen, \* and the length ParseInodeRecord of btree_service.go wants
  BlockLen,   \* bytes of a block
  Patterns,   \* patterns FindFilesByName is called with
  MaxResults, \* and its limits
  Paths,      \* paths the other operations are called with
  Inodes,     \* inode numbers they are called with
  MaxBroken   \* bound: how many blocks fail

\* A volume is finite, its records are in sequences, and leaves hold extents
\* under that type only.
DirectoryEntry == [inode : Nat, name : Seq(STRING), dir : BOOLEAN, nameLen : Nat]
IsNode(n) ==
  /\ Len(n.recs) \in Nat /\ DOMAIN n.recs = 1..Len(n.recs)
  /\ \A i \in 1..Len(n.recs) :
       /\ n.recs[i].keyAt \in Nat /\ n.recs[i].valAt \in Nat
       /\ n.leaf /\ n.recs[i].type = "extent" => n.recs[i].val.block \in Nat /\ n.recs[i].val.blocks \in Nat
IsVolume(v) ==
  /\ IsFiniteSet(DOMAIN v.nodes) /\ \A o \in DOMAIN v.nodes : IsNode(v.nodes[o])
  /\ \A b \in DOMAIN v.blocks : v.blocks[b].recs \in Seq(DirectoryEntry)

ASSUME TreeAssumption ==
  /\ RootTree \in Nat /\ DataLen \in Nat /\ InodeRecordLen \in Nat
  /\ MaxResults \subseteq Nat /\ Patterns \subseteq Seq(STRING)
  /\ \A v \in Volumes : IsVolume(v)

VARIABLES
  vol,      \* the volume
  broken,   \* nodes (by OID) and data blocks that can no longer be read
  call,     \* the walk in progress: [op, pattern, max, sub], or NoCall; sub is the
            \* directory to be listed next, if any
  stack,    \* its frames, innermost last: [path, dir, entries, next]
  visited,  \* entries handed to the callback: <<dir, entry>>, in order
  results,  \* FindFilesByName's results
  answer,   \* how the last call ended: [ok, err]
  last      \* that call, if it was a walk, else NoCall

walkVars == <<call, stack, visited, results, last>>
vars == <<vol, broken, walkVars, answer>>

NoCall == [op |-> "none", pattern |-> <<>>, max |-> 0, sub |-> <<>>]
Ok(x) == [ok |-> TRUE, val |-> x]
Err(e) == [ok |-> FALSE, val |-> e]
Outcome(r) == [ok |-> r.ok, err |-> IF r.ok THEN "" ELSE r.val]

NoAnswer == Outcome(Err("none"))

\* "if err != nil { return err }", then F of the value.
Then(r, F(_)) == CHOOSE y \in {IF v.ok THEN F(v.val) ELSE v : v \in {r}} : TRUE

Init ==
  /\ vol \in Volumes
  /\ broken = {}
  /\ call = NoCall /\ last = NoCall
  /\ stack = <<>> /\ visited = <<>> /\ results = <<>>
  /\ answer = NoAnswer

-----------------------------------------------------------------------------
(* The file system tree.                                                   *)

\* ResolveVirtualObject, ReadBlock and NewBTreeNodeReader.
Node(oid) ==
  IF oid \notin DOMAIN vol.nodes THEN Err("not found")
  ELSE IF oid \in broken THEN Err("unreadable") ELSE Ok(vol.nodes[oid])

\* The records whose key can be read; only nodes of fixed-size keys are searched.
Readable(n, keyLen) ==
  {i \in 1..Len(n.recs) : n.fixed /\ n.recs[i].keyAt + keyLen <= DataLen}

Least(S) == CHOOSE i \in S : \A j \in S : i <= j

\* Both descents take the first child whose key is not below the target.
Child(n, id, keyLen) ==
  LET at == SelectInSeq(n.recs, LAMBDA r :
              n.fixed /\ r.keyAt + keyLen <= DataLen /\ r.id >= id /\ r.valAt + 8 <= DataLen)
  IN  IF at = 0 \/ n.recs[at].val = 0 THEN Err("no suitable child") ELSE Ok(n.recs[at].val)

\* How deep a tree can be.  A chain of nodes that is longer leads back to itself,
\* and the code follows it for ever.
Depth == Cardinality(DOMAIN vol.nodes)

\* The node a search for id is at after one more step down: [oid, node].
Entering(oid) == Then(Node(oid), LAMBDA n : Ok([oid |-> oid, node |-> n]))
StepDown(at, id, keyLen) ==
  IF at.node.leaf THEN Ok(at) ELSE Then(Child(at.node, id, keyLen), Entering)

Descent(oid, id, keyLen) ==
  LET down[k \in 0..Depth] ==
        IF k = 0 THEN Entering(oid) ELSE Then(down[k - 1], LAMBDA at : StepDown(at, id, keyLen))
  IN  down

\* The leaf a search for id from the node of oid on ends in.
Leaf(oid, id, keyLen) ==
  Then(Descent(oid, id, keyLen)[Depth], LAMBDA at : IF at.node.leaf THEN Ok(at.node) ELSE Err("endless"))

\* The value of record i reaches to where the next key begins, or to the end.
valueSize(n, i) ==
  IF i = n.nkeys THEN DataLen - n.recs[i].valAt
  ELSE IF i < Len(n.recs) THEN n.recs[i + 1].keyAt - n.recs[i].valAt ELSE 0

inodeRecords(n, oid) ==
  {i \in Readable(n, 8) : /\ n.recs[i].id = oid /\ n.recs[i].type = "inode"
                          /\ valueSize(n, i) > 0
                          /\ n.recs[i].valAt + valueSize(n, i) <= DataLen}

\* extractInodeFromLeaf and NewInodeReader.
InodeIn(n, is) ==
  IF is = {} THEN Err("not found")
  ELSE LET i == Least(is)
       IN  IF valueSize(n, i) < InodeLen THEN Err("short inode") ELSE Ok(n.recs[i].val)

\* loadInodeData: the tree searched is the one the inode number itself
\* resolves to.
loadInode(oid) == Then(Leaf(oid, oid, 8), LAMBDA n : InodeIn(n, inodeRecords(n, oid)))

extentRecords(n, id) ==
  {i \in Readable(n, 16) : /\ n.recs[i].id = id /\ n.recs[i].type = "extent"
                           /\ n.recs[i].valAt + 24 <= DataLen}

FirstExtent(n, is) == IF is = {} THEN Err("no extent") ELSE Ok(n.recs[Least(is)].val)

\* getFileExtents: at most one extent, none if anything goes wrong.
getFileExtents(inode) ==
  IF inode.private = 0 \/ RootTree = 0 THEN <<>>
  ELSE LET x == Then(Leaf(RootTree, inode.private, 16),
                     LAMBDA n : FirstExtent(n, extentRecords(n, inode.private)))
       IN  IF x.ok THEN <<x.val>> ELSE <<>>

\* Mutant: only the last such child.
ChildrenForLast(n, id) ==
  LET all == {i \in Readable(n, 8) : n.recs[i].id >= id}
  IN  {n.recs[i].val : i \in {j \in all : \A k \in all : k <= j}}

\* BTreeService.GetFSRecordsForOID takes every child whose key is not below the
\* target and passes over the ones it cannot get; a record comes with the length
\* of its value, 0 if none was extracted.
ChildrenFor(n, id) ==
  {n.recs[i].val : i \in {j \in Readable(n, 8) : n.recs[j].id >= id /\ n.recs[j].valAt + 8 <= DataLen}}

extractedLength(n, i) ==
  IF valueSize(n, i) > 0 /\ n.recs[i].valAt + valueSize(n, i) <= DataLen THEN valueSize(n, i) ELSE 0

FSRecordsIn(n, id) ==
  {[type |-> n.recs[i].type, val |-> n.recs[i].val, len |-> extractedLength(n, i)] :
     i \in {j \in Readable(n, 8) : n.recs[j].id = id}}

\* The nodes one step down from some; those that are reached in any number.
Descended(oids, id) == UNION {ChildrenFor(vol.nodes[o], id) : o \in {x \in oids : Node(x).ok /\ ~vol.nodes[x].leaf}}
Levels(oid, id) ==
  LET level[k \in 0..Depth] == IF k = 0 THEN {oid} ELSE Descended(level[k - 1], id)
  IN  level
Reached(oid, id) == UNION Range(Levels(oid, id))

GetFSRecordsForOID(oid, id) ==
  Then(Node(oid), LAMBDA n :
    Ok(UNION {FSRecordsIn(vol.nodes[o], id) : o \in {x \in Reached(oid, id) : Node(x).ok /\ vol.nodes[x].leaf}}))

\* ParseInodeRecord, which wants more bytes than the inode reader.
ParseInodeRecord(rec) ==
  IF rec.type # "inode" \/ rec.len < InodeRecordLen THEN Err("no inode record") ELSE Ok(rec.val)

-----------------------------------------------------------------------------
(* Directories and paths.                                                  *)

Aligned(n) == ((n + 7) \div 8) * 8
RecordAt(recs, i) == FoldLeft(LAMBDA at, r : at + Aligned(16 + r.nameLen), 0, SubSeq(recs, 1, i - 1))

\* parseDirectoryRecord accepts record i, and the loop reaches it.
Fits(recs, i) ==
  /\ RecordAt(recs, i) + 16 < BlockLen
  /\ recs[i].nameLen # 0 /\ recs[i].nameLen <= BlockLen - RecordAt(recs, i) - 16

parseDirectoryRecords(recs) ==
  LET good == {n \in 0..Len(recs) : \A i \in 1..n : Fits(recs, i)}
  IN  SubSeq(recs, 1, CHOOSE n \in good : \A k \in good : k <= n)

\* A block that cannot be read is skipped; a B-tree node yields no entries.
parseDirectoryBlock(b) ==
  IF b \notin DOMAIN vol.blocks \/ b \in broken \/ vol.blocks[b].node THEN <<>>
  ELSE parseDirectoryRecords(vol.blocks[b].recs)

\* The entries of the blocks of an extent, one after the other.
EntriesUpTo(x) ==
  LET upTo[k \in 0..x.blocks] == IF k = 0 THEN <<>> ELSE upTo[k - 1] \o parseDirectoryBlock(x.block + k - 1)
  IN  upTo
ExtentEntries(x) == EntriesUpTo(x)[x.blocks]

listDirectoryContents(dir) ==
  Then(loadInode(dir), LAMBDA inode :
    IF ~inode.dir THEN Err("not a directory")
    ELSE LET xs == getFileExtents(inode)
         IN  Ok(IF xs = <<>> THEN <<>> ELSE ExtentEntries(xs[1])))

EntryNamed(entries, name) ==
  LET at == SelectInSeq(entries, LAMBDA e : e.name = name)
  IN  IF at = 0 THEN Err("not found") ELSE Ok(entries[at].inode)

\* One path component: the first entry of that name.
Step(cur, name) ==
  Then(cur, LAMBDA dir : Then(listDirectoryContents(dir), LAMBDA list : EntryNamed(list, name)))

\* Mutant: every component is looked up in the root.
getInodeByPathFromRoot(path) ==
  IF path = <<>> THEN Ok(RootTree) ELSE Step(Ok(RootTree), Last(path))

Resolved(path) ==
  LET upTo[k \in 0..Len(path)] == IF k = 0 THEN Ok(RootTree) ELSE Step(upTo[k - 1], path[k])
  IN  upTo
getInodeByPath(path) == Resolved(path)[Len(path)]

\* ListDirectory(path), with the inode it found the path to be.  Its own load and
\* check of the inode are those of listDirectoryContents.
ListDirectory(path) ==
  Then(getInodeByPath(path), LAMBDA dir :
    Then(listDirectoryContents(dir), LAMBDA list : Ok([dir |-> dir, entries |-> list])))

-----------------------------------------------------------------------------
(* WalkTree and FindFilesByName.                                           *)

Stars(p) == {i \in 1..Len(p) : p[i] = "*"}

\* matchPattern: one star, or none; more stars are taken literally.
matchPattern(name, p) ==
  \/ p = <<"*">>
  \/ \E i \in Stars(p) :
       /\ Stars(p) = {i}
       /\ IsPrefix(SubSeq(p, 1, i - 1), name)
       /\ IsSuffix(SubSeq(p, i + 1, Len(p)), name)
  \/ name = p /\ ~\E i \in Stars(p) : Stars(p) = {i}

Frame(path, list) == [path |-> path, dir |-> list.dir, entries |-> list.entries, next |-> 1]

\* The call returns; visited and results keep what it did.
Return(r) == call' = NoCall /\ last' = call /\ stack' = <<>> /\ answer' = Outcome(r)

\* Mutant: a directory that cannot be listed is passed over.
EnteredSkips(path, list) ==
  /\ call' = [call EXCEPT !.sub = <<>>]
  /\ stack' = Append(stack, Frame(path,
       IF list.ok THEN list.val
       ELSE IF path = <<>> THEN [dir |-> RootTree, entries |-> <<>>]
       ELSE [dir |-> Last(stack).entries[Last(stack).next - 1].inode, entries |-> <<>>]))
  /\ UNCHANGED <<last, answer>>

Entered(path, list) ==
  IF list.ok
  THEN /\ stack' = Append(stack, Frame(path, list.val))
       /\ call' = [call EXCEPT !.sub = <<>>]
       /\ UNCHANGED <<last, answer>>
  ELSE Return(list)

\* walkTreeRecursive(path): a directory that cannot be listed ends the walk.
Enter(path) == \E list \in {ListDirectory(path)} : Entered(path, list)

\* WalkTree("/", callback)
StartWalk(c) ==
  /\ call = NoCall
  /\ call' = c /\ stack' = <<>> /\ visited' = <<>> /\ results' = <<>>
  /\ last' = NoCall /\ answer' = NoAnswer
  /\ UNCHANGED <<vol, broken>>

EnterRoot ==
  /\ call # NoCall /\ stack = <<>>
  /\ Enter(<<>>)
  /\ UNCHANGED <<vol, broken, visited, results>>

Top == Last(stack)
Entry == Top.entries[Top.next]
InLoop == call # NoCall /\ stack # <<>> /\ call.sub = <<>>

LimitReached == call.op = "find" /\ Len(results) >= call.max

\* The callback of FindFilesByName; entries whose inode cannot be loaded are
\* left out.
Found ==
  IF call.op = "find" /\ matchPattern(Entry.name, call.pattern) /\ loadInode(Entry.inode).ok
  THEN Append(results, [inode |-> Entry.inode, path |-> Append(Top.path, Entry.name)])
  ELSE results

\* The next entry is handed to the callback.
Visit ==
  /\ InLoop /\ Top.next <= Len(Top.entries) /\ ~LimitReached
  /\ visited' = Append(visited, [dir |-> Top.path, entry |-> Entry])
  /\ results' = Found
  /\ stack' = [stack EXCEPT ![Len(stack)].next = @ + 1]
  /\ call' = [call EXCEPT !.sub = IF Entry.dir THEN Append(Top.path, Entry.name) ELSE <<>>]
  /\ UNCHANGED <<vol, broken, last, answer>>

\* A directory entry is then listed by its path, from the root again.
Descend ==
  /\ call.sub # <<>>
  /\ Enter(call.sub)
  /\ UNCHANGED <<vol, broken, visited, results>>

\* The callback's error ends the walk; for FindFilesByName it is the limit and
\* no error.
CallbackFails ==
  /\ InLoop /\ Top.next <= Len(Top.entries)
  /\ call.op = "walk" \/ LimitReached
  /\ Return(IF call.op = "find" THEN Ok(results) ELSE Err("callback"))
  /\ UNCHANGED <<vol, broken, visited, results>>

\* Mutant: the frame of the directory is kept.
LeaveKeeps ==
  /\ InLoop /\ Top.next > Len(Top.entries)
  /\ IF Len(stack) = 1 THEN Return(Ok(results))
     ELSE stack' = [stack EXCEPT ![Len(stack)].next = 1] /\ UNCHANGED <<call, last, answer>>
  /\ UNCHANGED <<vol, broken, visited, results>>

Leave ==
  /\ InLoop /\ Top.next > Len(Top.entries)
  /\ IF Len(stack) = 1 THEN Return(Ok(results)) ELSE stack' = Front(stack) /\ UNCHANGED <<call, last, answer>>
  /\ UNCHANGED <<vol, broken, visited, results>>

-----------------------------------------------------------------------------
(* Operations on one path or one inode.                                    *)

\* GetInodeByPath: the scan for the root tree is never reached, because "/"
\* resolves without reading.
GetInodeByPath(path) == Then(getInodeByPath(path), loadInode)

\* The error text decides: damage that reads "not found" counts as absence.
ExistsFrom(n) == IF n.ok THEN Ok(TRUE) ELSE IF n.val = "not found" THEN Ok(FALSE) ELSE n
Exists(path) == ExistsFrom(GetInodeByPath(path))

IsDirectory(path) == Then(GetInodeByPath(path), LAMBDA n : Ok(n.dir))

IsPathAccessible(path) == Ok(getInodeByPath(path).ok)

\* ListDirectoryContents by inode number leaves out what it cannot load.
ListDirectoryContents(dir) ==
  Then(listDirectoryContents(dir),
       LAMBDA list : Ok(SelectSeq(list, LAMBDA e : loadInode(e.inode).ok)))

GetParentDirectory(oid) ==
  Then(loadInode(oid), LAMBDA n :
    IF n.parent = 0 THEN Err("no parent") ELSE loadInode(n.parent))

\* GetFileMetadata, GetFileSize, VerifyFileChecksum and GetExtendedAttributes
\* succeed when the inode loads; GetFileExtents then never fails.
GetFileExtents(oid) == Then(loadInode(oid), LAMBDA n : Ok(getFileExtents(n)))

Answer(r) ==
  /\ call = NoCall
  /\ answer' = Outcome(r) /\ last' = NoCall /\ visited' = <<>> /\ results' = <<>>
  /\ UNCHANGED <<vol, broken, call, stack>>

PathCall == \E p \in Paths :
  \/ Answer(GetInodeByPath(p)) \/ Answer(Exists(p)) \/ Answer(IsDirectory(p))
  \/ Answer(IsPathAccessible(p)) \/ Answer(ListDirectory(p))

InodeCall == \E i \in Inodes :
  \/ Answer(loadInode(i)) \/ Answer(GetFileExtents(i))
  \/ Answer(GetParentDirectory(i)) \/ Answer(ListDirectoryContents(i))
  \/ Answer(GetFSRecordsForOID(i, i))

\* A block fails, for good.
Breaks ==
  /\ Cardinality(broken) < MaxBroken
  /\ \E b \in (DOMAIN vol.nodes \cup DOMAIN vol.blocks) \ broken : broken' = broken \cup {b}
  /\ UNCHANGED <<vol, walkVars, answer>>

WalkTree == StartWalk([NoCall EXCEPT !.op = "walk"])
FindFilesByName ==
  \E p \in Patterns, n \in MaxResults :
    StartWalk([op |-> "find", pattern |-> p, max |-> n, sub |-> <<>>])

WalkStep == EnterRoot \/ Visit \/ Descend \/ CallbackFails \/ Leave

Next == WalkTree \/ FindFilesByName \/ WalkStep \/ PathCall \/ InodeCall \/ Breaks

\* The walk is one goroutine's loop: it goes on until it returns.
Spec == Init /\ [][Next]_vars /\ WF_vars(WalkStep)

-----------------------------------------------------------------------------
(* Properties.                                                             *)

\* No directory of the volume, damaged since or not, holds a name twice.
Records(x) ==
  UNION {{<<b, i>> : i \in 1..Len(vol.blocks[b].recs)} : b \in (x.block..(x.block + x.blocks - 1)) \cap DOMAIN vol.blocks}
NameOf(at) == vol.blocks[at[1]].recs[at[2]].name
UniqueNames ==
  \A o \in DOMAIN vol.nodes : \A r \in Range(vol.nodes[o].recs) :
    vol.nodes[o].leaf /\ r.type = "extent" =>
      \A a, b \in Records(r.val) : NameOf(a) = NameOf(b) => a = b

\* A walk resolves every path again from the root.  As long as no directory
\* holds a name twice it still ends up in the directory whose entry it visited,
\* whatever has become unreadable since (393-415, 115-151).
DescendsIntoEntries ==
  UniqueNames => \A k \in 1..Len(stack) - 1 :
    stack[k + 1].dir = stack[k].entries[stack[k].next - 1].inode

\* The nodes the tree of oid consists of, and what it stores under a number.
Children(oids) ==
  UNION {{r.val : r \in Range(vol.nodes[o].recs)} : o \in {x \in oids \cap DOMAIN vol.nodes : ~vol.nodes[x].leaf}}
Generations(oid) ==
  LET level[k \in 0..Depth] == IF k = 0 THEN {oid} ELSE Children(level[k - 1])
  IN  level
Under(oid) == (UNION Range(Generations(oid))) \cap DOMAIN vol.nodes
Stored(oid, id, type) ==
  {r.val : r \in {q \in UNION {Range(vol.nodes[o].recs) : o \in Under(oid)} :
                   q.id = id /\ q.type = type}}

\* Every number is stored as one inode at most.
OneInode == \A o \in DOMAIN vol.nodes : \A m, n \in Stored(o, o, "inode") : m = n

\* The entries of dir and below, [inode, path, dir], as stored in the extents that
\* are still found and the data blocks that can still be read, whether or not the
\* inode itself can.
StoredEntries(dir) ==
  UNION {Range(ExtentEntries(x)) :
         x \in UNION {Range(getFileExtents(n)) : n \in Stored(dir, dir, "inode")}}
EntriesOf(dirs) ==
  UNION {{[inode |-> e.inode, path |-> Append(d.path, e.name), dir |-> e.dir] : e \in StoredEntries(d.inode)} :
         d \in {x \in dirs : x.dir}}
Below(dir) ==
  LET level[k \in 0..Depth] ==
        IF k = 0 THEN EntriesOf({[inode |-> dir, path |-> <<>>, dir |-> TRUE]}) ELSE EntriesOf(level[k - 1])
  IN  UNION Range(level)

\* What a pattern with at most one star means.
Glob(name, p) ==
  \E f, t \in 0..Len(name) : \E i \in 0..Len(p) :
    /\ f <= t
    /\ IF i = 0 THEN Stars(p) = {} /\ name = p
       ELSE Stars(p) = {i} /\ SubSeq(name, 1, f) = SubSeq(p, 1, i - 1)
                           /\ SubSeq(name, t + 1, Len(name)) = SubSeq(p, i + 1, Len(p))

\* A search that succeeds below its limit has missed nothing: every entry whose
\* name is one the pattern stands for and whose inode can be loaded, in a
\* directory block that is found and can be read, is among its results; a
\* directory that could not be listed made it fail, but one whose extent was not
\* found counts as empty (562-596, 961-1004, 1101-1121).
FindComplete ==
  last.op = "find" /\ answer.ok /\ Len(results) < last.max /\ UniqueNames /\ OneInode =>
    \A e \in Below(RootTree) :
      Glob(Last(e.path), last.pattern) /\ loadInode(e.inode).ok =>
        \E i \in 1..Len(results) : results[i] = [inode |-> e.inode, path |-> e.path]

\* A search returns no more than its limit, nothing twice, and only entries it
\* visited whose names the pattern stands for, except that prefix and suffix may
\* overlap in a name shorter than both (963-985, 1101-1121).
FindSound ==
  LET c == IF call # NoCall THEN call ELSE last
  IN  c.op = "find" =>
        /\ Len(results) <= c.max
        /\ UniqueNames => \A i, j \in 1..Len(results) : results[i] = results[j] => i = j
        /\ \A i \in 1..Len(results) :
             LET name == Last(results[i].path)
             IN  /\ Cardinality(Stars(c.pattern)) <= 1 /\ Len(name) + 1 >= Len(c.pattern)
                      => Glob(name, c.pattern)
                 /\ \E k \in 1..Len(visited) :
                      /\ visited[k].entry.inode = results[i].inode
                      /\ Append(visited[k].dir, visited[k].entry.name) = results[i].path

\* FindFilesByName gives exactly what there is to find, however the blocks fail
\* while it walks (961-1004).
FindIsExact == FindComplete /\ FindSound

\* The two searches of the tree agree: an inode the file system service finds is
\* stored under that number in the tree the number resolves to, is among the
\* B-tree service's records of it, and, with a value long enough for both, parses
\* there (153-338; btree_service.go:46-245, 283-313).
SearchesAgree ==
  \A i \in Inodes : LET n == loadInode(i) IN n.ok =>
    /\ n.val \in Stored(i, i, "inode")
    /\ \E rec \in GetFSRecordsForOID(i, i).val :
         rec.type = "inode" /\ rec.val = n.val
           /\ (rec.len >= InodeRecordLen => ParseInodeRecord(rec) = n)

\* Every walk of a tree whose directories form no cycle returns.
WalkEnds == call # NoCall ~> call = NoCall

=============================================================================
