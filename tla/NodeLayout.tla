------------------------------ MODULE NodeLayout ------------------------------
(***************************************************************************)
(* parseTableOfContents, extractKeyValue and the last step of              *)
(* findChildNode of services/btree_object_resolver.go: how the bytes of a  *)
(* B-tree node become the entries ObjectResolver searches.                 *)
(*                                                                         *)
(* A node is its header fields and its table of contents as stored.  Keys  *)
(* and values are positions only: a slice [from, to) of nodeData.  Bytes   *)
(* that are no table entry decode to any entry of Junk.                    *)
(***************************************************************************)
EXTENDS Integers, Sequences

CONSTANTS
  Header,    \* sizeof(btree_node_phys_t), 56
  InfoSize,  \* sizeof(btree_info_t), 40
  KVSize,    \* size of an object map's key and of its value, 16
  BlockLen,  \* bytes of the block
  Nodes,     \* [root, leaf, fixed, nkeys, tableOff, tableLen, toc]
  Junk       \* entries that arbitrary bytes decode to

\* Offsets, lengths and the key count are unsigned fields.
TocEntry == [k : Nat, klen : Nat, v : Nat, vlen : Nat]
ASSUME LayoutAssumption ==
  /\ Header \in Nat /\ KVSize \in Nat /\ BlockLen \in Nat /\ BlockLen >= Header
  /\ Junk \subseteq TocEntry
  /\ \A n \in Nodes : /\ n.fixed \in BOOLEAN
                      /\ n.nkeys \in Nat /\ n.tableOff \in Nat
                      /\ n.toc \in Seq(TocEntry)

VARIABLES
  node,     \* the node parsed
  phase,    \* "table", "extract", then "done", "err" or "panic"
  entries,  \* <<[k, klen, v, vlen]>> read from the table so far
  taken     \* per entry extracted: its key and value slices, or Skipped

vars == <<node, phase, entries, taken>>

Slice == [from : Int, to : Int]
Skipped == [key |-> [from |-> 0, to |-> 0], value |-> [from |-> 0, to |-> 0], ok |-> FALSE]

Init ==
  /\ node \in Nodes
  /\ phase = "table"
  /\ entries = <<>>
  /\ taken = <<>>

\* node.Data() is the block without its header.
DataLen == BlockLen - Header
InBlock(pos) == pos + Header

EntrySize == IF node.fixed THEN 4 ELSE 8
tableOffset == Header + node.tableOff

\* What the entrySize bytes of nodeData from pos on decode to: the table's
\* entry if one is stored there, else anything.
Decoded(pos) ==
  LET at == {j \in 1..Len(node.toc) :
               InBlock(pos) = Header + node.tableOff + (j - 1) * EntrySize}
  IN  IF at # {} THEN {node.toc[j] : j \in at} ELSE Junk

-----------------------------------------------------------------------------
(* parseTableOfContents.                                                   *)

TableBeyond ==
  /\ phase = "table" /\ entries = <<>>
  /\ tableOffset >= DataLen
  /\ phase' = "err"
  /\ UNCHANGED <<node, entries, taken>>

NextOffset == tableOffset + Len(entries) * EntrySize
EntryFits == Len(entries) < node.nkeys /\ NextOffset + EntrySize <= DataLen

ReadEntry ==
  /\ phase = "table" /\ tableOffset < DataLen
  /\ EntryFits
  /\ \E e \in Decoded(NextOffset) : entries' = Append(entries, e)
  /\ UNCHANGED <<node, phase, taken>>

\* All keys read, or the table is cut off by the end of the data.
TableEnds ==
  /\ phase = "table" /\ tableOffset < DataLen
  /\ ~EntryFits
  /\ phase' = "extract"
  /\ UNCHANGED <<node, entries, taken>>

-----------------------------------------------------------------------------
(* extractKeyValue, for each entry in turn.                                *)

KeySlice(e) ==
  LET start == Header + e.k
  IN  [from |-> start, to |-> start + (IF node.fixed THEN KVSize ELSE e.klen)]

ValueSlice(e) ==
  LET start == DataLen - e.v - (IF node.fixed THEN KVSize ELSE e.vlen)
  IN  [from |-> start, to |-> start + (IF node.fixed THEN KVSize ELSE e.vlen)]

\* Mutant: only the end of the value is checked.
ExtractableUnderflow(e) ==
  /\ KeySlice(e).to <= DataLen
  /\ ValueSlice(e).to <= DataLen

Extractable(e) ==
  /\ KeySlice(e).to <= DataLen
  /\ ValueSlice(e).from >= Header /\ ValueSlice(e).to <= DataLen

\* An entry that is refused is skipped by both callers.
Extract ==
  /\ phase = "extract"
  /\ Len(taken) < Len(entries)
  /\ LET e == entries[Len(taken) + 1]
     IN  taken' = Append(taken, IF Extractable(e)
                                THEN [key |-> KeySlice(e), value |-> ValueSlice(e), ok |-> TRUE]
                                ELSE Skipped)
  /\ UNCHANGED <<node, phase, entries>>

AllExtracted ==
  /\ phase = "extract"
  /\ Len(taken) = Len(entries)
  /\ phase' = "done"
  /\ UNCHANGED <<node, entries, taken>>

-----------------------------------------------------------------------------
(* findChildNode, when no separator led to a child: the entry whose index  *)
(* is the key count's, however many entries were read.                     *)

lastEntry == node.nkeys

AtRightmost ==
  /\ phase = "extract" /\ Len(taken) = Len(entries)
  /\ ~node.leaf /\ node.nkeys > 0

RightmostChild ==
  /\ AtRightmost /\ Len(entries) > 0
  /\ phase' = IF lastEntry > Len(entries) THEN "panic"
              ELSE IF taken[lastEntry].ok /\ ValueSlice(entries[lastEntry]).to
                                              - ValueSlice(entries[lastEntry]).from >= 8
              THEN "done" ELSE "err"
  /\ UNCHANGED <<node, entries, taken>>

NoSuitableChild ==
  /\ AtRightmost /\ entries = <<>>
  /\ phase' = "err"
  /\ UNCHANGED <<node, entries, taken>>

LayoutStep == TableBeyond \/ ReadEntry \/ TableEnds \/ Extract \/ AllExtracted
              \/ RightmostChild \/ NoSuitableChild
Ended == phase \in {"done", "err", "panic"} /\ UNCHANGED vars

Next == LayoutStep \/ Ended

Spec == Init /\ [][Next]_vars

-----------------------------------------------------------------------------
(* Properties.                                                             *)

\* Whatever offsets and lengths a damaged node holds (0 and 65535 included),
\* no slice taken reaches outside the node's data, and no more entries are
\* decoded than the node has keys (392, 415, 467-518).  Taking the rightmost
\* child reads an entry that is there, unless the node is cut off: then fewer
\* entries are read than the node has keys and the index is out of range, which
\* ends the program (338).
SlicesInData ==
  /\ Len(taken) <= Len(entries) /\ Len(entries) <= node.nkeys
  /\ \A j \in 1..Len(taken) : \A s \in {taken[j].key, taken[j].value} :
       0 <= s.from /\ s.from <= s.to /\ s.to <= DataLen
  /\ phase = "panic" => tableOffset + node.nkeys * EntrySize > DataLen

\* Where the j-th pair of an undamaged node is stored, as positions in the
\* block: keys are counted from the start of the key area, which follows the
\* table, values back from the end of the value area, which a root node ends
\* before its btree_info_t.
StoredKey(j) == Header + node.tableOff + node.tableLen + node.toc[j].k
StoredValue(j) == BlockLen - (IF node.root THEN InfoSize ELSE 0) - node.toc[j].v

\* "extracts the key and value data from a table entry": the slices taken for
\* entry j are where the node stores its j-th key and value.
DecodesStored ==
  \A j \in 1..Len(taken) : taken[j].ok /\ j <= Len(node.toc) =>
    /\ InBlock(taken[j].key.from) = StoredKey(j)
    /\ InBlock(taken[j].value.from) = StoredValue(j)

=============================================================================
