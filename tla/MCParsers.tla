------------------------------ MODULE MCParsers ------------------------------
(***************************************************************************)
(* The parsers beside each other, one of them at work.  Words of the       *)
(* checksum are 0..4 and its chunks have two words; bitmaps have bytes of  *)
(* two bits and words of two bytes; the validator's limits are scaled.     *)
(***************************************************************************)
EXTENDS MCNodeLayout, RecordReaders, BTreeSearch, MCItemLists, GeneralBitmap, ObjectChecksum, BTreeValidator

VARIABLE parser  \* which parser is used

\* Counts at the limits the readers know, and where a product wraps.
MCCounts ==
  {0, 1, 2, 64, 65, 101, 128, 129, 1023, 1025, 2^17, 2^17 + 1, Word32 - 136, Word32 - 1}

\* Lengths at which a reader's behaviour can change, given the count: around
\* its check, its layout, what follows it, and the structure it fills.
Edges(r, n) ==
  LET read == Size(r.layout)
  IN  {l \in {0, r.min - 1, r.min, read - 1, read, read + Size(r.opt), Size(r.fills),
              read + n * r.tail.size - 1, read + n * r.tail.size, read + 300} :
         l >= 0 /\ l < 65536}

-----------------------------------------------------------------------------
SNode(n, fx, in, fit, o, x, ks, rm) ==
  [n |-> n, fixed |-> fx, inData |-> in, fit |-> fit, oid |-> o, xid |-> x,
   keySize |-> [i \in 0..(n - 1) |-> ks], room |-> [i \in 0..(n - 1) |-> rm]]
Ascending(n) == {o \in [0..(n - 1) -> 1..3] : \A i \in 0..(n - 2) : o[i] <= o[i + 1]}
Same(n, v) == [i \in 0..(n - 1) |-> v]

\* Every ascending node of three or four entries; one without entries; and one
\* of three whose keys are too short, not in the data, or cut off.
MCSearchNodes ==
  UNION {{SNode(n, fx, TRUE, n, o, x, 16, 32) : fx \in BOOLEAN, o \in Ascending(n), x \in Ascending(n)} :
           n \in {3, 4}}
  \cup {SNode(3, fx, in, fit, [i \in 0..2 |-> i + 1], Same(3, 1), ks, rm) :
          fx \in BOOLEAN, in \in BOOLEAN, fit \in {0, 2, 3}, ks \in {8, 16}, rm \in {4, 8, 16}}
  \cup {SNode(0, FALSE, TRUE, 0, Same(0, 1), Same(0, 1), 16, 32)}

-----------------------------------------------------------------------------
\* Payloads of no, one and up to six words, whole or not.
MCPayloads ==
  {[words |-> w, rest |-> r] :
     w \in {<<>>, <<1>>} \cup UNION {{<<1, 2>> \o s : s \in [1..n -> 0..MaxWord]} : n \in 0..3}, r \in {0, 3}}

-----------------------------------------------------------------------------
\* Entries within the node, at its edge, beyond it, and wrapping.
VEntries ==
  {[k |-> 0, klen |-> 8, v |-> 40, vlen |-> 8], [k |-> 60, klen |-> 4, v |-> 64, vlen |-> 0],
   [k |-> 0, klen |-> 8, v |-> 40, vlen |-> 30],
   [k |-> 65, klen |-> 8, v |-> 40, vlen |-> 30], [k |-> 250, klen |-> 8, v |-> 255, vlen |-> 255]}
VNode(rt, lf, fx, lv, n, d, t, es, f) ==
  [root |-> rt, leaf |-> lf, fixed |-> fx, level |-> lv, keys |-> n, data |-> d, toc |-> t,
   entry |-> es, free |-> f, space |-> d]
MCVNodes ==
  {VNode(FALSE, lf, fx, 0, 2, d, [off |-> o, len |-> 16], es, {40}) :
     lf \in BOOLEAN, fx \in BOOLEAN, d \in {0, 40, 64}, o \in {0, 24, 30}, es \in [0..1 -> VEntries]}
  \cup {VNode(rt, TRUE, FALSE, lv, n, 40, [off |-> 0, len |-> 32], [i \in 0..(n - 1) |-> e], {255, 250}) :
          rt \in BOOLEAN, lv \in 0..1, n \in {0, 1, 7, 9, 13}, e \in VEntries}

-----------------------------------------------------------------------------
Parsers == {"layout", "record", "search", "list", "bitmap", "checksum", "validator"}

\* A parser that is not used has nothing to read.
IdleLayout == node = N(FALSE, TRUE, TRUE, 0, 0, 8, <<>>) /\ phase = "table" /\ entries = <<>> /\ taken = <<>>
IdleRecord ==
  /\ rec = <<parseJKey>> /\ lens = <<0>> /\ count = 0 /\ sound = TRUE
  /\ part = 1 /\ pos = 0 /\ off = 0 /\ took = 0 /\ out = "reading"
IdleSearch ==
  /\ snode = SNode(0, FALSE, TRUE, 0, Same(0, 1), Same(0, 1), 16, 32)
  /\ composite = TRUE /\ tOID = 0 /\ tXID = 0
  /\ low = 0 /\ high = -1 /\ best = -1 /\ found = -1 /\ answer = "called"
IdleList == list = Keybag(0, 0, 0, 48, 0) /\ place = 0 /\ items = <<>> /\ listed = "walking"
IdleSum ==
  /\ payload = [words |-> <<>>, rest |-> 0] /\ oChecksum = <<0, 0>> /\ summed = 0
  /\ sum1 = 0 /\ sum2 = 0 /\ computed = <<>> /\ verdict = "summing"
IdleValid ==
  /\ vnode = VNode(FALSE, TRUE, TRUE, 0, 0, 0, [off |-> 0, len |-> 0], <<>>, {})
  /\ entry = 0 /\ errorCount = 0 /\ more = 0 /\ judged = FALSE /\ errors = {} /\ warnings = {}

MCInit ==
  /\ parser \in Parsers
  /\ IF parser = "layout" THEN Init ELSE IdleLayout
  /\ IF parser = "record" THEN RecInit ELSE IdleRecord
  /\ IF parser = "search" THEN SearchInit ELSE IdleSearch
  /\ IF parser = "list" THEN ListInit ELSE IdleList
  /\ IF parser = "bitmap" THEN TRUE ELSE bytes = WordBytes /\ content = {}
  /\ IF parser = "checksum" THEN SumInit ELSE IdleSum
  /\ IF parser = "validator" THEN ValInit ELSE IdleValid
  /\ BitmapInit

RecEnded == out # "reading" /\ UNCHANGED recVars
SearchEnded == answer \in {"found", "absent", "error"} /\ UNCHANGED searchVars

MCNext ==
  \/ /\ parser = "layout" /\ Next
     /\ UNCHANGED <<parser, recVars, searchVars, listVars, bitmapVars, sumVars, valVars>>
  \/ /\ parser = "record" /\ (RecNext \/ RecEnded)
     /\ UNCHANGED <<parser, vars, searchVars, listVars, bitmapVars, sumVars, valVars>>
  \/ /\ parser = "search" /\ (SearchNext \/ SearchEnded)
     /\ UNCHANGED <<parser, vars, recVars, listVars, bitmapVars, sumVars, valVars>>
  \/ /\ parser = "list" /\ (ListNext \/ ListEnded)
     /\ UNCHANGED <<parser, vars, recVars, searchVars, bitmapVars, sumVars, valVars>>
  \/ /\ parser = "bitmap" /\ BitmapNext
     /\ UNCHANGED <<parser, vars, recVars, searchVars, listVars, sumVars, valVars>>
  \/ /\ parser = "checksum" /\ (SumNext \/ SumEnded)
     /\ UNCHANGED <<parser, vars, recVars, searchVars, listVars, bitmapVars, valVars>>
  \/ /\ parser = "validator" /\ (ValNext \/ ValEnded)
     /\ UNCHANGED <<parser, vars, recVars, searchVars, listVars, bitmapVars, sumVars>>

\* The search is a loop of one goroutine.
MCSpec ==
  /\ MCInit
  /\ [][MCNext]_<<parser, vars, recVars, searchVars, listVars, bitmapVars, sumVars, valVars>>
  /\ WF_searchVars(parser = "search" /\ SearchNext)

\* Every binary search of a node, when it is the parser at work, returns, what
\* it returns is what a linear search finds, and no round of it leaves more than
\* half of the range (btree_binary_searcher.go 35-259).
NodeSearchIsCorrect ==
  /\ []SearchIsRight
  /\ RangeHalves
  /\ parser = "search" ~> answer \in {"found", "absent", "error"}

=============================================================================
