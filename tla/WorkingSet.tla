------------------------------ MODULE WorkingSet ------------------------------
(***************************************************************************)
(* ObjectMapBTreeCache together with a history of its use that knows       *)
(* nothing of the list: for each OID, which other OIDs were used since its *)
(* last use.                                                               *)
(***************************************************************************)
EXTENDS ObjectMapBTreeCache, FiniteSets

CONSTANT Gone

VARIABLE
  since   \* OID -> OIDs used since, or Gone if never put or removed

HInit == Init /\ since = [o \in OIDs |-> Gone]

Touch(oid) ==
  since' = [o \in OIDs |-> IF o = oid THEN {}
                           ELSE IF since[o] = Gone THEN Gone ELSE since[o] \cup {oid}]

HNext ==
  \/ \E oid \in OIDs : GetNode(oid) /\ Touch(oid)
  \/ \E oid \in OIDs, n \in Nodes :
       PutNode(oid, n) /\ Touch(oid)
  \/ \E oid \in OIDs :
       InvalidateNode(oid) /\ since' = [since EXCEPT ![oid] = Gone]
  \/ (ClearNodeCache \/ Clear) /\ since' = [o \in OIDs |-> Gone]
  \/ /\ \/ \E b \in BlockNums : GetBlock(b) \/ InvalidateBlock(b)
        \/ \E b \in BlockNums, d \in Blocks : PutBlock(b, d)
        \/ ClearBlockCache
     /\ UNCHANGED since

HSpec == HInit /\ [][HNext]_<<vars, since>>

\* Least recently used: a node stays cached as long as fewer than maxNodes
\* other OIDs have been used since it was (GetNode 95, PutNode 111,
\* evictOldestNode 200).
WorkingSetStays ==
  \A o \in OIDs :
    since[o] # Gone /\ Cardinality(since[o]) < maxNodes => o \in DOMAIN nodeCache

=============================================================================
