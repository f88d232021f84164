----------------------------- MODULE ObjectLocator -----------------------------
(***************************************************************************)
(* services/object_locator_service.go: finding objects by OID through a    *)
(* cache that is never emptied, and the reference graph built from them.   *)
(* The lock is held for one cache access at a time, so goroutines          *)
(* interleave between lookup and insertion; the container's own cache may  *)
(* be dropped and the medium written in between.                           *)
(*                                                                         *)
(* Words(oid, v) are the 64-bit words of the object's block in state v of  *)
(* the medium; the object map of state v finds it if Mapped(oid, v).       *)
(***************************************************************************)
EXTENDS Integers, Sequences, SequencesExt

CONSTANTS
  Finders,       \* goroutines
  Objects,       \* OIDs asked for, 0 included
  Known,         \* sequence: NxOmapOid, NxSpacemanOid, then the volumes' OIDs that are not 0
  Words(_, _),
  Mapped(_, _),
  OIDLimit,      \* larger words are no OIDs (10^9)
  MaxState       \* bound: how often the medium is written

\* The superblock names an object map and a space manager; blocks have words.
ASSUME KnownAssumption ==
  /\ Objects \subseteq Nat /\ Known \in Seq(Nat) /\ Known # <<>>
  /\ MaxState \in Nat /\ OIDLimit \in Nat
  /\ \A i \in 1..Len(Known), v \in 0..MaxState : Words(Known[i], v) \in Seq(Nat) \ {<<>>}

VARIABLES
  cache,    \* OID -> [oid, ver]: the block of the object as read in state ver
  medium,   \* state of the medium
  at,       \* per goroutine: "idle", "find", "read", "store"
  todo,     \* per goroutine: OIDs still to be found, the one in work first
  data,     \* per goroutine: the block read
  graph     \* per goroutine: [objects, refs] of AnalyzeObjectReferences

locVars == <<cache, medium, at, todo, data, graph>>

NoData == [oid |-> 0, ver |-> 0]
NoGraph == [objects |-> {}, refs |-> <<>>]

LocInit ==
  /\ cache = [o \in {} |-> NoData]
  /\ medium = 0
  /\ at = [f \in Finders |-> "idle"]
  /\ todo = [f \in Finders |-> <<>>]
  /\ data = [f \in Finders |-> NoData]
  /\ graph = [f \in Finders |-> NoGraph]

-----------------------------------------------------------------------------

\* GetObjectDependencies: words that could be OIDs, each once; the loop stops
\* before the last word.
Plausible(w) == w > 0 /\ w < OIDLimit
AddOnce(deps, w) == IF Plausible(w) /\ ~Contains(deps, w) THEN Append(deps, w) ELSE deps

Dependencies(d) == FoldLeft(AddOnce, <<>>, Front(Words(d.oid, d.ver)))

\* FindObjectByID and the calls made of one lookup: IsObjectValid,
\* GetObjectDependencies, GetObjectType, GetObjectSize.
FindObjectByID(f) ==
  /\ at[f] = "idle"
  /\ \E o \in Objects : todo' = [todo EXCEPT ![f] = <<o>>]
  /\ at' = [at EXCEPT ![f] = "find"]
  /\ graph' = [graph EXCEPT ![f] = NoGraph]
  /\ UNCHANGED <<cache, medium, data>>

\* AnalyzeObjectReferences; FindOrphanedObjects begins with it too.
AnalyzeObjectReferences(f) ==
  /\ at[f] = "idle"
  /\ todo' = [todo EXCEPT ![f] = Known]
  /\ at' = [at EXCEPT ![f] = "find"]
  /\ graph' = [graph EXCEPT ![f] = [objects |-> Range(Known), refs |-> <<>>]]
  /\ UNCHANGED <<cache, medium, data>>

Refs(o, d) == [i \in 1..Len(Dependencies(d)) |-> <<o, Dependencies(d)[i]>>]

\* The lookup is over; an analysis notes the references and goes on.
Finish(f) ==
  /\ todo' = [todo EXCEPT ![f] = Tail(@)]
  /\ at' = [at EXCEPT ![f] = IF Len(todo[f]) > 1 THEN "find" ELSE "idle"]
  /\ data' = [data EXCEPT ![f] = NoData]

Analyzing(f) == graph[f] # NoGraph

Deliver(f, d) ==
  /\ Finish(f)
  /\ graph' = IF Analyzing(f)
              THEN [graph EXCEPT ![f] = [objects |-> @.objects \cup Range(Dependencies(d)),
                                         refs |-> @.refs \o Refs(Head(todo[f]), d)]]
              ELSE graph

Hit(f) ==
  /\ at[f] = "find" /\ Head(todo[f]) \in DOMAIN cache
  /\ Deliver(f, cache[Head(todo[f])])
  /\ UNCHANGED <<cache, medium>>

\* Mutant: the cache is written but never looked at.
MissAlways(f) ==
  /\ at[f] = "find" /\ Head(todo[f]) # 0
  /\ at' = [at EXCEPT ![f] = "read"]
  /\ UNCHANGED <<cache, medium, todo, data, graph>>

Miss(f) ==
  /\ at[f] = "find" /\ Head(todo[f]) \notin DOMAIN cache /\ Head(todo[f]) # 0
  /\ at' = [at EXCEPT ![f] = "read"]
  /\ UNCHANGED <<cache, medium, todo, data, graph>>

\* Resolve and read: the container may still hold the block as it was.
ReadObject(f) ==
  /\ at[f] = "read"
  /\ \E v \in 0..medium : /\ Mapped(Head(todo[f]), v)
                          /\ data' = [data EXCEPT ![f] = [oid |-> Head(todo[f]), ver |-> v]]
  /\ at' = [at EXCEPT ![f] = "store"]
  /\ UNCHANGED <<cache, medium, todo, graph>>

\* OID 0, an object that cannot be resolved, a block that cannot be read: the
\* error is returned, an analysis passes over it.
FindFails(f) ==
  /\ \/ at[f] = "read"
     \/ at[f] = "find" /\ Head(todo[f]) = 0
  /\ Finish(f)
  /\ UNCHANGED <<cache, medium, graph>>

Store(f) ==
  /\ at[f] = "store"
  /\ LET o == Head(todo[f])
     IN  cache' = [k \in DOMAIN cache \cup {o} |-> IF k = o THEN data[f] ELSE cache[k]]
  /\ Deliver(f, data[f])
  /\ UNCHANGED medium

MediumWritten == medium < MaxState /\ medium' = medium + 1 /\ UNCHANGED <<cache, at, todo, data, graph>>

LocStep(f) == Hit(f) \/ Miss(f) \/ ReadObject(f) \/ FindFails(f) \/ Store(f)
LocNext ==
  \/ \E f \in Finders : FindObjectByID(f) \/ AnalyzeObjectReferences(f) \/ LocStep(f)
  \/ MediumWritten

\* FindOrphanedObjects, from the graph of its analysis.
Orphans(g) == Range(Known) \ g.objects

-----------------------------------------------------------------------------
(* Properties.                                                             *)

\* Whatever the interleaving, an object is cached under its own OID, as some
\* state of the medium had it (28-62).
CachedIsOwn ==
  \A o \in DOMAIN cache : cache[o].oid = o /\ cache[o].ver <= medium /\ Mapped(o, cache[o].ver)

\* Concurrent finders may overwrite each other's result, an older block a newer
\* one; but once an object is cached and nobody is still reading it, every later
\* call gets the same block for ever, however often the medium is written.
Settled(o, v) ==
  /\ o \in DOMAIN cache /\ cache[o].ver = v
  /\ \A f \in Finders : at[f] \in {"read", "store"} => Head(todo[f]) # o
LocatedObjectsSettle ==
  [][\A o \in Objects \cup Range(Known), v \in 0..MaxState : Settled(o, v) => Settled(o, v)']_locVars

\* The superblock's fields name an object once: nothing keeps the OID of the
\* object map, a block number, from being that of another object.
KnownOnce(o) == \A i, j \in 1..Len(Known) : Known[i] = o /\ Known[j] = o => i = j

\* The graph of an analysis: its references come from known objects, each one at
\* most once if its object is named once, to words their blocks have had; its
\* objects are the known ones and the targets; so FindOrphanedObjects, which looks
\* for known objects missing from it, never finds one (160-265).
GraphIsSound ==
  \A f \in Finders : Analyzing(f) =>
    LET g == graph[f]
    IN  /\ \A i, j \in 1..Len(g.refs) : g.refs[i] = g.refs[j] /\ KnownOnce(g.refs[i][1]) => i = j
        /\ \A r \in Range(g.refs) : /\ Contains(Known, r[1])
                                    /\ \E v \in 0..medium : Contains(Words(r[1], v), r[2])
        /\ g.objects = Range(Known) \cup {r[2] : r \in Range(g.refs)}
        /\ Orphans(g) = {}

\* What the locator hands out: objects that are their own and stay what they
\* were, and graphs made of nothing else.
LocatorIsSound == [](CachedIsOwn /\ GraphIsSound) /\ LocatedObjectsSettle

\* Every lookup and every analysis ends.
FindsEnd == \A f \in Finders : at[f] # "idle" ~> at[f] = "idle"

=============================================================================
