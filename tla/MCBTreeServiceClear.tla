-------------------------- MODULE MCBTreeServiceClear --------------------------
(***************************************************************************)
(* BTreeService with a history of its ClearCache calls: which of them met  *)
(* no other call, and the state of the medium when each call was made.     *)
(***************************************************************************)
EXTENDS MCBTreeService

VARIABLES
  undisturbed,  \* the ClearCache under way has met no call so far
  barrier,      \* version at the last ClearCache that met no call
  floor         \* per caller: barrier when its last call was made

HInit ==
  /\ SvcInit
  /\ undisturbed = FALSE
  /\ barrier = 0
  /\ floor = [c \in Callers |-> 0]

HNext ==
  /\ SvcNext
  /\ undisturbed' = /\ clearing'
                    /\ \A c \in Callers : pc'[c] = "idle"
                    /\ clearing => undisturbed
  /\ barrier' = IF clearing /\ ~clearing' /\ undisturbed THEN version ELSE barrier
  /\ floor' = [c \in Callers |-> IF pc[c] = "idle" /\ pc'[c] # "idle" THEN barrier ELSE floor[c]]

HSpec == HInit /\ [][HNext]_<<svcVars, undisturbed, barrier, floor>>

\* "ClearCache clears all cached data" (434): a call made after a ClearCache
\* that met no call in flight is answered from the medium as it was then or
\* later.
ClearedIsForgotten ==
  \A c \in Callers : result[c] # None => result[c].ver >= floor[c]

=============================================================================
