------------------------------ MODULE BlockStore ------------------------------
(***************************************************************************)
(* What a block reader promises, with no cache and no locks: every call    *)
(* returns either an error or exactly the blocks asked for, all of them    *)
(* from inside the container, each as it was on the medium at some moment  *)
(* not before the last barrier.  Which block answers a number whose offset *)
(* does not fit the word is left open.  ContainerReader implements it.     *)
(***************************************************************************)
EXTENDS Integers, Sequences

CONSTANTS Readers, BlockNumbers, MaxCount, BlockSize, ContainerSize, WordSize, MaxVersion

VARIABLES
  version,  \* how often the medium has been written
  barrier,  \* contents older than this are no longer returned
  call,     \* per reader: "idle" or "busy"
  req,      \* per reader: [start, count]
  answer    \* per reader: what the last call returned

vars == <<version, barrier, call, req, answer>>

NoAnswer == [kind |-> "none", blocks |-> <<>>]
Error == [kind |-> "err", blocks |-> <<>>]

Init ==
  /\ version = 0
  /\ barrier = 0
  /\ call = [r \in Readers |-> "idle"]
  /\ req = [r \in Readers |-> [start |-> 0, count |-> 0]]
  /\ answer = [r \in Readers |-> NoAnswer]

Invoke(r, s, n) ==
  /\ call[r] = "idle"
  /\ call' = [call EXCEPT ![r] = "busy"]
  /\ req' = [req EXCEPT ![r] = [start |-> s, count |-> n]]
  /\ answer' = [answer EXCEPT ![r] = NoAnswer]
  /\ UNCHANGED <<version, barrier>>

\* The blocks start .. start+count-1, in order, none stale, none outside.
Proper(q, blocks) ==
  /\ blocks \in Seq([off : Nat, ver : Nat])
  /\ Len(blocks) = q.count
  /\ \A i \in 1..Len(blocks) :
       /\ (q.start + (i - 1)) * BlockSize < WordSize =>
            blocks[i].off = (q.start + (i - 1)) * BlockSize
       /\ blocks[i].off < ContainerSize
       /\ barrier <= blocks[i].ver
       /\ blocks[i].ver <= version

Respond(r) ==
  /\ call[r] = "busy"
  /\ call' = [call EXCEPT ![r] = "idle"]
  /\ \/ answer' = [answer EXCEPT ![r] = Error]
     \/ /\ answer' = [answer EXCEPT ![r] = [kind |-> "ok", blocks |-> answer'[r].blocks]]
        /\ Proper(req[r], answer'[r].blocks)
  /\ UNCHANGED <<version, barrier, req>>

Barrier ==
  /\ \A r \in Readers : call[r] = "idle"
  /\ barrier' = version
  /\ UNCHANGED <<version, call, req, answer>>

MediumWrite ==
  /\ version < MaxVersion
  /\ version' = version + 1
  /\ UNCHANGED <<barrier, call, req, answer>>

Next ==
  \/ \E r \in Readers :
       \/ \E s \in BlockNumbers, n \in 0..MaxCount : Invoke(r, s, n)
       \/ Respond(r)
  \/ Barrier
  \/ MediumWrite

Spec == Init /\ [][Next]_vars

=============================================================================
