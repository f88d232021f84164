----------------------------- MODULE RecencyList -----------------------------
(***************************************************************************)
(* container/list as ObjectMapBTreeCache uses it: a doubly linked list of  *)
(* distinct keys, most recently used at the front.                         *)
(***************************************************************************)
EXTENDS Integers, Sequences

Keys(s) == {s[i] : i \in 1..Len(s)}

Distinct(s) == \A i, j \in 1..Len(s) : s[i] = s[j] => i = j

\* PushFront
PushFront(s, k) == [i \in 1..(Len(s) + 1) |-> IF i = 1 THEN k ELSE s[i - 1]]

\* The list with its i-th element unlinked.
Unlink(s, i) == [j \in 1..(Len(s) - 1) |-> IF j < i THEN s[j] ELSE s[j + 1]]

\* Remove(element) of the element that holds k.
RemoveKey(s, k) == Unlink(s, CHOOSE i \in 1..Len(s) : s[i] = k)

\* MoveToFront(element) of the element that holds k.
MoveToFront(s, k) == PushFront(RemoveKey(s, k), k)

\* Back() removed repeatedly until n elements are left.
KeepFront(s, n) == [i \in 1..n |-> s[i]]

=============================================================================
