---------------------------- MODULE SequenceList ----------------------------
(***************************************************************************)
(* What the interface List of hw04 promises, on a sequence of items.       *)
(***************************************************************************)
EXTENDS Naturals, Sequences

CONSTANT Items
VARIABLES
    seq,    \* the items from front to back
    op      \* the last operation and its item

vars == <<seq, op>>

Members == {seq[n] : n \in 1..Len(seq)}
Place(i) == CHOOSE n \in 1..Len(seq) : seq[n] = i
Without(i) == [n \in 1..(Len(seq) - 1) |-> seq[IF n < Place(i) THEN n ELSE n + 1]]

Init == seq = <<>> /\ op = <<"NewList">>

PushFront(i) == i \notin Members /\ seq' = <<i>> \o seq /\ op' = <<"PushFront", i>>
PushBack(i) == i \notin Members /\ seq' = Append(seq, i) /\ op' = <<"PushBack", i>>
Remove(i) == i \in Members /\ seq' = Without(i) /\ op' = <<"Remove", i>>
MoveToFront(i) == i \in Members /\ seq' = <<i>> \o Without(i) /\ op' = <<"MoveToFront", i>>

Next == \E i \in Items : PushFront(i) \/ PushBack(i) \/ Remove(i) \/ MoveToFront(i)
Spec == Init /\ [][Next]_vars
=============================================================================
