--------------------------- MODULE ListOperations ---------------------------
(***************************************************************************)
(* Any sequence of operations on the linked list of hw04: PushFront and    *)
(* PushBack allocate an item, Remove and MoveToFront take one of the list. *)
(***************************************************************************)
EXTENDS LinkedList

VARIABLES list, op
listVars == <<list, op>>

ListInit == list = NewList /\ op = <<"NewList">>

Allocate(i) ==
    /\ i \notin ItemsOf(list)
    /\ \/ list' = PushFront(list, i) /\ op' = <<"PushFront", i>>
       \/ list' = PushBack(list, i) /\ op' = <<"PushBack", i>>
Relink(i) ==
    /\ i \in ItemsOf(list)
    /\ \/ list' = Remove(list, i) /\ op' = <<"Remove", i>>
       \/ list' = MoveToFront(list, i) /\ op' = <<"MoveToFront", i>>

ListNext == \E i \in Items : Allocate(i) \/ Relink(i)
ListSpec == ListInit /\ [][ListNext]_listVars

\* After every sequence of pushes, moves and removals the list reads the same
\* in both directions, has no cycle and is as long as Len says.
ListWellFormed == WellFormed(list)

\* The pointer operations do to the order of the items what their names say.
Order == INSTANCE SequenceList WITH seq <- Forward(list)
ImplementsSequenceList == Order!Spec
=============================================================================
