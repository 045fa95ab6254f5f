----------------------------- MODULE LinkedList -----------------------------
(***************************************************************************)
(* The doubly linked list of hw04: a record of the header and of the Next  *)
(* and Prev pointers of every item of the heap.  Nil is the nil pointer.   *)
(***************************************************************************)
EXTENDS Naturals, Sequences, FiniteSets

CONSTANTS Items, Nil
ASSUME ListAssumption == IsFiniteSet(Items) /\ Nil \notin Items

NewList ==
    [length |-> 0, front |-> Nil, back |-> Nil,
     next |-> [i \in Items |-> Nil], prev |-> [i \in Items |-> Nil]]

PushFront(l, i) ==
    [length |-> l.length + 1,
     front |-> i,
     back |-> IF l.front = Nil THEN i ELSE l.back,
     next |-> [l.next EXCEPT ![i] = l.front],
     prev |-> [j \in Items |-> IF j = i THEN Nil ELSE IF j = l.front THEN i ELSE l.prev[j]]]

PushBack(l, i) ==
    [length |-> l.length + 1,
     front |-> IF l.back = Nil THEN i ELSE l.front,
     back |-> i,
     next |-> [j \in Items |-> IF j = i THEN Nil ELSE IF j = l.back THEN i ELSE l.next[j]],
     prev |-> [l.prev EXCEPT ![i] = l.back]]

\* The two neighbours of an item point past it.
BypassNext(l, i) == [j \in Items |-> IF j = l.prev[i] THEN l.next[i] ELSE l.next[j]]
BypassPrev(l, i) == [j \in Items |-> IF j = l.next[i] THEN l.prev[i] ELSE l.prev[j]]

\* Mutant: the back pointer is forgotten.
RemoveKeepingBack(l, i) ==
    [length |-> l.length - 1,
     front |-> IF l.prev[i] = Nil THEN l.next[i] ELSE l.front,
     back |-> l.back,
     next |-> [BypassNext(l, i) EXCEPT ![i] = Nil],
     prev |-> [BypassPrev(l, i) EXCEPT ![i] = Nil]]

Remove(l, i) ==
    [length |-> l.length - 1,
     front |-> IF l.prev[i] = Nil THEN l.next[i] ELSE l.front,
     back |-> IF l.next[i] = Nil THEN l.prev[i] ELSE l.back,
     next |-> [BypassNext(l, i) EXCEPT ![i] = Nil],
     prev |-> [BypassPrev(l, i) EXCEPT ![i] = Nil]]

MoveToFront(l, i) ==
    IF i = l.front THEN l
    ELSE [l EXCEPT !.front = i,
                   !.back = IF l.next[i] = Nil THEN l.prev[i] ELSE l.back,
                   !.next = [BypassNext(l, i) EXCEPT ![i] = l.front],
                   !.prev = [BypassPrev(l, i) EXCEPT ![i] = Nil, ![l.front] = i]]

-----------------------------------------------------------------------------
\* The items met from start along the pointers step, cut off after a turn more
\* than there are items: a cycle shows as a longer sequence.
Walk(start, step) ==
    LET onward == [i \in Items \cup {Nil} |-> IF i = Nil THEN Nil ELSE step[i]]
        at[n \in 1..(Cardinality(Items) + 1)] == IF n = 1 THEN start ELSE onward[at[n - 1]]
    IN  [n \in 1..Cardinality({m \in DOMAIN at : at[m] # Nil}) |-> at[n]]

Forward(l) == Walk(l.front, l.next)
Backward(l) == Walk(l.back, l.prev)
ItemsOf(l) == {Forward(l)[n] : n \in 1..Len(Forward(l))}

\* Both directions show the same items, as many as the length says, and items
\* outside of the list point nowhere.
WellFormed(l) ==
    LET f == Forward(l)
        b == Backward(l)
    IN  /\ Len(f) = l.length /\ Len(b) = l.length
        /\ Cardinality(ItemsOf(l)) = l.length
        /\ \A n \in 1..l.length : b[n] = f[l.length + 1 - n]
        /\ \A i \in Items \ ItemsOf(l) : l.next[i] = Nil /\ l.prev[i] = Nil
=============================================================================
