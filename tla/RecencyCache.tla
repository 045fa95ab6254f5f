---------------------------- MODULE RecencyCache ----------------------------
(***************************************************************************)
(* What the cache of hw04 promises: the entries in the order of their last *)
(* use, at most capacity of them, the least recently used one evicted.     *)
(***************************************************************************)
EXTENDS Naturals, Sequences

CONSTANTS Keys, Values

VARIABLES
    bound,  \* the number of entries it may hold
    order,  \* the entries <<key, value>>, the last used one first
    answer  \* the last call and its result

vars == <<bound, order, answer>>

Present(k) == \E n \in 1..Len(order) : order[n][1] = k
Place(k) == CHOOSE n \in 1..Len(order) : order[n][1] = k
ValueOf(k) == order[Place(k)][2]
Others(k) ==
    IF Present(k) THEN [n \in 1..(Len(order) - 1) |-> order[IF n < Place(k) THEN n ELSE n + 1]]
    ELSE order

Init == bound \in Nat /\ order = <<>> /\ answer = <<"NewCache">>

Set(k, v) ==
    LET all == <<<<k, v>>>> \o Others(k)
    IN  /\ order' = IF Len(all) > bound THEN SubSeq(all, 1, bound) ELSE all
        /\ answer' = <<"Set", k, v, Present(k)>>

Get(k) ==
    /\ order' = IF Present(k) THEN <<<<k, ValueOf(k)>>>> \o Others(k) ELSE order
    /\ answer' = IF Present(k) THEN <<"Get", k, ValueOf(k), TRUE>> ELSE <<"Get", k, FALSE>>

Clear == order' = <<>> /\ answer' = <<"Clear">>

Next == UNCHANGED bound /\ (Clear \/ \E k \in Keys : Get(k) \/ \E v \in Values : Set(k, v))
Spec == Init /\ [][Next]_vars
=============================================================================
