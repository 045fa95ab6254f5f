------------------------------ MODULE LruCache ------------------------------
(***************************************************************************)
(* The cache of hw04: a map from keys to items of the linked list, whose   *)
(* values are the entries.  Every method holds the mutex from its first to *)
(* its last statement, so a call is one step.  Items is the heap; an item  *)
(* that neither the list nor the map refers to is free again.              *)
(***************************************************************************)
EXTENDS LinkedList, Integers

CONSTANTS
    Keys, Values,
    Capacities  \* the arguments of NewCache

ASSUME CacheAssumption == Capacities \subseteq Int /\ \A c \in Capacities : Cardinality(Items) > c

VARIABLES
    capacity,
    queue,  \* the list
    items,  \* the map, with the domain of the cached keys
    entry,  \* the cacheItem of each item in use
    answer  \* the last call and its result

cacheVars == <<capacity, queue, items, entry, answer>>

NoItems == [k \in {} |-> Nil]
Without(m, k) == [j \in DOMAIN m \ {k} |-> m[j]]

CacheInit ==
    /\ capacity \in {IF c < 0 THEN 0 ELSE c : c \in Capacities}
    /\ queue = NewList
    /\ items = NoItems
    /\ entry = [i \in Items |-> Nil]
    /\ answer = <<"NewCache">>

\* A key of the map: the entry changes and moves to the front.
SetPresent(k, v) ==
    /\ k \in DOMAIN items
    /\ entry' = [entry EXCEPT ![items[k]] = <<k, v>>]
    /\ queue' = MoveToFront(queue, items[k])
    /\ answer' = <<"Set", k, v, TRUE>>
    /\ UNCHANGED items

\* Mutant: one entry more than the capacity.
EvictLate(q, m, e) ==
    IF q.length > capacity + 1
    THEN <<Remove(q, q.back), Without(m, e[q.back][1])>>
    ELSE <<q, m>>

\* Beyond the capacity the last item leaves the list and the map.
Evict(q, m, e) ==
    IF q.length > capacity
    THEN <<Remove(q, q.back), Without(m, e[q.back][1])>>
    ELSE <<q, m>>

SetAbsent(k, v) ==
    /\ k \notin DOMAIN items
    /\ \E i \in Items \ ItemsOf(queue) :
       LET added == [j \in DOMAIN items \cup {k} |-> IF j = k THEN i ELSE items[j]]
           e == [entry EXCEPT ![i] = <<k, v>>]
           evicted == Evict(PushFront(queue, i), added, e)
       IN  /\ queue' = evicted[1] /\ items' = evicted[2]
           /\ entry' = [j \in Items |-> IF j \in ItemsOf(evicted[1]) THEN e[j] ELSE Nil]
    /\ answer' = <<"Set", k, v, FALSE>>

Set(k, v) == SetPresent(k, v) \/ SetAbsent(k, v)

Get(k) ==
    /\ IF k \in DOMAIN items
       THEN /\ queue' = MoveToFront(queue, items[k])
            /\ answer' = <<"Get", k, entry[items[k]][2], TRUE>>
       ELSE answer' = <<"Get", k, FALSE>> /\ UNCHANGED queue
    /\ UNCHANGED <<items, entry>>

Clear ==
    /\ queue' = NewList
    /\ items' = NoItems
    /\ entry' = [i \in Items |-> Nil]
    /\ answer' = <<"Clear">>

CacheNext == UNCHANGED capacity /\ (Clear \/ \E k \in Keys : Get(k) \/ \E v \in Values : Set(k, v))
CacheSpec == CacheInit /\ [][CacheNext]_cacheVars

-----------------------------------------------------------------------------
\* Map and list hold the same entries, each key once: no key leads to an item
\* that was evicted or now belongs to another key, no item is unreachable.
MapMatchesList ==
    /\ WellFormed(queue)
    /\ {items[k] : k \in DOMAIN items} = ItemsOf(queue)
    /\ \A k \in DOMAIN items : entry[items[k]][1] = k

\* The entries in the order of the list.
Entries == LET f == Forward(queue) IN [n \in 1..Len(f) |-> entry[f[n]]]

\* Every call answers as a cache of the entries in order of their last use
\* would, for any capacity, zero included.
Recency == INSTANCE RecencyCache WITH bound <- capacity, order <- Entries
ImplementsRecencyCache == Recency!Spec
=============================================================================
