---------------------------- MODULE MemoryStorage ----------------------------
(***************************************************************************)
(* internal/storage/memory: the calendar kept in a map under an RWMutex.   *)
(* Every HTTP request is a goroutine of its own.  A writing call checks    *)
(* and changes the map in separate steps under the write lock; ListEvents  *)
(* visits the map event by event under the read lock; and the client may   *)
(* disconnect anywhere, which every ctx.Err() of the code can see.         *)
(*                                                                         *)
(* A call is a record: create and update carry the event, delete the id,   *)
(* list the user and the half-open interval [from, to).  The calls come    *)
(* from the HTTP handlers of CalendarApi.                                  *)
(***************************************************************************)
EXTENDS Integers, FiniteSets, Sequences

CONSTANTS
    Handlers,   \* request goroutines
    Requests,   \* the events that API clients submit, valid or not
    NoHandler   \* no goroutine holds the write lock

VARIABLES
    store,      \* Storage.events, from ids to events
    writer,     \* the holder of mu.Lock
    readers,    \* the holders of mu.RLock
    pc,         \* where each goroutine is
    call,       \* its call
    cancelled,  \* its request context is done
    reply,      \* what the call returned
    todo,       \* ListEvents: ids not visited yet
    found,      \* ListEvents: events collected so far
    listing     \* ListEvents: the slice returned

storageVars == <<store, writer, readers, pc, call, cancelled, reply, todo, found, listing>>
listVars == <<todo, found, listing>>

ASSUME HandlersAssumption == NoHandler \notin Handlers /\ IsFiniteSet(Handlers)

\* The rows the map stands for; the shared rules of internal/storage come with it.
Row(e) ==
    [id |-> e.id, title |-> e.title, startAt |-> e.startAt, endAt |-> e.endAt,
     userID |-> e.userID, notifyBefore |-> e.notifyBefore, sent |-> FALSE]
Table == {Row(store[i]) : i \in DOMAIN store}

ES == INSTANCE EventStorage WITH events <- Table, Cutoffs <- {}

Writes == {"create", "update", "delete"}
Locations == {"idle", "enter", "lock", "check", "write", "scan", "returned"}
Replies == {"none", "ok", "invalid", "exists", "notFound", "busy", "canceled"}

Goto(h, to) == pc' = [pc EXCEPT ![h] = to]

StoreInit ==
    /\ store = [i \in {} |-> i]
    /\ writer = NoHandler
    /\ readers = {}
    /\ pc = [h \in Handlers |-> "idle"]
    /\ call = [h \in Handlers |-> NoHandler]
    /\ cancelled = [h \in Handlers |-> FALSE]
    /\ reply = [h \in Handlers |-> "none"]
    /\ todo = [h \in Handlers |-> {}]
    /\ found = [h \in Handlers |-> {}]
    /\ listing = [h \in Handlers |-> << >>]

-----------------------------------------------------------------------------
\* A handler calls the storage.
Invoke(h, c) ==
    /\ pc[h] = "idle"
    /\ Goto(h, "enter")
    /\ call' = [call EXCEPT ![h] = c]
    /\ UNCHANGED <<store, writer, readers, cancelled, reply, listVars>>

\* The client disconnects: net/http cancels the request context.
Disconnect(h) ==
    /\ pc[h] \notin {"idle", "returned"}
    /\ ~cancelled[h]
    /\ cancelled' = [cancelled EXCEPT ![h] = TRUE]
    /\ UNCHANGED <<store, writer, readers, pc, call, reply, listVars>>

\* Mutant: the lock is released on success only.
ReturnKeepsLock(h, result) ==
    /\ Goto(h, "returned")
    /\ reply' = [reply EXCEPT ![h] = result]
    /\ writer' = IF writer = h /\ result = "ok" THEN NoHandler ELSE writer
    /\ readers' = readers \ {h}

\* The return statement; the deferred Unlock or RUnlock runs with it.
ReturnWith(h, result) ==
    /\ Goto(h, "returned")
    /\ reply' = [reply EXCEPT ![h] = result]
    /\ writer' = IF writer = h THEN NoHandler ELSE writer
    /\ readers' = readers \ {h}

\* What the checks before the lock find wrong with the arguments.
BadArguments(c) ==
    \/ c.op \in {"create", "update"} /\ ~ES!ValidateEvent(c.event)
    \/ c.op = "delete" /\ c.id = 0
    \/ c.op = "list" /\ (c.userID = ES!BlankText \/ c.from = 0 \/ c.to = 0 \/ c.to <= c.from)

\* The first ctx.Err() and the validation.
Enter(h) ==
    /\ pc[h] = "enter"
    /\ \/ cancelled[h] /\ ReturnWith(h, "canceled")
       \/ ~cancelled[h] /\ BadArguments(call[h]) /\ ReturnWith(h, "invalid")
       \/ /\ ~cancelled[h] /\ ~BadArguments(call[h])
          /\ Goto(h, "lock")
          /\ UNCHANGED <<writer, readers, reply>>
    /\ UNCHANGED <<store, call, cancelled, listVars>>

\* Mutant: writers do not wait for each other.
LockShared(h) ==
    /\ pc[h] = "lock"
    /\ call[h].op \in Writes
    /\ readers = {}
    /\ writer' = h
    /\ Goto(h, "check")
    /\ UNCHANGED <<store, readers, call, cancelled, reply, listVars>>

\* s.mu.Lock()
Lock(h) ==
    /\ pc[h] = "lock"
    /\ call[h].op \in Writes
    /\ writer = NoHandler /\ readers = {}
    /\ writer' = h
    /\ Goto(h, "check")
    /\ UNCHANGED <<store, readers, call, cancelled, reply, listVars>>

\* Another event of the user is in the way; an update does not compete with itself.
dateBusy(e, excluded) ==
    \E i \in DOMAIN store \ excluded :
        store[i].userID = e.userID /\ ES!Overlap(store[i], e)

\* What the checks under the lock find; "ok" lets the call write.
Verdict(c) ==
    CASE c.op = "create" /\ c.event.id \in DOMAIN store -> "exists"
      [] c.op = "update" /\ c.event.id \notin DOMAIN store -> "notFound"
      [] c.op = "delete" /\ c.id \notin DOMAIN store -> "notFound"
      [] c.op = "create" /\ dateBusy(c.event, {}) -> "busy"
      [] c.op = "update" /\ dateBusy(c.event, {c.event.id}) -> "busy"
      [] OTHER -> "ok"

Check(h) ==
    /\ pc[h] = "check"
    /\ \/ cancelled[h] /\ ReturnWith(h, "canceled")
       \/ /\ ~cancelled[h] /\ Verdict(call[h]) # "ok"
          /\ ReturnWith(h, Verdict(call[h]))
       \/ /\ ~cancelled[h] /\ Verdict(call[h]) = "ok"
          /\ Goto(h, "write")
          /\ UNCHANGED <<writer, readers, reply>>
    /\ UNCHANGED <<store, call, cancelled, listVars>>

\* s.events[event.ID] = event, or delete(s.events, id), and the unlock.
Write(h) ==
    LET c == call[h]
    IN  /\ pc[h] = "write"
        /\ store' = IF c.op = "delete"
                    THEN [i \in DOMAIN store \ {c.id} |-> store[i]]
                    ELSE [i \in DOMAIN store \cup {c.event.id} |->
                            IF i = c.event.id THEN c.event ELSE store[i]]
        /\ ReturnWith(h, "ok")
        /\ UNCHANGED <<call, cancelled, listVars>>

-----------------------------------------------------------------------------
\* s.mu.RLock()
RLock(h) ==
    /\ pc[h] = "lock"
    /\ call[h].op = "list"
    /\ writer = NoHandler
    /\ readers' = readers \cup {h}
    /\ todo' = [todo EXCEPT ![h] = DOMAIN store]
    /\ found' = [found EXCEPT ![h] = {}]
    /\ Goto(h, "scan")
    /\ UNCHANGED <<store, writer, call, cancelled, reply, listing>>

Matches(e, c) == e.userID = c.userID /\ e.startAt < c.to /\ c.from < e.endAt

\* One turn of the loop over the map, in no particular order.
Scan(h) ==
    /\ pc[h] = "scan"
    /\ \/ /\ cancelled[h] /\ ReturnWith(h, "canceled")
          /\ UNCHANGED <<todo, found>>
       \/ /\ ~cancelled[h]
          /\ \E i \in todo[h] :
                /\ todo' = [todo EXCEPT ![h] = @ \ {i}]
                /\ found' = IF i \in DOMAIN store /\ Matches(store[i], call[h])
                            THEN [found EXCEPT ![h] = @ \cup {store[i]}]
                            ELSE found
          /\ UNCHANGED <<writer, readers, pc, reply>>
    /\ UNCHANGED <<store, call, cancelled, listing>>

\* Mutant: sorted by id only.
SortedById(S) ==
    [n \in 1..Cardinality(S) |-> CHOOSE e \in S : Cardinality({q \in S : q.id < e.id}) = n - 1]

\* sort.Slice by start and id, a total order on events with different ids.
Sorted(S) ==
    [n \in 1..Cardinality(S) |->
        CHOOSE e \in S : Cardinality({q \in S : ES!Before(q, e)}) = n - 1]

FinishList(h) ==
    /\ pc[h] = "scan"
    /\ ~cancelled[h]
    /\ todo[h] = {}
    /\ listing' = [listing EXCEPT ![h] = Sorted(found[h])]
    /\ ReturnWith(h, "ok")
    /\ UNCHANGED <<store, call, cancelled, todo, found>>

CallStep(h) ==
    \/ Enter(h) \/ Lock(h) \/ Check(h) \/ Write(h) \/ RLock(h) \/ Scan(h) \/ FinishList(h)

\* The handler has used the result; the locals of the request die with it.
Done(h) ==
    /\ pc[h] = "returned"
    /\ Goto(h, "idle")
    /\ call' = [call EXCEPT ![h] = NoHandler]
    /\ cancelled' = [cancelled EXCEPT ![h] = FALSE]
    /\ reply' = [reply EXCEPT ![h] = "none"]
    /\ todo' = [todo EXCEPT ![h] = {}]
    /\ found' = [found EXCEPT ![h] = {}]
    /\ listing' = [listing EXCEPT ![h] = << >>]
    /\ UNCHANGED <<store, writer, readers>>

-----------------------------------------------------------------------------
\* Types, the map's keys, and the two modes of the RWMutex exclude each other.
StoreTypeOK ==
    /\ DOMAIN store \subseteq Nat
    /\ \A i \in DOMAIN store : store[i] \in ES!Event /\ store[i].id = i
    /\ writer \in Handlers \cup {NoHandler}
    /\ readers \subseteq Handlers
    /\ writer # NoHandler => readers = {}
    /\ pc \in [Handlers -> Locations]
    /\ reply \in [Handlers -> Replies]
    /\ cancelled \in [Handlers -> BOOLEAN]

\* The in-memory calendar keeps the promises of the events table: whatever the
\* goroutines interleave, each step of a writing call is one atomic CreateEvent,
\* UpdateEvent or DeleteEvent of EventStorage, or changes nothing.  In
\* particular nobody is booked twice.
ImplementsEventStorage == ES!StorageSpec

\* Every call returns and no goroutine keeps the lock: the deferred unlock runs
\* on all of the return paths.
CallReturns == \A h \in Handlers : pc[h] = "enter" ~> pc[h] = "returned"
=============================================================================
