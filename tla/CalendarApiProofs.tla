-------------------------- MODULE CalendarApiProofs --------------------------
(***************************************************************************)
(* Proofs about CalendarApi, for any requests, any number of goroutines    *)
(* and any width of the integers.                                          *)
(***************************************************************************)
EXTENDS CalendarApi, FiniteSetTheorems, SequenceTheorems, TLAPS

-----------------------------------------------------------------------------
(* The inductive invariant.                                                 *)

ApiTypes ==
    /\ writer \in Handlers \cup {NoHandler}
    /\ readers \subseteq Handlers
    /\ pc \in [Handlers -> Locations]
    /\ reply \in [Handlers -> Replies]
    /\ DOMAIN call = Handlers
    /\ DOMAIN request = Handlers
    /\ DOMAIN status = Handlers

\* Between Lock and the deferred Unlock a goroutine is the writer.
LockHeld == \A h \in Handlers : pc[h] \in {"check", "write"} => writer = h

\* A goroutine in the storage works on the call of its request, which passed the
\* checks of the handler.
Accepted(r) == r \in HttpRequests /\ EarlyStatus(r) = 0
InCall ==
    \A h \in Handlers : pc[h] \in {"enter", "lock", "check", "write", "scan"} =>
        Accepted(request[h]) /\ call[h] = CallOf(request[h])

\* What Check found still holds when Write runs.
VerdictStands ==
    \A h \in Handlers :
        /\ pc[h] \in {"check", "write"} => call[h].op \in Writes
        /\ pc[h] = "write" => Verdict(call[h]) = "ok"

\* Every event of the map is the conversion of an accepted request.
StoreFromRequests ==
    \A i \in DOMAIN store :
        \E r \in HttpRequests :
            /\ WritesEvent(r) /\ EarlyStatus(r) = 0
            /\ r.id = i /\ store[i] = newStorageEvent(r)

StoreInv == ApiTypes /\ LockHeld /\ InCall /\ VerdictStands /\ StoreFromRequests

\* The answer is the early status or the status of the storage's result.
Answered ==
    \A h \in Handlers :
        /\ pc[h] # "returned" => status[h] = 0
        /\ pc[h] = "scan" => Lists(request[h])
        /\ pc[h] = "returned" =>
              /\ request[h] \in HttpRequests
              /\ \/ EarlyStatus(request[h]) # 0 /\ status[h] = EarlyStatus(request[h])
                 \/ /\ EarlyStatus(request[h]) = 0 /\ reply[h] # "none"
                    /\ status[h] \in {0, StatusOf(request[h], reply[h])}

\* The requests of an operation that took effect and are not counted yet.
TookEffect(h, op) ==
    /\ pc[h] = "returned" /\ eventOperation(request[h].route) = op
    /\ Succeeded(status[h]) \/ (status[h] = 0 /\ reply[h] = "ok")
Uncounted(op) == {h \in Handlers : TookEffect(h, op)}

\* The counters, ahead by the requests that are still on their way through the
\* metrics middleware, agree with the map.
Balance ==
    /\ operations \in [Operations -> [success : Nat, error : Nat]]
    /\ IsFiniteSet(DOMAIN store)
    /\ operations["create"].success + Cardinality(Uncounted("create"))
          = operations["delete"].success + Cardinality(Uncounted("delete"))
              + Cardinality(DOMAIN store)

\* ListEvents has collected the matching events among those it has visited, and
\* the map stays as it is under the read lock.
ScanInv ==
    /\ DOMAIN todo = Handlers /\ DOMAIN found = Handlers /\ DOMAIN listing = Handlers
    /\ readers # {} => writer = NoHandler
    /\ \A h \in Handlers : pc[h] = "scan" =>
          /\ h \in readers
          /\ found[h] = {store[i] : i \in {j \in DOMAIN store \ todo[h] : Matches(store[j], call[h])}}

-----------------------------------------------------------------------------
(* The operators that turn a request into a call and a result into a status. *)

\* The statuses that are given before the application is reached.
LEMMA EarlyStatuses ==
    ASSUME NEW r
    PROVE  /\ EarlyStatus(r) \in {0, 200, 400, 404, 415}
           /\ EarlyStatus(r) = 200 => r.route = "GET /hello"
           /\ EarlyStatus(r) = 0 =>
                 /\ r.route \notin {"GET /hello", "unmatched"}
                 /\ WritesEvent(r) => ~TooLong(r.seconds) /\ ES!ValidateEvent(newStorageEvent(r))
                 /\ Bound(r)
<1> DEFINE greets == r.route = "GET /hello"
           unmatched == r.route = "unmatched"
           notJSON == Bound(r) /\ WritesEvent(r) /\ ~r.isJSON
           unbound == ~Bound(r)
           wrong == \/ ~Decoded(r)
                    \/ WritesEvent(r) /\ (TooLong(r.seconds) \/ ~ES!ValidateEvent(newStorageEvent(r)))
<1>1. EarlyStatus(r) = CASE greets -> 200 [] unmatched -> 404 [] unbound -> 400 [] notJSON -> 415
                         [] OTHER -> IF wrong THEN 400 ELSE 0
    BY DEF EarlyStatus
<1>2. ~wrong => (WritesEvent(r) => ~TooLong(r.seconds) /\ ES!ValidateEvent(newStorageEvent(r)))
    OBVIOUS
<1>3. ~greets /\ ~unmatched => r.route \notin {"GET /hello", "unmatched"}
    OBVIOUS
<1>4. (greets => r.route = "GET /hello") /\ (~unbound => Bound(r))
    OBVIOUS
<1> HIDE DEF greets, unmatched, notJSON, unbound, wrong
<1>5. /\ EarlyStatus(r) \in {0, 200, 400, 404, 415}
      /\ EarlyStatus(r) = 200 => greets
      /\ EarlyStatus(r) = 0 => ~wrong /\ ~greets /\ ~unmatched /\ ~unbound
    BY <1>1, SMT
<1> QED
    BY <1>2, <1>3, <1>4, <1>5

\* The requests that write an event reach CreateEvent and UpdateEvent.
LEMMA WritingCall ==
    ASSUME NEW r, WritesEvent(r)
    PROVE  /\ CallOf(r) = [op |-> eventOperation(r.route), event |-> newStorageEvent(r)]
           /\ CallOf(r).op = eventOperation(r.route)
           /\ CallOf(r).event = newStorageEvent(r)
<1>1. ~Lists(r)
    BY DEF WritesEvent, Lists
<1> QED
    BY <1>1 DEF CallOf

\* A call that writes, lists or deletes comes from a request that does.
LEMMA CallKinds ==
    ASSUME NEW r
    PROVE  /\ CallOf(r).op \in {"create", "update"} => WritesEvent(r)
           /\ CallOf(r).op = "delete" => ~WritesEvent(r) /\ ~Lists(r) /\ CallOf(r).id = r.id
           /\ CallOf(r).op = "list" => Lists(r)
<1>1. CASE WritesEvent(r)
    BY <1>1, WritingCall DEF WritesEvent
<1>2. CASE Lists(r)
    <2>1. ~WritesEvent(r)
        BY <1>2 DEF WritesEvent, Lists
    <2>2. CallOf(r).op = "list"
        BY <1>2, <2>1 DEF CallOf
    <2> QED
        BY <1>2, <2>1, <2>2
<1>3. CASE ~WritesEvent(r) /\ ~Lists(r)
    BY <1>3 DEF CallOf
<1> QED
    BY <1>1, <1>2, <1>3

\* int64(seconds) * time.Second does not overflow for the seconds that are accepted.
LEMMA DurationExact ==
    ASSUME NEW seconds, seconds # NoSeconds => seconds \in Int, ~TooLong(seconds)
    PROVE  notificationDuration(seconds) = IF seconds = NoSeconds THEN 0 ELSE seconds * Second
<1> SUFFICES ASSUME seconds # NoSeconds
             PROVE  Wrap(seconds * Second) = seconds * Second
    BY DEF notificationDuration
<1>1. seconds \in Nat /\ seconds <= MaxInt \div Second /\ MaxInt \in Nat /\ Second \in 1..MaxInt
    BY ApiAssumption DEF TooLong
<1>2. (MaxInt \div Second) * Second <= MaxInt /\ MaxInt \div Second \in Nat
    BY <1>1
<1>3. seconds * Second <= (MaxInt \div Second) * Second /\ seconds * Second \in Nat
    BY <1>1, <1>2
<1>4. seconds * Second \in 0..MaxInt
    BY <1>1, <1>2, <1>3
<1>5. ASSUME NEW x \in 0..MaxInt
      PROVE  Wrap(x) = x
    BY <1>1 DEF Wrap
<1> QED
    BY <1>4, <1>5

-----------------------------------------------------------------------------
(* Every step keeps StoreInv.                                               *)

\* While the map stays as it is, so does what Check finds.
LEMMA VerdictSame ==
    ASSUME store' = store, NEW c
    PROVE  Verdict(c)' = Verdict(c)
BY DEF Verdict, dateBusy

\* A step of h that leaves the map alone, moves only h and takes no lock from
\* anybody else keeps StoreInv, if it brings h to a place where h may be.
LEMMA OwnStep ==
    ASSUME StoreInv, NEW h \in Handlers, NEW to \in Locations,
           store' = store,
           pc' = [pc EXCEPT ![h] = to],
           reply' \in [Handlers -> Replies],
           writer' \in Handlers \cup {NoHandler},
           readers' \subseteq Handlers,
           DOMAIN call' = Handlers, DOMAIN request' = Handlers, DOMAIN status' = Handlers,
           \A g \in Handlers \ {h} :
              /\ call'[g] = call[g] /\ request'[g] = request[g]
              /\ writer = g => writer' = g,
           to \in {"check", "write"} =>
              /\ writer' = h /\ call'[h].op \in Writes
              /\ to = "write" => Verdict(call'[h]) = "ok",
           to \in {"enter", "lock", "check", "write", "scan"} =>
              Accepted(request'[h]) /\ call'[h] = CallOf(request'[h])
    PROVE  StoreInv'
<1>1. /\ pc'[h] = to
      /\ \A g \in Handlers \ {h} : pc'[g] = pc[g]
    BY DEF StoreInv, ApiTypes
<1>2. ApiTypes'
    BY DEF StoreInv, ApiTypes
<1>3. LockHeld'
    BY <1>1 DEF StoreInv, LockHeld
<1>4. InCall'
    BY <1>1 DEF StoreInv, InCall, Accepted
<1>5. VerdictStands'
    <2> SUFFICES ASSUME NEW g \in Handlers
                 PROVE  /\ pc'[g] \in {"check", "write"} => call'[g].op \in Writes
                        /\ pc'[g] = "write" => Verdict(call[g])' = "ok"
        BY DEF VerdictStands
    <2>1. Verdict(call[g])' = Verdict(call'[g])
        BY VerdictSame DEF Verdict, dateBusy
    <2>2. CASE g = h
        BY <1>1, <2>1, <2>2
    <2>3. CASE g # h
        BY <1>1, <2>1, <2>3 DEF StoreInv, VerdictStands
    <2> QED
        BY <2>2, <2>3
<1>6. StoreFromRequests'
    BY DEF StoreInv, StoreFromRequests
<1> QED
    BY <1>2, <1>3, <1>4, <1>5, <1>6 DEF StoreInv

\* A return statement, with the deferred unlock.
LEMMA ReturnStep ==
    ASSUME StoreInv, NEW h \in Handlers, NEW result \in Replies,
           ReturnWith(h, result), UNCHANGED <<store, call, request, status>>
    PROVE  StoreInv'
<1>1. /\ pc' = [pc EXCEPT ![h] = "returned"]
      /\ reply' \in [Handlers -> Replies]
      /\ writer' = IF writer = h THEN NoHandler ELSE writer
      /\ readers' \subseteq Handlers
    BY DEF ReturnWith, Goto, StoreInv, ApiTypes
<1>2. writer' \in Handlers \cup {NoHandler}
    BY <1>1 DEF StoreInv, ApiTypes
<1>3. "returned" \in Locations
    BY DEF Locations
<1> QED
    BY <1>1, <1>2, <1>3, OwnStep DEF StoreInv, ApiTypes

\* The steps of a storage call other than the write.
LEMMA ReadingStep ==
    ASSUME StoreInv, NEW h \in Handlers,
           Enter(h) \/ Lock(h) \/ Check(h) \/ RLock(h) \/ Scan(h) \/ FinishList(h),
           UNCHANGED <<request, status>>
    PROVE  StoreInv' /\ store' = store
<1> USE DEF Locations
<1>0. \A x \in {"canceled", "invalid", "ok", "exists", "notFound", "busy"} : x \in Replies
    BY DEF Replies
<1>i. /\ DOMAIN call = Handlers /\ DOMAIN request = Handlers /\ DOMAIN status = Handlers
      /\ writer \in Handlers \cup {NoHandler} /\ readers \subseteq Handlers
      /\ pc \in [Handlers -> Locations] /\ reply \in [Handlers -> Replies]
      /\ pc[h] \in {"enter", "lock", "check", "write", "scan"} =>
            Accepted(request[h]) /\ call[h] = CallOf(request[h])
      /\ pc[h] \in {"check", "write"} => writer = h /\ call[h].op \in Writes
    BY DEF StoreInv, ApiTypes, InCall, LockHeld, VerdictStands
<1>1. CASE Enter(h)
    <2>1. CASE ReturnWith(h, "canceled") \/ ReturnWith(h, "invalid")
        BY <1>0, <1>1, <2>1, ReturnStep DEF Enter
    <2>2. CASE Goto(h, "lock") /\ UNCHANGED <<writer, readers, reply>>
        BY <1>1, <1>i, <2>2, OwnStep DEF Enter, Goto
    <2> QED
        BY <1>1, <2>1, <2>2 DEF Enter
<1>2. CASE Lock(h)
    BY <1>2, <1>i, HandlersAssumption, OwnStep DEF Lock, Goto
<1>3. CASE Check(h)
    <2>1. CASE ReturnWith(h, "canceled")
        BY <1>0, <1>3, <2>1, ReturnStep DEF Check
    <2>2. CASE ReturnWith(h, Verdict(call[h])) /\ Verdict(call[h]) # "ok"
        <3>1. Verdict(call[h]) \in Replies
            BY <1>0 DEF Verdict
        <3> QED
            BY <1>3, <2>2, <3>1, ReturnStep DEF Check
    <2>3. CASE Verdict(call[h]) = "ok" /\ Goto(h, "write") /\ UNCHANGED <<writer, readers, reply>>
        <3>1. call' = call /\ store' = store /\ pc[h] = "check"
            BY <1>3 DEF Check
        <3> QED
            BY <3>1, <1>i, <2>3, OwnStep DEF Goto
    <2> QED
        BY <1>3, <2>1, <2>2, <2>3 DEF Check
<1>4. CASE RLock(h)
    BY <1>4, <1>i, OwnStep DEF RLock, Goto
<1>5. CASE Scan(h)
    <2>1. CASE ReturnWith(h, "canceled")
        BY <1>0, <1>5, <2>1, ReturnStep DEF Scan
    <2>2. CASE UNCHANGED <<writer, readers, pc, reply>>
        <3>1. pc' = [pc EXCEPT ![h] = "scan"] /\ store' = store /\ call' = call /\ pc[h] = "scan"
            BY <1>5, <1>i, <2>2 DEF Scan
        <3> QED
            BY <3>1, <1>i, <2>2, OwnStep
    <2> QED
        BY <1>5, <2>1, <2>2 DEF Scan
<1>6. CASE FinishList(h)
    BY <1>0, <1>6, ReturnStep DEF FinishList
<1> QED
    BY <1>1, <1>2, <1>3, <1>4, <1>5, <1>6

\* What Write does, and what the checks before it established: the event is
\* valid, its id is new or known, and no other event of its user is in the way.
LEMMA WriteEffect ==
    ASSUME StoreInv, NEW h \in Handlers, Write(h)
    PROVE  LET r == request[h]
               c == call[h]
               e == newStorageEvent(r)
           IN  /\ Accepted(r) /\ c = CallOf(r)
               /\ \/ /\ WritesEvent(r) /\ ES!ValidateEvent(e)
                     /\ c.op \in {"create", "update"} /\ c.op = eventOperation(r.route)
                     /\ c.op = "create" => r.id \notin DOMAIN store
                     /\ c.op = "update" => r.id \in DOMAIN store
                     /\ \A i \in DOMAIN store \ {r.id} :
                           ~(store[i].userID = e.userID /\ ES!Overlap(store[i], e))
                     /\ store' = [i \in DOMAIN store \cup {r.id} |->
                                     IF i = r.id THEN e ELSE store[i]]
                  \/ /\ c.op = "delete" /\ ~WritesEvent(r) /\ ~Lists(r)
                     /\ r.id \in DOMAIN store
                     /\ store' = [i \in DOMAIN store \ {r.id} |-> store[i]]
<1> DEFINE r == request[h]
           c == call[h]
           e == newStorageEvent(r)
<1>1. Accepted(r) /\ c = CallOf(r) /\ c.op \in Writes /\ Verdict(c) = "ok"
    BY DEF Write, StoreInv, InCall, VerdictStands
<1>2. /\ c.op = "create" => c.event.id \notin DOMAIN store /\ ~dateBusy(c.event, {})
      /\ c.op = "update" => c.event.id \in DOMAIN store /\ ~dateBusy(c.event, {c.event.id})
      /\ c.op = "delete" => c.id \in DOMAIN store
    BY <1>1 DEF Verdict
<1>3. store' = IF c.op = "delete"
               THEN [i \in DOMAIN store \ {c.id} |-> store[i]]
               ELSE [i \in DOMAIN store \cup {c.event.id} |->
                       IF i = c.event.id THEN c.event ELSE store[i]]
    BY DEF Write
<1>4. CASE c.op \in {"create", "update"}
    <2>1. WritesEvent(r)
        BY <1>1, <1>4, CallKinds
    <2>2. c.event = e /\ e.id = r.id /\ c.op = eventOperation(r.route)
        BY <1>1, <2>1, WritingCall DEF newStorageEvent
    <2>3. ES!ValidateEvent(e)
        BY <1>1, <2>1, EarlyStatuses, ZenonT(30) DEF Accepted
    <2>4. \A i \in DOMAIN store \ {r.id} :
              ~(store[i].userID = e.userID /\ ES!Overlap(store[i], e))
        BY <1>2, <1>4, <2>2 DEF dateBusy
    <2>5. store' = [i \in DOMAIN store \cup {r.id} |-> IF i = r.id THEN e ELSE store[i]]
        BY <1>3, <1>4, <2>2
    <2> HIDE DEF r, c, e
    <2>6. /\ c.op = "create" => r.id \notin DOMAIN store
          /\ c.op = "update" => r.id \in DOMAIN store
        BY <1>2, <2>2
    <2>7. /\ Accepted(r) /\ c = CallOf(r)
          /\ WritesEvent(r) /\ ES!ValidateEvent(e)
          /\ c.op \in {"create", "update"} /\ c.op = eventOperation(r.route)
        BY <1>1, <1>4, <2>1, <2>2, <2>3
    <2> QED
        BY <2>4, <2>5, <2>6, <2>7 DEF r, c, e
<1>5. CASE c.op = "delete"
    BY <1>1, <1>2, <1>3, <1>5, CallKinds
<1> QED
    BY <1>1, <1>4, <1>5 DEF Writes

\* The write keeps StoreInv: nobody else is between its check and its write.
LEMMA WriteStep ==
    ASSUME StoreInv, NEW h \in Handlers, Write(h), UNCHANGED <<request, status>>
    PROVE  StoreInv'
<1>1. /\ pc[h] = "write" /\ pc' = [pc EXCEPT ![h] = "returned"]
      /\ reply' = [reply EXCEPT ![h] = "ok"]
      /\ writer' = IF writer = h THEN NoHandler ELSE writer
      /\ readers' = readers \ {h} /\ call' = call
    BY DEF Write, ReturnWith, Goto
<1>2. /\ writer = h
      /\ \A g \in Handlers \ {h} : pc[g] \notin {"check", "write"} /\ pc'[g] = pc[g]
      /\ pc'[h] = "returned"
    BY <1>1 DEF StoreInv, ApiTypes, LockHeld
<1>3. ApiTypes'
    BY <1>1, <1>2 DEF StoreInv, ApiTypes, Locations, Replies
<1>4. LockHeld' /\ VerdictStands'
    BY <1>2 DEF LockHeld, VerdictStands
<1>5. InCall'
    BY <1>1, <1>2 DEF StoreInv, InCall, Accepted
<1>6. StoreFromRequests'
    <2> DEFINE r == request[h]
    <2>1. CASE WritesEvent(r) /\ store' = [i \in DOMAIN store \cup {r.id} |->
                                     IF i = r.id THEN newStorageEvent(r) ELSE store[i]]
        BY <2>1, WriteEffect DEF Accepted, StoreInv, StoreFromRequests
    <2>2. CASE store' = [i \in DOMAIN store \ {r.id} |-> store[i]]
        BY <2>2 DEF StoreInv, StoreFromRequests
    <2> QED
        BY <2>1, <2>2, WriteEffect
<1> QED
    BY <1>3, <1>4, <1>5, <1>6 DEF StoreInv

LEMMA NextStoreInv ==
    ASSUME StoreInv, [ApiNext]_apiVars
    PROVE  StoreInv'
<1>i. /\ DOMAIN call = Handlers /\ DOMAIN request = Handlers /\ DOMAIN status = Handlers
      /\ writer \in Handlers \cup {NoHandler} /\ readers \subseteq Handlers
      /\ pc \in [Handlers -> Locations] /\ reply \in [Handlers -> Replies]
    BY DEF StoreInv, ApiTypes
<1>1. ASSUME NEW h \in Handlers, InStorage(h)
      PROVE  StoreInv'
    BY <1>1, ReadingStep, WriteStep DEF InStorage, CallStep
<1>2. CASE UNCHANGED <<store, writer, readers, pc, call, reply, request>> /\ DOMAIN status' = Handlers
    BY <1>2, VerdictSame DEF StoreInv, ApiTypes, LockHeld, InCall, Accepted, VerdictStands,
                             StoreFromRequests
<1>3. ASSUME NEW h \in Handlers, ClientLeaves(h) \/ Answer(h)
      PROVE  StoreInv'
    <2>1. UNCHANGED <<store, writer, readers, pc, call, reply, request>>
        BY <1>3 DEF ClientLeaves, Disconnect, Answer, storageVars
    <2>2. DOMAIN status' = Handlers
        BY <1>i, <1>3 DEF ClientLeaves, Answer
    <2> QED
        BY <1>2, <2>1, <2>2
<1>4. ASSUME NEW h \in Handlers, Observe(h)
      PROVE  StoreInv'
    <2>1. /\ UNCHANGED <<store, writer, readers>>
          /\ pc' = [pc EXCEPT ![h] = "idle"]
          /\ reply' = [reply EXCEPT ![h] = "none"]
          /\ call' = [call EXCEPT ![h] = NoHandler]
          /\ request' = [request EXCEPT ![h] = NoHandler]
          /\ status' = [status EXCEPT ![h] = 0]
        BY <1>4 DEF Observe, Done, Goto
    <2>2. "idle" \in Locations /\ reply' \in [Handlers -> Replies]
        BY <1>i, <2>1 DEF Locations, Replies
    <2> QED
        BY <1>i, <2>1, <2>2, OwnStep
<1>5. ASSUME NEW h \in Handlers, NEW r \in HttpRequests, Serve(h, r)
      PROVE  StoreInv'
    <2>1. CASE EarlyStatus(r) = 0 /\ Invoke(h, CallOf(r)) /\ UNCHANGED status
        <3>1. /\ UNCHANGED <<store, writer, readers, reply, status>>
              /\ pc' = [pc EXCEPT ![h] = "enter"]
              /\ call' = [call EXCEPT ![h] = CallOf(r)]
              /\ request' = [request EXCEPT ![h] = r]
            BY <1>5, <2>1 DEF Serve, Invoke, Goto
        <3>2. "enter" \in Locations /\ Accepted(request'[h]) /\ call'[h] = CallOf(request'[h])
            BY <1>i, <2>1, <3>1 DEF Locations, Accepted
        <3> QED
            BY <1>i, <3>1, <3>2, OwnStep
    <2>2. CASE /\ Goto(h, "returned")
               /\ status' = [status EXCEPT ![h] = EarlyStatus(r)]
               /\ UNCHANGED <<store, writer, readers, call, reply>>
        <3>1. pc' = [pc EXCEPT ![h] = "returned"] /\ request' = [request EXCEPT ![h] = r]
            BY <1>5, <2>2 DEF Serve, Goto
        <3>2. "returned" \in Locations
            BY DEF Locations
        <3> QED
            BY <1>i, <2>2, <3>1, <3>2, OwnStep
    <2> QED
        BY <1>5, <2>1, <2>2 DEF Serve
<1>6. CASE UNCHANGED apiVars
    BY <1>2, <1>6, <1>i DEF apiVars, storageVars
<1> QED
    BY <1>1, <1>3, <1>4, <1>5, <1>6 DEF ApiNext, Finished

LEMMA InitStoreInv == ApiInit => StoreInv
BY DEF ApiInit, StoreInit, StoreInv, ApiTypes, LockHeld, InCall, VerdictStands, StoreFromRequests,
       Locations, Replies

LEMMA StoreInvariant == ApiSpec => []StoreInv
BY InitStoreInv, NextStoreInv, PTL DEF ApiSpec

-----------------------------------------------------------------------------
\* The reminder in the calendar is the one a client asked for, for every request
\* and every width of int64: what newStorageEvent computes never wraps around for
\* the seconds that notificationDuration lets through.
THEOREM ReminderAlwaysAsRequested == ApiSpec => []ReminderAsRequested
<1>1. StoreInv => ReminderAsRequested
    <2> SUFFICES ASSUME StoreInv, NEW i \in DOMAIN store
                 PROVE  \E r \in HttpRequests :
                           /\ WritesEvent(r) /\ r.id = i /\ r.startAt = store[i].startAt
                           /\ store[i].notifyBefore =
                                 IF r.seconds = NoSeconds THEN 0 ELSE r.seconds * Second
        BY DEF ReminderAsRequested
    <2>1. PICK r \in HttpRequests :
              /\ WritesEvent(r) /\ EarlyStatus(r) = 0
              /\ r.id = i /\ store[i] = newStorageEvent(r)
        BY DEF StoreInv, StoreFromRequests
    <2>2. store[i].startAt = r.startAt /\ store[i].notifyBefore = notificationDuration(r.seconds)
        BY <2>1 DEF newStorageEvent
    <2>3. ~TooLong(r.seconds) /\ (r.seconds # NoSeconds => r.seconds \in Int)
        BY <2>1, EarlyStatuses, HttpAssumption, ZenonT(30)
    <2> QED
        BY <2>1, <2>2, <2>3, DurationExact
<1> QED
    BY <1>1, StoreInvariant, PTL

-----------------------------------------------------------------------------
(* The refinement of EventStorage.                                          *)

\* The rows of the map have the ids of its keys.
LEMMA RowsOfStore ==
    ASSUME StoreInv
    PROVE  /\ \A i \in DOMAIN store : store[i].id = i /\ Row(store[i]).id = i
           /\ \A i \in DOMAIN store : store[i] \in Requests
    <1> SUFFICES ASSUME NEW i \in DOMAIN store
                 PROVE  store[i].id = i /\ Row(store[i]).id = i /\ store[i] \in Requests
        OBVIOUS
    <1>1. PICK r \in HttpRequests :
              /\ WritesEvent(r) /\ EarlyStatus(r) = 0
              /\ r.id = i /\ store[i] = newStorageEvent(r)
        BY DEF StoreInv, StoreFromRequests
    <1>2. store[i].id = i
        BY <1>1 DEF newStorageEvent
    <1> QED
        BY <1>1, <1>2, HttpAssumption DEF Row

\* A write is one call of a client on the events table.
LEMMA WriteIsClientCall ==
    ASSUME StoreInv, NEW h \in Handlers, Write(h)
    PROVE  ES!ClientCall
<1> DEFINE r == request[h]
           e == newStorageEvent(r)
<1>0. r \in HttpRequests /\ EarlyStatus(r) = 0 /\ e.id = r.id /\ ES!NewRow(e) = Row(e) /\ Row(e).id = r.id
    BY WriteEffect DEF Accepted, newStorageEvent, Row, ES!NewRow
<1>1. CASE /\ WritesEvent(r) /\ ES!ValidateEvent(e)
           /\ \A i \in DOMAIN store \ {r.id} :
                 ~(store[i].userID = e.userID /\ ES!Overlap(store[i], e))
           /\ store' = [i \in DOMAIN store \cup {r.id} |-> IF i = r.id THEN e ELSE store[i]]
    <2>1. e \in Requests
        BY <1>0, <1>1, HttpAssumption
    <2>2. ~ES!DateBusy(e)
        <3> SUFFICES ASSUME NEW i \in DOMAIN store, Row(store[i]).id # e.id,
                            Row(store[i]).userID = e.userID, ES!Overlap(Row(store[i]), e)
                     PROVE  FALSE
            BY DEF ES!DateBusy, Table
        <3>1. i # r.id
            BY <1>0, RowsOfStore
        <3>2. store[i].userID = e.userID /\ ES!Overlap(store[i], e)
            BY DEF Row, ES!Overlap
        <3> QED
            BY <1>1, <3>1, <3>2
    <2>3. ES!HasId(e.id) <=> r.id \in DOMAIN store
        BY <1>0, RowsOfStore DEF ES!HasId, Table
    <2>4. Table' = {Row(store'[i]) : i \in DOMAIN store'}
        BY DEF Table, Row
    <2> HIDE DEF r, e
    <2>5. /\ DOMAIN store' = DOMAIN store \cup {r.id} /\ store'[r.id] = e
          /\ \A i \in DOMAIN store : i # r.id => store'[i] = store[i]
        BY <1>1
    <2>6. CASE r.id \notin DOMAIN store
        <3>1. Table' = Table \cup {Row(e)}
            BY <2>4, <2>5, <2>6 DEF Table
        <3>2. ES!CreateEvent(e)
            BY <1>0, <1>1, <2>2, <2>3, <2>6, <3>1 DEF ES!CreateEvent
        <3> QED
            BY <2>1, <3>2 DEF ES!ClientCall
    <2>7. CASE r.id \in DOMAIN store
        <3>1. Table' = {IF q.id = e.id THEN Row(e) ELSE q : q \in Table}
            <4>1. ASSUME NEW i \in DOMAIN store
                  PROVE  Row(store'[i]) = IF Row(store[i]).id = e.id THEN Row(e) ELSE Row(store[i])
                BY <1>0, <2>5, RowsOfStore
            <4>2. DOMAIN store' = DOMAIN store
                BY <2>5, <2>7
            <4> QED
                BY <2>4, <4>1, <4>2 DEF Table
        <3>2. ES!UpdateEvent(e)
            BY <1>0, <1>1, <2>2, <2>3, <2>7, <3>1 DEF ES!UpdateEvent
        <3> QED
            BY <2>1, <3>2 DEF ES!ClientCall
    <2> QED
        BY <2>6, <2>7
<1>2. CASE /\ r.id \in DOMAIN store
           /\ store' = [i \in DOMAIN store \ {r.id} |-> store[i]]
    <2>1. store[r.id] \in Requests /\ store[r.id].id = r.id
        BY <1>2, RowsOfStore
    <2>2. ES!HasId(r.id)
        BY <1>2, RowsOfStore DEF ES!HasId, Table
    <2>3. Table' = {Row(store'[i]) : i \in DOMAIN store'}
        BY DEF Table, Row
    <2>4. Table' = {q \in Table : q.id # r.id}
        <3> DEFINE kept == {q \in Table : q.id # r.id}
        <3>1. DOMAIN store' = DOMAIN store \ {r.id} /\ \A i \in DOMAIN store' : store'[i] = store[i]
            BY <1>2
        <3>2. ASSUME NEW i \in DOMAIN store'
              PROVE  Row(store'[i]) \in kept
            BY <3>1, RowsOfStore DEF Table
        <3>3. ASSUME NEW q \in kept
              PROVE  \E i \in DOMAIN store' : q = Row(store'[i])
            BY <3>1, RowsOfStore DEF Table
        <3> HIDE DEF kept
        <3> QED
            BY <2>3, <3>2, <3>3 DEF kept
    <2>5. ES!DeleteEvent(store[r.id].id)
        BY <2>1, <2>2, <2>4 DEF ES!DeleteEvent
    <2> QED
        BY <2>1, <2>5 DEF ES!ClientCall
<1> QED
    BY <1>1, <1>2, WriteEffect

\* Every other step leaves the map alone.
LEMMA OnlyWriteChanges ==
    ASSUME StoreInv, [ApiNext]_apiVars
    PROVE  store' = store \/ \E h \in Handlers : Write(h)
BY ReadingStep DEF ApiNext, apiVars, storageVars, InStorage, CallStep, ClientLeaves, Disconnect,
       Answer, Observe, Done, Serve, Invoke, Finished

\* The in-memory calendar implements the events table: for any number of
\* goroutines, each step is one atomic CreateEvent, UpdateEvent or DeleteEvent of
\* EventStorage or changes nothing, although the check, the write and the unlock
\* are separate steps and clients disconnect in between.
THEOREM MemoryImplementsEventStorage == ApiSpec => ImplementsEventStorage
<1>1. ApiInit => ES!StorageInit
    BY DEF ApiInit, StoreInit, ES!StorageInit, Table
<1>2. StoreInv /\ [ApiNext]_apiVars => [ES!StorageNext]_Table
    <2> SUFFICES ASSUME StoreInv, [ApiNext]_apiVars
                 PROVE  [ES!StorageNext]_Table
        OBVIOUS
    <2>1. CASE store' = store
        BY <2>1 DEF Table, Row
    <2>2. ASSUME NEW h \in Handlers, Write(h)
          PROVE  ES!StorageNext
        BY <2>2, WriteIsClientCall DEF ES!StorageNext
    <2> QED
        BY <2>1, <2>2, OnlyWriteChanges
<1> QED
    BY <1>1, <1>2, StoreInvariant, PTL DEF ApiSpec, ImplementsEventStorage, ES!StorageSpec

-----------------------------------------------------------------------------
(* The metrics.                                                             *)

\* The answers the handlers give without the application are no successes.
LEMMA EarlyIsNoSuccess ==
    ASSUME NEW r, EarlyStatus(r) # 0, eventOperation(r.route) \in {"create", "delete"}
    PROVE  ~Succeeded(EarlyStatus(r))
<1>1. r.route = "GET /hello" => eventOperation(r.route) = ""
    BY DEF eventOperation
<1>2. r.route # "GET /hello"
    BY <1>1
<1>3. EarlyStatus(r) \in {400, 404, 415}
    <2>1. EarlyStatus(r) \in {0, 200, 400, 404, 415}
        BY EarlyStatuses
    <2>2. EarlyStatus(r) = 200 => r.route = "GET /hello"
        BY EarlyStatuses
    <2> QED
        BY <1>2, <2>1, <2>2
<1> QED
    BY <1>3, SMT DEF Succeeded

\* The status of a result of the storage is a success if and only if the result is.
LEMMA StatusOfResult ==
    ASSUME NEW r, NEW result \in Replies \ {"none"}
    PROVE  /\ StatusOf(r, result) # 0
           /\ eventOperation(r.route) \in {"create", "delete"} =>
                 (Succeeded(StatusOf(r, result)) <=> result = "ok")
<1> DEFINE success == CASE eventOperation(r.route) = "create" -> 201
                        [] eventOperation(r.route) = "delete" -> 204
                        [] OTHER -> 200
<1>1. success \in {200, 201, 204}
    BY SMT
<1>2. StatusOf(r, result) = CASE result = "invalid" -> 400
                              [] result = "notFound" -> 404
                              [] result \in {"exists", "busy"} -> 409
                              [] result = "canceled" -> 500
                              [] result = "ok" -> success
    BY DEF StatusOf
<1> HIDE DEF success
<1>3. /\ result = "ok" => StatusOf(r, result) = success
      /\ result # "ok" => StatusOf(r, result) \in {400, 404, 409, 500}
    BY <1>2, SMT DEF Replies
<1> QED
    BY <1>1, <1>3, SMT DEF Succeeded

\* A step of h changes an Uncounted set in h only.
LEMMA UncountedStep ==
    ASSUME NEW h \in Handlers, NEW op,
           \A g \in Handlers \ {h} :
              /\ pc'[g] = pc[g] /\ request'[g] = request[g]
              /\ status'[g] = status[g] /\ reply'[g] = reply[g]
    PROVE  /\ Cardinality(Uncounted(op)) \in Nat /\ Cardinality(Uncounted(op)') \in Nat
           /\ (TookEffect(h, op)' <=> TookEffect(h, op)) =>
                 Uncounted(op)' = Uncounted(op)
           /\ TookEffect(h, op)' /\ ~TookEffect(h, op) =>
                 Cardinality(Uncounted(op)') = Cardinality(Uncounted(op)) + 1
           /\ ~TookEffect(h, op)' /\ TookEffect(h, op) =>
                 Cardinality(Uncounted(op)) = Cardinality(Uncounted(op)') + 1
<1>1. \A g \in Handlers \ {h} : TookEffect(g, op)' <=> TookEffect(g, op)
    BY DEF TookEffect, Succeeded
<1> DEFINE U == Uncounted(op)
           V == Uncounted(op)'
<1>2. /\ \A g : g \in U <=> g \in Handlers /\ TookEffect(g, op)
      /\ \A g : g \in V <=> g \in Handlers /\ TookEffect(g, op)'
    BY DEF Uncounted
<1>3. U \subseteq Handlers /\ V \subseteq Handlers /\ IsFiniteSet(U) /\ IsFiniteSet(V)
    BY <1>2, HandlersAssumption, FS_Subset
<1> HIDE DEF U, V
<1>4. Cardinality(U) \in Nat /\ Cardinality(V) \in Nat
    BY <1>3, FS_CardinalityType
<1>5. (TookEffect(h, op)' <=> TookEffect(h, op)) => V = U
    BY <1>1, <1>2
<1>6. TookEffect(h, op)' /\ ~TookEffect(h, op) => Cardinality(V) = Cardinality(U) + 1
    <2> SUFFICES ASSUME TookEffect(h, op)', ~TookEffect(h, op)
                 PROVE  Cardinality(V) = Cardinality(U) + 1
        OBVIOUS
    <2>1. V = U \cup {h} /\ h \notin U
        BY <1>1, <1>2
    <2> QED
        BY <1>3, <2>1, FS_AddElement
<1>7. ~TookEffect(h, op)' /\ TookEffect(h, op) => Cardinality(U) = Cardinality(V) + 1
    <2> SUFFICES ASSUME ~TookEffect(h, op)', TookEffect(h, op)
                 PROVE  Cardinality(U) = Cardinality(V) + 1
        OBVIOUS
    <2>1. U = V \cup {h} /\ h \notin V
        BY <1>1, <1>2
    <2> QED
        BY <1>3, <2>1, FS_AddElement
<1> QED
    BY <1>4, <1>5, <1>6, <1>7 DEF U, V

\* Every step keeps Answered.
LEMMA NextAnswered ==
    ASSUME StoreInv, Answered, [ApiNext]_apiVars
    PROVE  Answered'
<1>i. /\ DOMAIN request = Handlers /\ DOMAIN status = Handlers
      /\ pc \in [Handlers -> Locations] /\ reply \in [Handlers -> Replies]
    BY DEF StoreInv, ApiTypes
<1> DEFINE Fits(g) ==
              /\ pc[g] # "returned" => status[g] = 0
              /\ pc[g] = "scan" => Lists(request[g])
              /\ pc[g] = "returned" =>
                    /\ request[g] \in HttpRequests
                    /\ \/ EarlyStatus(request[g]) # 0 /\ status[g] = EarlyStatus(request[g])
                       \/ /\ EarlyStatus(request[g]) = 0 /\ reply[g] # "none"
                          /\ status[g] \in {0, StatusOf(request[g], reply[g])}
<1>f. ASSUME NEW h \in Handlers,
             \A g \in Handlers \ {h} :
                /\ pc'[g] = pc[g] /\ request'[g] = request[g]
                /\ status'[g] = status[g] /\ reply'[g] = reply[g],
             Fits(h)'
      PROVE  Answered'
    <2>1. \A g \in Handlers \ {h} : Fits(g)'
        BY <1>f DEF Answered
    <2> QED
        BY <1>f, <2>1 DEF Answered
<1>1. ASSUME NEW h \in Handlers, NEW result \in Replies \ {"none"}, ReturnWith(h, result),
             pc[h] \in {"enter", "check", "write", "scan"}, UNCHANGED <<request, status>>
      PROVE  Answered'
    <2>1. /\ \A g \in Handlers \ {h} : pc'[g] = pc[g] /\ reply'[g] = reply[g]
          /\ pc'[h] = "returned" /\ reply'[h] = result
        BY <1>1, <1>i DEF ReturnWith, Goto
    <2>2. Accepted(request[h]) /\ status[h] = 0
        BY <1>1 DEF StoreInv, InCall, Answered
    <2> QED
        BY <1>1, <1>f, <2>1, <2>2 DEF Accepted
<1>2. ASSUME NEW h \in Handlers, NEW to \in {"lock", "check", "write", "scan"},
             pc[h] # "returned", Goto(h, to), to = "scan" => Lists(request[h]),
             UNCHANGED <<request, status, reply>>
      PROVE  Answered'
    <2>1. \A g \in Handlers \ {h} : pc'[g] = pc[g]
        BY <1>2, <1>i DEF Goto
    <2>2. pc'[h] = to /\ status[h] = 0
        BY <1>2, <1>i DEF Goto, Answered
    <2> QED
        BY <1>2, <1>f, <2>1, <2>2
<1>3. ASSUME NEW h \in Handlers, InStorage(h)
      PROVE  Answered'
    <2> USE <1>3
    <2>1. UNCHANGED <<request, status>>
        BY DEF InStorage
    <2>2. CASE Enter(h)
        BY <2>1, <2>2, <1>1, <1>2 DEF Enter, Replies
    <2>3. CASE Lock(h)
        BY <2>1, <2>3, <1>2 DEF Lock
    <2>4. CASE Check(h)
        <3>1. Verdict(call[h]) \in Replies \ {"none"}
            BY DEF Verdict, Replies
        <3>2. "canceled" \in Replies \ {"none"}
            BY DEF Replies
        <3> QED
            BY <2>1, <2>4, <3>1, <3>2, <1>1, <1>2 DEF Check
    <2>5. CASE Write(h)
        BY <2>1, <2>5, <1>1 DEF Write, Replies
    <2>6. CASE RLock(h)
        <3>1. call[h] = CallOf(request[h]) /\ call[h].op = "list"
            BY <2>6 DEF RLock, StoreInv, InCall
        <3>2. Lists(request[h])
            BY <3>1, CallKinds
        <3> QED
            BY <2>1, <2>6, <3>2, <1>2 DEF RLock
    <2>7. CASE Scan(h)
        <3>1. CASE ReturnWith(h, "canceled")
            BY <2>1, <2>7, <3>1, <1>1 DEF Scan, Replies
        <3>2. CASE UNCHANGED <<pc, reply>>
            BY <2>1, <3>2 DEF Answered
        <3> QED
            BY <2>7, <3>1, <3>2 DEF Scan
    <2>8. CASE FinishList(h)
        BY <2>1, <2>8, <1>1 DEF FinishList, Replies
    <2> QED
        BY <2>2, <2>3, <2>4, <2>5, <2>6, <2>7, <2>8 DEF InStorage, CallStep
<1>4. ASSUME NEW h \in Handlers, Answer(h)
      PROVE  Answered'
    <2>1. /\ UNCHANGED <<pc, reply, request>> /\ pc[h] = "returned"
          /\ status[h] = 0 /\ status'[h] = StatusOf(request[h], reply[h])
          /\ \A g \in Handlers \ {h} : status'[g] = status[g]
        BY <1>4, <1>i DEF Answer, storageVars
    <2>2. Fits(h)'
        BY <2>1 DEF Answered
    <2> QED
        BY <1>f, <2>1, <2>2
<1>5. ASSUME NEW h \in Handlers, Observe(h)
      PROVE  Answered'
    <2>1. /\ pc'[h] = "idle" /\ status'[h] = 0
          /\ \A g \in Handlers \ {h} :
                /\ pc'[g] = pc[g] /\ request'[g] = request[g]
                /\ status'[g] = status[g] /\ reply'[g] = reply[g]
        BY <1>5, <1>i DEF Observe, Done, Goto
    <2> QED
        BY <1>f, <2>1
<1>6. ASSUME NEW h \in Handlers, NEW r \in HttpRequests, Serve(h, r)
      PROVE  Answered'
    <2>1. /\ request'[h] = r
          /\ \A g \in Handlers \ {h} :
                /\ pc'[g] = pc[g] /\ request'[g] = request[g]
                /\ status'[g] = status[g] /\ reply'[g] = reply[g]
        BY <1>6, <1>i DEF Serve, Invoke, Goto
    <2>2. \/ pc[h] = "idle" /\ pc'[h] = "enter" /\ status'[h] = status[h]
          \/ pc'[h] = "returned" /\ EarlyStatus(r) # 0 /\ status'[h] = EarlyStatus(r)
        BY <1>6, <1>i DEF Serve, Invoke, Goto
    <2>3. Fits(h)'
        BY <2>1, <2>2 DEF Answered
    <2> QED
        BY <1>f, <2>1, <2>3
<1>7. CASE UNCHANGED <<pc, status, request, reply>>
    BY <1>7 DEF Answered
<1> QED
    BY <1>3, <1>4, <1>5, <1>6, <1>7
    DEF ApiNext, ClientLeaves, Disconnect, Finished, apiVars, storageVars

OthersSame(h) ==
    \A g \in Handlers \ {h} :
        /\ pc'[g] = pc[g] /\ request'[g] = request[g]
        /\ status'[g] = status[g] /\ reply'[g] = reply[g]

\* A step that neither writes nor counts keeps Balance, if no request takes effect.
LEMMA PlainStep ==
    ASSUME Balance, NEW h \in Handlers, OthersSame(h), UNCHANGED <<store, operations>>,
           \A op \in {"create", "delete"} : TookEffect(h, op)' <=> TookEffect(h, op)
    PROVE  Balance'
<1>1. Uncounted("create")' = Uncounted("create") /\ Uncounted("delete")' = Uncounted("delete")
    BY UncountedStep DEF OthersSame
<1> QED
    BY <1>1 DEF Balance

\* A return without a write is not counted as a success of create or delete.
LEMMA PlainReturn ==
    ASSUME StoreInv, Answered, Balance, NEW h \in Handlers, NEW result, ReturnWith(h, result),
           pc[h] # "returned", result # "ok" \/ Lists(request[h]),
           UNCHANGED <<store, operations, request, status>>
    PROVE  Balance'
<1>1. /\ pc' = [pc EXCEPT ![h] = "returned"] /\ reply' = [reply EXCEPT ![h] = result]
      /\ pc \in [Handlers -> Locations] /\ reply \in [Handlers -> Replies] /\ status[h] = 0
    BY DEF ReturnWith, Goto, StoreInv, ApiTypes, Answered
<1>2. OthersSame(h) /\ pc'[h] = "returned" /\ reply'[h] = result
    BY <1>1 DEF OthersSame
<1>3. ASSUME NEW op \in {"create", "delete"}
      PROVE  ~TookEffect(h, op)' /\ ~TookEffect(h, op)
    <2>1. ~Succeeded(status'[h])
        BY <1>1 DEF Succeeded
    <2> QED
        BY <1>2, <2>1 DEF TookEffect, Lists
<1> QED
    BY <1>2, <1>3, PlainStep

\* Write adds or removes a key exactly when a creation or deletion took effect.
LEMMA WriteBalances ==
    ASSUME StoreInv, Answered, Balance, NEW h \in Handlers, Write(h),
           UNCHANGED <<operations, request, status>>
    PROVE  Balance'
<1> DEFINE r == request[h]
<1>1. /\ pc[h] = "write" /\ status[h] = 0 /\ OthersSame(h)
      /\ pc'[h] = "returned" /\ reply'[h] = "ok"
    BY DEF Write, ReturnWith, Goto, StoreInv, ApiTypes, Answered, OthersSame
<1>2. \A op : ~TookEffect(h, op) /\ (TookEffect(h, op)' <=> eventOperation(r.route) = op)
    BY <1>1 DEF TookEffect
<1>3. ASSUME NEW op
      PROVE  /\ Cardinality(Uncounted(op)) \in Nat
             /\ Cardinality(Uncounted(op)') =
                   Cardinality(Uncounted(op)) + IF eventOperation(r.route) = op THEN 1 ELSE 0
    BY <1>1, <1>2, UncountedStep DEF OthersSame
<1>4. IsFiniteSet(DOMAIN store) /\ Cardinality(DOMAIN store) \in Nat
    BY FS_CardinalityType DEF Balance
<1>5. /\ operations["create"].success \in Nat /\ operations["delete"].success \in Nat
      /\ operations' = operations /\ operations' \in [Operations -> [success : Nat, error : Nat]]
    BY DEF Balance, Operations
<1>6. CASE call[h].op = "create" /\ eventOperation(r.route) = "create"
           /\ r.id \notin DOMAIN store /\ DOMAIN store' = DOMAIN store \cup {r.id}
    <2>1. IsFiniteSet(DOMAIN store') /\ Cardinality(DOMAIN store') = Cardinality(DOMAIN store) + 1
        BY <1>4, <1>6, FS_AddElement
    <2>2. /\ Cardinality(Uncounted("create")') = Cardinality(Uncounted("create")) + 1
          /\ Cardinality(Uncounted("delete")') = Cardinality(Uncounted("delete"))
        BY <1>3, <1>6
    <2> QED
        BY <1>3, <1>4, <1>5, <2>1, <2>2 DEF Balance
<1>7. CASE call[h].op = "update" /\ eventOperation(r.route) = "update" /\ DOMAIN store' = DOMAIN store
    <2>1. /\ Cardinality(Uncounted("create")') = Cardinality(Uncounted("create"))
          /\ Cardinality(Uncounted("delete")') = Cardinality(Uncounted("delete"))
        BY <1>3, <1>7
    <2> QED
        BY <1>3, <1>4, <1>5, <1>7, <2>1 DEF Balance
<1>8. CASE eventOperation(r.route) = "delete" /\ r.id \in DOMAIN store
           /\ DOMAIN store' = DOMAIN store \ {r.id}
    <2>1. IsFiniteSet(DOMAIN store') /\ Cardinality(DOMAIN store') = Cardinality(DOMAIN store) - 1
        BY <1>4, <1>8, FS_RemoveElement
    <2>2. /\ Cardinality(Uncounted("create")') = Cardinality(Uncounted("create"))
          /\ Cardinality(Uncounted("delete")') = Cardinality(Uncounted("delete")) + 1
        BY <1>3, <1>8
    <2> QED
        BY <1>3, <1>4, <1>5, <2>1, <2>2 DEF Balance
<1>9. Accepted(r) => eventOperation(r.route) \in Operations
    BY HttpAssumption, EarlyStatuses DEF Accepted
<1>10. ~WritesEvent(r) /\ ~Lists(r) /\ Accepted(r) => eventOperation(r.route) = "delete"
    BY <1>9 DEF WritesEvent, Lists, Operations
<1> QED
    BY <1>6, <1>7, <1>8, <1>10, WriteEffect

\* The two counters of an operation.
LEMMA CounterStep ==
    ASSUME NEW c \in [success : Nat, error : Nat]
    PROVE  /\ [c EXCEPT !.success = @ + 1] \in [success : Nat, error : Nat]
           /\ [c EXCEPT !.success = @ + 1].success = c.success + 1
           /\ [c EXCEPT !.error = @ + 1] \in [success : Nat, error : Nat]
OBVIOUS

\* The metrics middleware counts what took effect, once.
LEMMA ObserveBalances ==
    ASSUME StoreInv, Answered, Balance, NEW h \in Handlers, Observe(h)
    PROVE  Balance'
<1> DEFINE op == eventOperation(request[h].route)
<1>1. /\ pc[h] = "returned" /\ status[h] # 0 /\ pc'[h] = "idle" /\ store' = store
      /\ OthersSame(h)
      /\ operations' = IF op = "" THEN operations
                       ELSE IF Succeeded(status[h]) THEN [operations EXCEPT ![op].success = @ + 1]
                       ELSE [operations EXCEPT ![op].error = @ + 1]
    BY DEF Observe, Done, Goto, StoreInv, ApiTypes, OthersSame
<1>2. op \in Operations \cup {""}
    BY DEF eventOperation, Operations
<1> DEFINE gain == [o \in Operations |-> IF op = o /\ Succeeded(status[h]) THEN 1 ELSE 0]
<1>g. \A o \in Operations :
             /\ TookEffect(h, o) => gain[o] = 1
             /\ ~TookEffect(h, o) => gain[o] = 0
             /\ op # o => gain[o] = 0
             /\ ~Succeeded(status[h]) => gain[o] = 0
             /\ op = o /\ Succeeded(status[h]) => gain[o] = 1
    BY <1>1 DEF TookEffect
<1>3. \A o : ~TookEffect(h, o)'
    BY <1>1 DEF TookEffect
<1> HIDE DEF op, gain
<1>4. ASSUME NEW o \in Operations
      PROVE  /\ Cardinality(Uncounted(o)') \in Nat
             /\ Cardinality(Uncounted(o)) = Cardinality(Uncounted(o)') + gain[o]
    <2>1. CASE TookEffect(h, o)
        BY <1>1, <1>3, <1>g, <2>1, UncountedStep DEF OthersSame
    <2>2. CASE ~TookEffect(h, o)
        <3>1. Uncounted(o)' = Uncounted(o) /\ Cardinality(Uncounted(o)) \in Nat
            BY <1>1, <1>3, <2>2, UncountedStep DEF OthersSame
        <3>2. Cardinality(Uncounted(o)') = Cardinality(Uncounted(o)) /\ gain[o] = 0
            BY <1>g, <2>2, <3>1
        <3> QED
            BY <3>1, <3>2
    <2> QED
        BY <2>1, <2>2
<1>5. /\ operations \in [Operations -> [success : Nat, error : Nat]]
      /\ IsFiniteSet(DOMAIN store) /\ Cardinality(DOMAIN store) \in Nat
    BY FS_CardinalityType DEF Balance
<1>6. /\ operations' \in [Operations -> [success : Nat, error : Nat]]
      /\ \A o \in Operations : operations'[o].success = operations[o].success + gain[o]
    <2>t. operations \in [Operations -> [success : Nat, error : Nat]]
        BY <1>5
    <2>s. \A o \in Operations : operations[o].success \in Nat /\ operations[o].success + 0 = operations[o].success
        BY <2>t
    <2>1. CASE op = ""
        <3>1. \A o \in Operations : gain[o] = 0
            BY <1>g, <2>1 DEF Operations
        <3>2. operations' = operations
            BY <1>1, <2>1
        <3> QED
            BY <2>t, <2>s, <3>1, <3>2
    <2>2. CASE op \in Operations /\ op # "" /\ Succeeded(status[h])
        <3>1. operations' = [operations EXCEPT ![op].success = @ + 1]
            BY <1>1, <2>2
        <3>2. gain[op] = 1 /\ \A o \in Operations \ {op} : gain[o] = 0
            BY <1>g, <2>2
        <3> DEFINE new == [operations[op] EXCEPT !.success = @ + 1]
        <3>n. new \in [success : Nat, error : Nat] /\ new.success = operations[op].success + 1
            BY <2>2, <2>t, CounterStep
        <3>m. operations' = [operations EXCEPT ![op] = new]
            BY <3>1
        <3> HIDE DEF new
        <3>3. operations' \in [Operations -> [success : Nat, error : Nat]]
            BY <2>2, <2>t, <3>n, <3>m
        <3>4. \A o \in Operations : operations'[o].success =
                  operations[o].success + IF o = op THEN 1 ELSE 0
            BY <2>2, <2>t, <2>s, <3>n, <3>m
        <3> QED
            BY <3>2, <3>3, <3>4
    <2>3. CASE op \in Operations /\ op # "" /\ ~Succeeded(status[h])
        <3>1. operations' = [operations EXCEPT ![op].error = @ + 1]
            BY <1>1, <2>3
        <3>2. \A o \in Operations : gain[o] = 0
            BY <1>g, <2>3
        <3> DEFINE new == [operations[op] EXCEPT !.error = @ + 1]
        <3>n. new \in [success : Nat, error : Nat]
            BY <2>3, <2>t, CounterStep
        <3>m. operations' = [operations EXCEPT ![op] = new]
            BY <3>1
        <3>3. operations' \in [Operations -> [success : Nat, error : Nat]]
            BY <2>3, <2>t, <3>n, <3>m
        <3>4. \A o \in Operations : operations'[o].success = operations[o].success
            BY <2>3, <2>t, <3>1
        <3> QED
            BY <2>s, <3>2, <3>3, <3>4
    <2> QED
        BY <1>2, <2>1, <2>2, <2>3
<1>7. {"create", "delete"} \subseteq Operations
    BY DEF Operations
<1>8. /\ operations["create"].success \in Nat /\ operations["delete"].success \in Nat
      /\ operations'["create"].success \in Nat /\ operations'["delete"].success \in Nat
    BY <1>5, <1>6, <1>7
<1>c. ASSUME NEW o \in {"create", "delete"}
      PROVE  operations'[o].success + Cardinality(Uncounted(o)')
                = operations[o].success + Cardinality(Uncounted(o))
    <2>1. /\ operations[o].success \in Nat /\ Cardinality(Uncounted(o)') \in Nat /\ gain[o] \in {0, 1}
          /\ operations'[o].success = operations[o].success + gain[o]
          /\ Cardinality(Uncounted(o)) = Cardinality(Uncounted(o)') + gain[o]
        BY <1>4, <1>6, <1>7, <1>8, <1>g
    <2> QED
        BY <2>1
<1>9. operations["create"].success + Cardinality(Uncounted("create"))
          = operations["delete"].success + Cardinality(Uncounted("delete"))
              + Cardinality(DOMAIN store)
    BY DEF Balance
<1>10. operations'["create"].success + Cardinality(Uncounted("create")')
          = operations'["delete"].success + Cardinality(Uncounted("delete")')
              + Cardinality(DOMAIN store')
    BY <1>1, <1>4, <1>5, <1>8, <1>9, <1>c
<1> QED
    BY <1>1, <1>5, <1>6, <1>10 DEF Balance

LEMMA NextBalance ==
    ASSUME StoreInv, Answered, Balance, [ApiNext]_apiVars
    PROVE  Balance'
<1>i. /\ DOMAIN request = Handlers /\ DOMAIN status = Handlers
      /\ pc \in [Handlers -> Locations] /\ reply \in [Handlers -> Replies]
    BY DEF StoreInv, ApiTypes
<1>1. CASE UNCHANGED <<store, operations, pc, request, status, reply>>
    BY <1>1 DEF Balance, Uncounted, TookEffect
<1>2. ASSUME NEW h \in Handlers, NEW to \in {"lock", "check", "write", "scan"},
             pc[h] # "returned", Goto(h, to), UNCHANGED <<store, operations, request, status, reply>>
      PROVE  Balance'
    <2>1. OthersSame(h) /\ pc'[h] = to
        BY <1>i, <1>2 DEF Goto, OthersSame
    <2> QED
        BY <1>2, <2>1, PlainStep DEF TookEffect
<1>3. ASSUME NEW h \in Handlers, InStorage(h)
      PROVE  Balance'
    <2> USE <1>3
    <2>1. UNCHANGED <<request, status, operations>>
        BY DEF InStorage
    <2>2. CASE Enter(h)
        BY <2>1, <2>2, <1>2, PlainReturn DEF Enter
    <2>3. CASE Lock(h)
        BY <2>1, <2>3, <1>2 DEF Lock
    <2>4. CASE Check(h)
        BY <2>1, <2>4, <1>2, PlainReturn DEF Check
    <2>5. CASE Write(h)
        BY <2>1, <2>5, WriteBalances
    <2>6. CASE RLock(h)
        BY <2>1, <2>6, <1>2 DEF RLock
    <2>7. CASE Scan(h)
        BY <2>1, <2>7, <1>1, PlainReturn DEF Scan
    <2>8. CASE FinishList(h)
        BY <2>1, <2>8, PlainReturn DEF FinishList, Answered
    <2> QED
        BY <2>2, <2>3, <2>4, <2>5, <2>6, <2>7, <2>8 DEF InStorage, CallStep
<1>4. ASSUME NEW h \in Handlers, Answer(h)
      PROVE  Balance'
    <2>1. /\ UNCHANGED <<store, operations, pc, request, reply>> /\ pc[h] = "returned"
          /\ status[h] = 0 /\ status'[h] = StatusOf(request[h], reply[h])
          /\ OthersSame(h)
        BY <1>4, <1>i DEF Answer, storageVars, OthersSame
    <2>2. reply[h] \in Replies \ {"none"}
        BY <1>i, <2>1 DEF Answered
    <2>3. ~Succeeded(0)
        BY DEF Succeeded
    <2>4. ASSUME NEW op \in {"create", "delete"}
          PROVE  TookEffect(h, op)' <=> TookEffect(h, op)
        <3>1. Succeeded(status[h])' <=> Succeeded(status'[h])
            BY DEF Succeeded
        <3>2. /\ status'[h] # 0
              /\ eventOperation(request[h].route) = op => (Succeeded(status'[h]) <=> reply[h] = "ok")
            BY <2>1, <2>2, StatusOfResult
        <3> QED
            BY <2>1, <2>3, <3>1, <3>2 DEF TookEffect
    <2> QED
        BY <2>1, <2>4, PlainStep
<1>5. ASSUME NEW h \in Handlers, NEW r \in HttpRequests, Serve(h, r)
      PROVE  Balance'
    <2>1. UNCHANGED <<store, operations>> /\ pc[h] = "idle" /\ request'[h] = r /\ OthersSame(h)
        BY <1>5, <1>i DEF Serve, Invoke, Goto, OthersSame
    <2>2. \/ pc'[h] = "enter"
          \/ pc'[h] = "returned" /\ EarlyStatus(r) # 0 /\ status'[h] = EarlyStatus(r)
        BY <1>5, <1>i DEF Serve, Invoke, Goto
    <2>3. ASSUME NEW op \in {"create", "delete"}
          PROVE  ~TookEffect(h, op)' /\ ~TookEffect(h, op)
        <3>1. Succeeded(status[h])' <=> Succeeded(status'[h])
            BY DEF Succeeded
        <3> QED
            BY <2>1, <2>2, <3>1, EarlyIsNoSuccess DEF TookEffect
    <2> QED
        BY <2>1, <2>3, PlainStep
<1> QED
    BY <1>1, <1>3, <1>4, <1>5, ObserveBalances
    DEF ApiNext, ClientLeaves, Disconnect, Finished, apiVars, storageVars

LEMMA MetricsInvariant == ApiSpec => [](Answered /\ Balance)
<1>1. ApiInit => Answered /\ Balance
    <2> SUFFICES ASSUME ApiInit
                 PROVE  Answered /\ Balance
        OBVIOUS
    <2>1. Answered
        BY DEF ApiInit, StoreInit, Answered
    <2>2. Uncounted("create") = {} /\ Uncounted("delete") = {} /\ DOMAIN store = {}
        BY DEF ApiInit, StoreInit, Uncounted, TookEffect
    <2>3. /\ Cardinality(Uncounted("create")) = 0 /\ Cardinality(Uncounted("delete")) = 0
          /\ IsFiniteSet(DOMAIN store) /\ Cardinality(DOMAIN store) = 0
        BY <2>2, FS_EmptySet
    <2>4. operations \in [Operations -> [success : Nat, error : Nat]]
        BY DEF ApiInit
    <2>5. operations["create"].success = 0 /\ operations["delete"].success = 0
        BY DEF ApiInit, Operations
    <2> QED
        BY <2>1, <2>3, <2>4, <2>5 DEF Balance
<1>2. StoreInv /\ Answered /\ Balance /\ [ApiNext]_apiVars => (Answered /\ Balance)'
    BY NextAnswered, NextBalance
<1> QED
    BY <1>1, <1>2, StoreInvariant, PTL DEF ApiSpec

\* When no request is in progress the metrics agree with the calendar, for any
\* number of requests and goroutines: what is created and deleted under the lock is
\* counted exactly once, and nothing that was refused or cancelled is counted.
THEOREM MetricsAlwaysBalance == ApiSpec => []MetricsBalance
<1>1. Balance => MetricsBalance
    <2> SUFFICES ASSUME Balance, Quiet
                 PROVE  operations["create"].success - operations["delete"].success
                            = Cardinality(DOMAIN store)
        BY DEF MetricsBalance
    <2>1. Uncounted("create") = {} /\ Uncounted("delete") = {}
        BY DEF Quiet, Uncounted, TookEffect
    <2>2. Cardinality(Uncounted("create")) = 0 /\ Cardinality(Uncounted("delete")) = 0
        BY <2>1, FS_EmptySet
    <2>3. Cardinality(DOMAIN store) \in Nat
        BY FS_CardinalityType DEF Balance
    <2>4. operations["create"].success \in Nat /\ operations["delete"].success \in Nat
        BY DEF Balance, Operations
    <2> QED
        BY <2>2, <2>3, <2>4 DEF Balance
<1> QED
    BY <1>1, MetricsInvariant, PTL

-----------------------------------------------------------------------------
(* Listings.                                                                *)

Rank(S, e) == Cardinality({q \in S : ES!Before(q, e)})

\* What sort.Slice gets: finitely many events whose starts and ids are numbers,
\* with different ids.
Sortable(S) ==
    /\ IsFiniteSet(S)
    /\ \A p \in S : p.startAt \in Int /\ p.id \in Int
    /\ \A p, q \in S : p.id = q.id => p = q

\* The position of an event grows with the order on events.
LEMMA RankGrows ==
    ASSUME NEW S, Sortable(S), NEW p \in S, NEW q \in S
    PROVE  /\ Rank(S, p) \in 0..(Cardinality(S) - 1) /\ Cardinality(S) \in Nat
           /\ ES!Before(p, q) => Rank(S, p) < Rank(S, q)
<1> DEFINE Below(e) == {x \in S : ES!Before(x, e)}
<1>1. ASSUME NEW e \in S
      PROVE  /\ IsFiniteSet(Below(e)) /\ e \notin Below(e) /\ Below(e) \cup {e} \subseteq S
             /\ Cardinality(Below(e)) \in Nat
             /\ IsFiniteSet(Below(e) \cup {e})
             /\ Cardinality(Below(e) \cup {e}) = Cardinality(Below(e)) + 1
    <2>1. Below(e) \subseteq S /\ IsFiniteSet(S)
        BY DEF Sortable
    <2>2. e \notin Below(e)
        BY DEF Sortable, ES!Before
    <2> HIDE DEF Below
    <2>3. IsFiniteSet(Below(e))
        BY <2>1, FS_Subset
    <2> QED
        BY <2>1, <2>2, <2>3, FS_AddElement, FS_CardinalityType
<1>2. Cardinality(S) \in Nat /\ IsFiniteSet(S)
    BY FS_CardinalityType DEF Sortable
<1>3. Cardinality(Below(p)) + 1 <= Cardinality(S)
    <2> HIDE DEF Below
    <2>1. Cardinality(Below(p) \cup {p}) <= Cardinality(S)
        BY <1>1, <1>2, FS_Subset
    <2> QED
        BY <1>1, <2>1
<1>4. ASSUME ES!Before(p, q)
      PROVE  Cardinality(Below(p)) + 1 <= Cardinality(Below(q))
    <2>1. Below(p) \cup {p} \subseteq Below(q)
        BY <1>4 DEF Sortable, ES!Before
    <2> HIDE DEF Below
    <2>2. Cardinality(Below(p) \cup {p}) <= Cardinality(Below(q))
        BY <1>1, <2>1, FS_Subset
    <2> QED
        BY <1>1, <2>2
<1>5. Rank(S, p) = Cardinality(Below(p)) /\ Rank(S, q) = Cardinality(Below(q))
    BY DEF Rank
<1> HIDE DEF Below
<1>6. Cardinality(Below(p)) \in Nat /\ Cardinality(Below(q)) \in Nat
    BY <1>1
<1>7. Rank(S, p) \in 0..(Cardinality(S) - 1)
    BY <1>2, <1>3, <1>5, <1>6
<1>8. ES!Before(p, q) => Rank(S, p) < Rank(S, q)
    BY <1>4, <1>5, <1>6
<1> QED
    BY <1>2, <1>7, <1>8

\* sort.Slice returns the same events, in order.
LEMMA SortedIsSorted ==
    ASSUME NEW S, Sortable(S)
    PROVE  /\ {Sorted(S)[k] : k \in 1..Len(Sorted(S))} = S
           /\ \A j, k \in 1..Len(Sorted(S)) : j < k => ES!Before(Sorted(S)[j], Sorted(S)[k])
<1> DEFINE c == Cardinality(S)
           f == [e \in S |-> Rank(S, e)]
<1>0. c \in Nat
    BY FS_CardinalityType DEF Sortable
<1>1. ASSUME NEW p \in S, NEW q \in S
      PROVE  ES!Before(p, q) \/ ES!Before(q, p) \/ p = q
    BY DEF Sortable, ES!Before
<1>2. ASSUME NEW p \in S, NEW q \in S, Rank(S, p) = Rank(S, q)
      PROVE  p = q
    BY <1>0, <1>1, <1>2, RankGrows
<1>3. f \in [S -> 0..(c - 1)]
    BY RankGrows
<1>4. f \in Injection(S, 0..(c - 1))
    <2>1. \A p, q \in S : f[p] = f[q] => p = q
        BY <1>2
    <2> HIDE DEF f
    <2> QED
        BY <1>3, <2>1 DEF Injection, IsInjective
<1>5. IsFiniteSet(0..(c - 1)) /\ Cardinality(0..(c - 1)) = c
    BY <1>0, FS_Interval
<1>6. f \in Surjection(S, 0..(c - 1))
    <2> HIDE DEF f
    <2> QED
        BY <1>4, <1>5, FS_Injection DEF c
<1>7. ASSUME NEW k \in 1..c
      PROVE  \E e \in S : Rank(S, e) = k - 1
    <2>1. k - 1 \in 0..(c - 1)
        BY <1>0
    <2>2. \E e \in S : f[e] = k - 1
        BY <1>6, <2>1 DEF Surjection
    <2> QED
        BY <2>2
<1>8. ASSUME NEW k \in 1..c
      PROVE  Sorted(S)[k] \in S /\ Rank(S, Sorted(S)[k]) = k - 1
    <2>1. Sorted(S)[k] = CHOOSE e \in S : Rank(S, e) = k - 1
        BY <1>8 DEF Sorted, Rank, c
    <2> QED
        BY <1>7, <2>1
<1>9. Len(Sorted(S)) = c
    <2>1. Sorted(S) = [k \in 1..c |-> CHOOSE e \in S : Rank(S, e) = k - 1]
        BY DEF Sorted, Rank
    <2>2. \A k \in 1..c : (CHOOSE e \in S : Rank(S, e) = k - 1) \in S
        BY <1>7
    <2> HIDE DEF c
    <2>3. Sorted(S) \in [1..c -> S]
        BY <2>1, <2>2
    <2> QED
        BY <1>0, <2>3
<1>10. \A e \in S : \E k \in 1..c : e = Sorted(S)[k]
    <2> SUFFICES ASSUME NEW e \in S
                 PROVE  \E k \in 1..c : e = Sorted(S)[k]
        OBVIOUS
    <2>1. Rank(S, e) \in 0..(c - 1) /\ Rank(S, e) + 1 \in 1..c /\ (Rank(S, e) + 1) - 1 = Rank(S, e)
        BY <1>0, RankGrows
    <2>2. Rank(S, Sorted(S)[Rank(S, e) + 1]) = Rank(S, e) /\ Sorted(S)[Rank(S, e) + 1] \in S
        BY <1>8, <2>1
    <2> QED
        BY <1>2, <2>1, <2>2
<1>11. ASSUME NEW j \in 1..c, NEW k \in 1..c, j < k
       PROVE  ES!Before(Sorted(S)[j], Sorted(S)[k])
    <2> DEFINE p == Sorted(S)[j]
               q == Sorted(S)[k]
    <2>1. p \in S /\ q \in S /\ Rank(S, p) = j - 1 /\ Rank(S, q) = k - 1
        BY <1>8
    <2> HIDE DEF p, q
    <2>2. ~(Rank(S, q) < Rank(S, p)) /\ Rank(S, p) # Rank(S, q)
        BY <1>0, <1>11, <2>1
    <2>3. p # q /\ ~ES!Before(q, p)
        BY <2>1, <2>2, RankGrows
    <2>4. ES!Before(p, q)
        BY <1>1, <2>1, <2>3
    <2> QED
        BY <2>4 DEF p, q
<1> HIDE DEF c, f
<1> QED
    BY <1>8, <1>9, <1>10, <1>11

\* The number of months begun grows on the first day of a month and never falls.
LEMMA MonthOfGrows ==
    ASSUME NEW d \in Nat, NEW e \in Nat
    PROVE  /\ MonthOf(d) \in Nat
           /\ d <= e => MonthOf(d) <= MonthOf(e)
           /\ d < e /\ e \in MonthStarts => MonthOf(d) < MonthOf(e)
<1> DEFINE Begun(x) == {m \in MonthStarts : m <= x}
<1>0. \A m \in MonthStarts : m \in Nat
    BY ApiAssumption
<1>1. ASSUME NEW x \in Nat
      PROVE  IsFiniteSet(Begun(x)) /\ Cardinality(Begun(x)) \in Nat
    <2>1. Begun(x) \subseteq 0..x
        BY <1>0
    <2>2. IsFiniteSet(0..x)
        BY FS_Interval
    <2> HIDE DEF Begun
    <2> QED
        BY <2>1, <2>2, FS_Subset, FS_CardinalityType
<1>2. ASSUME d <= e
      PROVE  Begun(d) \subseteq Begun(e)
    BY <1>0, <1>2
<1>3. ASSUME d < e, e \in MonthStarts
      PROVE  e \in Begun(e) /\ e \notin Begun(d)
    BY <1>3
<1>4. MonthOf(d) = Cardinality(Begun(d)) /\ MonthOf(e) = Cardinality(Begun(e))
    BY DEF MonthOf
<1> HIDE DEF Begun
<1>5. d <= e => Cardinality(Begun(d)) <= Cardinality(Begun(e))
    BY <1>1, <1>2, FS_Subset
<1>6. d < e /\ e \in MonthStarts => Cardinality(Begun(d)) < Cardinality(Begun(e))
    <2> SUFFICES ASSUME d < e, e \in MonthStarts
                 PROVE  Cardinality(Begun(d)) < Cardinality(Begun(e))
        OBVIOUS
    <2>1. Begun(d) \subseteq Begun(e) /\ Begun(d) # Begun(e)
        BY <1>2, <1>3
    <2>2. /\ Cardinality(Begun(d)) <= Cardinality(Begun(e))
          /\ Cardinality(Begun(e)) # Cardinality(Begun(d))
        BY <1>1, <2>1, FS_Subset
    <2> QED
        BY <1>1, <2>2
<1> QED
    BY <1>1, <1>4, <1>5, <1>6

\* Between the first days of a month and of the next one are the days of the month.
LEMMA DaysOfMonth ==
    ASSUME NEW k \in Nat, NEW a \in MonthStarts, MonthOf(a) = k,
           NEW b \in MonthStarts, MonthOf(b) = k + 1
    PROVE  /\ a \in Nat /\ b \in Nat /\ a < b
           /\ \A d \in Nat : MonthOf(d) = k <=> a <= d /\ d < b
<1>1. a \in Nat /\ b \in Nat
    BY ApiAssumption
<1>2. ASSUME NEW d \in Nat
      PROVE  MonthOf(d) = k <=> a <= d /\ d < b
    <2>1. MonthOf(d) \in Nat /\ (d < a => MonthOf(d) < k) /\ (d < b => MonthOf(d) < k + 1)
        BY <1>1, MonthOfGrows
    <2>2. (a <= d => k <= MonthOf(d)) /\ (b <= d => k + 1 <= MonthOf(d))
        BY <1>1, MonthOfGrows
    <2> QED
        BY <1>1, <2>1, <2>2
<1>3. a < b
    <2>1. b <= a => k + 1 <= k
        BY <1>1, MonthOfGrows
    <2> QED
        BY <1>1, <2>1
<1> QED
    BY <1>1, <1>2, <1>3

\* App.ListEventsForMonth: the interval from the first day of the month to the
\* first day of the next one holds the days of the month and no others.
LEMMA MonthIsInterval ==
    ASSUME NEW r \in HttpRequests, r.route = "GET /events/month", Lists(r), r.date # BadDate
    PROVE  /\ FirstOfMonth(r.date) \in Nat /\ FirstOfNext(r.date) \in Nat
           /\ FirstOfMonth(r.date) < FirstOfNext(r.date)
           /\ \A d \in Nat : MonthOf(d) = MonthOf(r.date) <=>
                 FirstOfMonth(r.date) <= d /\ d < FirstOfNext(r.date)
<1>1. MonthOf(r.date) \in Nat
    <2>1. r.date \in Nat
        BY DatesAssumption
    <2> QED
        BY <2>1, MonthOfGrows
<1>2. /\ \E m \in MonthStarts : MonthOf(m) = MonthOf(r.date)
      /\ \E m \in MonthStarts : MonthOf(m) = MonthOf(r.date) + 1
    BY DatesAssumption
<1>3. /\ FirstOfMonth(r.date) \in MonthStarts
      /\ MonthOf(FirstOfMonth(r.date)) = MonthOf(r.date)
    BY <1>2 DEF FirstOfMonth
<1>4. /\ FirstOfNext(r.date) \in MonthStarts
      /\ MonthOf(FirstOfNext(r.date)) = MonthOf(r.date) + 1
    BY <1>2 DEF FirstOfNext
<1> QED
    BY <1>1, <1>3, <1>4, DaysOfMonth, ZenonT(30)

\* The interval of a listing and the days it is about.
LEMMA IntervalIsDays ==
    ASSUME NEW r \in HttpRequests, Lists(r), r.date # BadDate
    PROVE  /\ Interval(r)[1] \in Nat /\ Interval(r)[2] \in Nat
           /\ Interval(r)[1] < Interval(r)[2]
           /\ \A d \in Nat : d \in DaysOf(r) <=> Interval(r)[1] <= d /\ d < Interval(r)[2]
<1>0. r.date \in Nat
    BY DatesAssumption
<1>1. r.route \in {"GET /events/day", "GET /events/week", "GET /events/month"}
    BY DEF Lists, eventOperation
<1>2. CASE r.route = "GET /events/day"
    <2>1. Interval(r) = <<r.date, r.date + 1>>
        BY <1>2 DEF Interval
    <2>2. DaysOf(r) = {d \in 0..(Interval(r)[2] + 7) : d = r.date}
        BY <1>2 DEF DaysOf
    <2> QED
        BY <1>0, <2>1, <2>2
<1>3. CASE r.route = "GET /events/week"
    <2>1. Interval(r) = <<r.date, r.date + 7>>
        BY <1>3 DEF Interval
    <2>2. DaysOf(r) = {d \in 0..(Interval(r)[2] + 7) : d >= r.date /\ d < r.date + 7}
        BY <1>3 DEF DaysOf
    <2> QED
        BY <1>0, <2>1, <2>2
<1>4. CASE r.route = "GET /events/month"
    <2>1. Interval(r) = <<FirstOfMonth(r.date), FirstOfNext(r.date)>>
        BY <1>4 DEF Interval
    <2>2. DaysOf(r) = {d \in 0..(Interval(r)[2] + 7) : MonthOf(d) = MonthOf(r.date)}
        BY <1>4 DEF DaysOf
    <2>3. /\ FirstOfMonth(r.date) \in Nat /\ FirstOfNext(r.date) \in Nat
          /\ FirstOfMonth(r.date) < FirstOfNext(r.date)
          /\ \A d \in Nat : MonthOf(d) = MonthOf(r.date) <=>
                FirstOfMonth(r.date) <= d /\ d < FirstOfNext(r.date)
        BY <1>4, MonthIsInterval
    <2> QED
        BY <2>1, <2>2, <2>3
<1> QED
    BY <1>1, <1>2, <1>3, <1>4

\* An instant is on one of the days a..(b - 1) if and only if it is in [from, to).
LEMMA InstantOnDay ==
    ASSUME NEW t \in Nat, NEW a \in Nat
    PROVE  /\ t \div DayLength \in Nat
           /\ a <= t \div DayLength <=> a * DayLength <= t
<1>1. DayLength \in Nat \ {0}
    BY ApiAssumption
<1> DEFINE d == t \div DayLength
<1>2. d \in Nat /\ d * DayLength <= t /\ t < (d + 1) * DayLength
    BY <1>1
<1> HIDE DEF d
<1>3. a <= d => a * DayLength <= d * DayLength
    BY <1>1, <1>2
<1>4. d + 1 <= a => (d + 1) * DayLength <= a * DayLength
    BY <1>1, <1>2
<1>5. a * DayLength \in Nat /\ d * DayLength \in Nat /\ (d + 1) * DayLength \in Nat
    BY <1>1, <1>2
<1>6. a <= d <=> a * DayLength <= t
    BY <1>2, <1>3, <1>4, <1>5
<1> QED
    BY <1>2, <1>6 DEF d

\* ListEvents' condition selects the events that take place on one of the days.
LEMMA MatchesMeansOnDay ==
    ASSUME NEW r \in HttpRequests, EarlyStatus(r) = 0, Lists(r),
           NEW e, e.startAt \in Nat, e.endAt \in Nat, e.startAt < e.endAt
    PROVE  Matches(e, CallOf(r)) <=>
              /\ e.userID = r.userID
              /\ \E t \in e.startAt..(e.endAt - 1) : t \div DayLength \in DaysOf(r)
<1> DEFINE a == Interval(r)[1]
           b == Interval(r)[2]
<1>0. r.date # BadDate
    BY EarlyStatuses, ZenonT(30) DEF Bound
<1>1. /\ a \in Nat /\ b \in Nat /\ a < b
      /\ \A d \in Nat : d \in DaysOf(r) <=> a <= d /\ d < b
    BY <1>0, IntervalIsDays
<1>2. /\ CallOf(r).userID = r.userID
      /\ CallOf(r).from = a * DayLength /\ CallOf(r).to = b * DayLength
    <2>1. ~WritesEvent(r)
        BY DEF WritesEvent, Lists
    <2>2. CallOf(r) = [op |-> "list", userID |-> r.userID,
                       from |-> a * DayLength, to |-> b * DayLength]
        BY <2>1 DEF CallOf
    <2> QED
        BY <2>2
<1>3. Matches(e, CallOf(r)) <=>
          e.userID = r.userID /\ e.startAt < b * DayLength /\ a * DayLength < e.endAt
    BY <1>2 DEF Matches
<1> HIDE DEF a, b
<1>4. \A t \in Nat : t \div DayLength \in DaysOf(r) <=> a * DayLength <= t /\ t < b * DayLength
    <2> SUFFICES ASSUME NEW t \in Nat
                 PROVE  t \div DayLength \in DaysOf(r) <=> a * DayLength <= t /\ t < b * DayLength
        OBVIOUS
    <2> DEFINE d == t \div DayLength
    <2>1. d \in Nat /\ (a <= d <=> a * DayLength <= t) /\ (b <= d <=> b * DayLength <= t)
        BY <1>1, InstantOnDay
    <2> HIDE DEF d
    <2>2. d \in DaysOf(r) <=> a <= d /\ d < b
        BY <1>1, <2>1
    <2>3. b * DayLength \in Nat
        BY <1>1, ApiAssumption
    <2> QED
        BY <1>1, <2>1, <2>2, <2>3 DEF d
<1>5. a * DayLength < b * DayLength /\ a * DayLength \in Nat /\ b * DayLength \in Nat
    BY <1>1, ApiAssumption
<1>6. (\E t \in e.startAt..(e.endAt - 1) : a * DayLength <= t /\ t < b * DayLength)
          <=> e.startAt < b * DayLength /\ a * DayLength < e.endAt
    <2> DEFINE x == a * DayLength
               y == b * DayLength
    <2>1. x \in Nat /\ y \in Nat /\ x < y
        BY <1>5
    <2> HIDE DEF x, y
    <2>2. ASSUME e.startAt < y, x < e.endAt
          PROVE  \E t \in e.startAt..(e.endAt - 1) : x <= t /\ t < y
        <3>1. CASE e.startAt <= x
            <4>1. x \in e.startAt..(e.endAt - 1) /\ x <= x /\ x < y
                BY <2>1, <2>2, <3>1
            <4> QED
                BY <4>1
        <3>2. CASE x < e.startAt
            <4>1. e.startAt \in e.startAt..(e.endAt - 1) /\ x <= e.startAt /\ e.startAt < y
                BY <2>1, <2>2, <3>2
            <4> QED
                BY <4>1
        <3> QED
            BY <2>1, <3>1, <3>2
    <2>3. ASSUME NEW t \in e.startAt..(e.endAt - 1), x <= t, t < y
          PROVE  e.startAt < y /\ x < e.endAt
        BY <2>1, <2>3
    <2> QED
        BY <2>2, <2>3 DEF x, y
<1>7. \A t \in e.startAt..(e.endAt - 1) : t \in Nat
    OBVIOUS
<1> QED
    BY <1>3, <1>4, <1>6, <1>7

\* What a goroutine that has visited all but the ids in left has collected.
Collected(c, left) == {store[i] : i \in {j \in DOMAIN store \ left : Matches(store[j], c)}}

\* Every step keeps ScanInv: a write needs the lock, which readers exclude.
LEMMA NextScanInv ==
    ASSUME StoreInv, ScanInv, [ApiNext]_apiVars
    PROVE  ScanInv'
<1>i. /\ DOMAIN todo = Handlers /\ DOMAIN found = Handlers /\ DOMAIN listing = Handlers
      /\ readers # {} => writer = NoHandler
      /\ \A h \in Handlers : pc[h] = "scan" => h \in readers /\ found[h] = Collected(call[h], todo[h])
      /\ DOMAIN call = Handlers /\ pc \in [Handlers -> Locations]
      /\ \A h \in Handlers : pc[h] \in {"check", "write"} => writer = h
    BY DEF ScanInv, Collected, StoreInv, ApiTypes, LockHeld
<1>s. ASSUME store' = store, NEW c, NEW left
      PROVE  Collected(c, left)' = Collected(c, left)
    BY <1>s DEF Collected
<1>f. ASSUME NEW h \in Handlers, store' = store,
             DOMAIN todo' = Handlers, DOMAIN found' = Handlers, DOMAIN listing' = Handlers,
             readers' # {} => writer' = NoHandler,
             \A g \in Handlers \ {h} :
                /\ pc'[g] = pc[g] /\ call'[g] = call[g] /\ todo'[g] = todo[g] /\ found'[g] = found[g]
                /\ g \in readers => g \in readers',
             pc'[h] = "scan" => h \in readers' /\ found'[h] = Collected(call'[h], todo'[h])
      PROVE  ScanInv'
    <2>1. \A g \in Handlers : pc'[g] = "scan" => g \in readers' /\ found'[g] = Collected(call'[g], todo'[g])
        BY <1>f, <1>i
    <2>2. \A g \in Handlers : Collected(call[g], todo[g])' = Collected(call'[g], todo'[g])
        BY <1>f DEF Collected
    <2> QED
        BY <1>f, <2>1, <2>2 DEF ScanInv, Collected
<1>1. ASSUME NEW h \in Handlers, NEW result, ReturnWith(h, result), pc[h] # "idle",
             UNCHANGED <<store, call, todo, found>>, DOMAIN listing' = Handlers
      PROVE  ScanInv'
    <2>1. /\ \A g \in Handlers \ {h} : pc'[g] = pc[g]
          /\ pc'[h] = "returned"
          /\ writer' = IF writer = h THEN NoHandler ELSE writer
          /\ readers' = readers \ {h}
        BY <1>1, <1>i DEF ReturnWith, Goto
    <2> QED
        BY <1>1, <1>i, <1>f, <2>1
<1>2. ASSUME NEW h \in Handlers, NEW to \in {"lock", "write"}, Goto(h, to),
             UNCHANGED <<store, writer, readers, call, todo, found, listing>>
      PROVE  ScanInv'
    <2>1. (\A g \in Handlers \ {h} : pc'[g] = pc[g]) /\ pc'[h] = to
        BY <1>2, <1>i DEF Goto
    <2> QED
        BY <1>2, <1>i, <1>f, <2>1
<1>3. ASSUME NEW h \in Handlers, InStorage(h)
      PROVE  ScanInv'
    <2> USE <1>3
    <2>1. CASE Enter(h)
        BY <2>1, <1>i, <1>1, <1>2 DEF Enter, listVars
    <2>2. CASE Lock(h)
        <3>1. /\ UNCHANGED <<store, readers, call, todo, found, listing>> /\ readers = {}
              /\ pc'[h] = "check" /\ \A g \in Handlers \ {h} : pc'[g] = pc[g]
            BY <2>2, <1>i DEF Lock, Goto, listVars
        <3> QED
            BY <3>1, <1>i, <1>f
    <2>3. CASE Check(h)
        BY <2>3, <1>i, <1>1, <1>2 DEF Check, listVars
    <2>4. CASE Write(h)
        <3>1. /\ pc[h] = "write" /\ pc'[h] = "returned"
              /\ \A g \in Handlers \ {h} : pc'[g] = pc[g]
              /\ writer' = IF writer = h THEN NoHandler ELSE writer
              /\ readers' = readers \ {h} /\ UNCHANGED <<todo, found, listing>>
            BY <2>4, <1>i DEF Write, ReturnWith, Goto, listVars
        <3>2. readers = {}
            BY <1>i, <3>1, HandlersAssumption
        <3>3. \A g \in Handlers : pc'[g] # "scan"
            BY <1>i, <3>1, <3>2
        <3> QED
            BY <1>i, <3>1, <3>2, <3>3 DEF ScanInv
    <2>5. CASE RLock(h)
        <3>1. /\ UNCHANGED <<store, writer, call, listing>> /\ writer = NoHandler
              /\ readers' = readers \cup {h}
              /\ todo' = [todo EXCEPT ![h] = DOMAIN store]
              /\ found' = [found EXCEPT ![h] = {}]
              /\ pc'[h] = "scan" /\ \A g \in Handlers \ {h} : pc'[g] = pc[g]
            BY <2>5, <1>i DEF RLock, Goto
        <3>2. Collected(call'[h], DOMAIN store) = {}
            BY DEF Collected
        <3>3. found'[h] = Collected(call'[h], todo'[h])
            BY <1>i, <3>1, <3>2
        <3> QED
            BY <3>1, <3>3, <1>i, <1>f
    <2>6. CASE Scan(h)
        <3>1. CASE ReturnWith(h, "canceled") /\ UNCHANGED <<todo, found>>
            BY <2>6, <3>1, <1>i, <1>1 DEF Scan
        <3>2. CASE /\ \E i \in todo[h] :
                        /\ todo' = [todo EXCEPT ![h] = @ \ {i}]
                        /\ found' = IF i \in DOMAIN store /\ Matches(store[i], call[h])
                                    THEN [found EXCEPT ![h] = @ \cup {store[i]}]
                                    ELSE found
                   /\ UNCHANGED <<writer, readers, pc, reply>>
            <4>1. PICK i \in todo[h] :
                        /\ todo' = [todo EXCEPT ![h] = @ \ {i}]
                        /\ found' = IF i \in DOMAIN store /\ Matches(store[i], call[h])
                                    THEN [found EXCEPT ![h] = @ \cup {store[i]}]
                                    ELSE found
                BY <3>2
            <4>2. UNCHANGED <<store, call, listing, writer, readers, pc>> /\ pc[h] = "scan"
                BY <2>6, <3>2 DEF Scan
            <4>3. todo'[h] = todo[h] \ {i} /\ found[h] = Collected(call[h], todo[h]) /\ h \in readers
                BY <1>i, <4>1, <4>2
            <4>4. Collected(call[h], todo[h] \ {i}) =
                     IF i \in DOMAIN store /\ Matches(store[i], call[h])
                     THEN Collected(call[h], todo[h]) \cup {store[i]} ELSE Collected(call[h], todo[h])
                <5>1. CASE i \in DOMAIN store /\ Matches(store[i], call[h])
                    BY <5>1, <4>1 DEF Collected
                <5>2. CASE ~(i \in DOMAIN store /\ Matches(store[i], call[h]))
                    BY <5>2, <4>1 DEF Collected
                <5> QED
                    BY <5>1, <5>2
            <4>5. found'[h] = Collected(call'[h], todo'[h])
                BY <1>i, <4>1, <4>2, <4>3, <4>4
            <4>6. /\ DOMAIN todo' = Handlers /\ DOMAIN found' = Handlers
                  /\ \A g \in Handlers \ {h} : todo'[g] = todo[g] /\ found'[g] = found[g]
                BY <1>i, <4>1
            <4> QED
                BY <1>i, <1>f, <4>2, <4>3, <4>5, <4>6
        <3> QED
            BY <2>6, <3>1, <3>2 DEF Scan
    <2>7. CASE FinishList(h)
        BY <2>7, <1>i, <1>1 DEF FinishList
    <2> QED
        BY <2>1, <2>2, <2>3, <2>4, <2>5, <2>6, <2>7 DEF InStorage, CallStep
<1>4. CASE UNCHANGED <<store, writer, readers, pc, call, todo, found, listing>>
    BY <1>4 DEF ScanInv, Matches
<1>5. ASSUME NEW h \in Handlers, Observe(h)
      PROVE  ScanInv'
    <2>1. /\ UNCHANGED <<store, writer, readers>> /\ pc'[h] = "idle"
          /\ DOMAIN todo' = Handlers /\ DOMAIN found' = Handlers /\ DOMAIN listing' = Handlers
          /\ \A g \in Handlers \ {h} :
                pc'[g] = pc[g] /\ call'[g] = call[g] /\ todo'[g] = todo[g] /\ found'[g] = found[g]
        BY <1>5, <1>i DEF Observe, Done, Goto
    <2> QED
        BY <1>i, <1>f, <2>1
<1>6. ASSUME NEW h \in Handlers, NEW r \in HttpRequests, Serve(h, r)
      PROVE  ScanInv'
    <2>1. /\ UNCHANGED <<store, writer, readers, todo, found, listing>>
          /\ pc'[h] \in {"enter", "returned"}
          /\ \A g \in Handlers \ {h} : pc'[g] = pc[g] /\ call'[g] = call[g]
        BY <1>6, <1>i DEF Serve, Invoke, Goto, listVars
    <2> QED
        BY <1>i, <1>f, <2>1
<1> QED
    BY <1>3, <1>4, <1>5, <1>6
    DEF ApiNext, ClientLeaves, Disconnect, Answer, Finished, apiVars, storageVars, listVars

\* The events that a listing collects can be sorted.
LEMMA FoundIsSortable ==
    ASSUME StoreInv, IsFiniteSet(DOMAIN store), NEW S,
           \A e \in S : \E i \in DOMAIN store : e = store[i]
    PROVE  Sortable(S)
<1>1. \A i \in DOMAIN store : store[i].id = i /\ store[i].startAt \in Nat /\ store[i].id \in Nat
    <2> SUFFICES ASSUME NEW i \in DOMAIN store
                 PROVE  store[i].id = i /\ store[i].startAt \in Nat /\ store[i].id \in Nat
        OBVIOUS
    <2>1. store[i].id = i /\ store[i] \in ES!Event
        BY RowsOfStore, DatesAssumption
    <2> QED
        BY <2>1 DEF ES!Event
<1>2. IsFiniteSet(S)
    <2> DEFINE f == [e \in S |-> e.id]
    <2>1. f \in Injection(S, DOMAIN store)
        <3>1. f \in [S -> DOMAIN store] /\ \A p, q \in S : f[p] = f[q] => p = q
            BY <1>1
        <3> HIDE DEF f
        <3> QED
            BY <3>1 DEF Injection, IsInjective
    <2> HIDE DEF f
    <2> QED
        BY <2>1, FS_Injection
<1>3. \A p \in S : p.startAt \in Int /\ p.id \in Int
    BY <1>1
<1>4. \A p, q \in S : p.id = q.id => p = q
    BY <1>1
<1> QED
    BY <1>2, <1>3, <1>4 DEF Sortable

\* A listing answers what was asked, for any requests, any calendar of months and
\* any number of goroutines: the events of the user on the requested days and no
\* others, in order, as of the moment the read lock is released.
THEOREM ListingAlwaysMeetsDays == ApiSpec => ListingMeetsDays
<1>1. ASSUME StoreInv, Answered, Balance, ScanInv, NEW h \in Handlers, FinishList(h)
      PROVE  MeetsDays(h)
    <2> DEFINE r == request[h]
               S == found[h]
    <2>1. /\ pc[h] = "scan" /\ todo[h] = {}
          /\ listing' = [listing EXCEPT ![h] = Sorted(S)]
        BY <1>1 DEF FinishList
    <2>2. listing'[h] = Sorted(S)
        BY <1>1, <2>1 DEF ScanInv
    <2>3. r \in HttpRequests /\ EarlyStatus(r) = 0 /\ call[h] = CallOf(r) /\ Lists(r)
        BY <1>1, <2>1 DEF StoreInv, InCall, Accepted, Answered
    <2>4. S = {store[i] : i \in {j \in DOMAIN store : Matches(store[j], CallOf(r))}}
        <3>1. S = {store[i] : i \in {j \in DOMAIN store \ todo[h] : Matches(store[j], call[h])}}
            BY <1>1, <2>1 DEF ScanInv
        <3> QED
            BY <2>1, <2>3, <3>1
    <2>5. ASSUME NEW j \in DOMAIN store
          PROVE  /\ store[j].startAt \in Nat /\ store[j].endAt \in Nat
                 /\ store[j].startAt < store[j].endAt
        <3>1. PICK q \in HttpRequests :
                  WritesEvent(q) /\ EarlyStatus(q) = 0 /\ store[j] = newStorageEvent(q)
            BY <1>1 DEF StoreInv, StoreFromRequests
        <3>2. ES!ValidateEvent(store[j])
            <4>1. ES!ValidateEvent(newStorageEvent(q))
                BY <3>1, EarlyStatuses
            <4> QED
                BY <3>1, <4>1
        <3>3. store[j] \in ES!Event
            BY <1>1, RowsOfStore, DatesAssumption
        <3> QED
            BY <3>2, <3>3 DEF ES!ValidateEvent, ES!Event
    <2>6. ASSUME NEW j \in DOMAIN store
          PROVE  Matches(store[j], CallOf(r)) <=>
                    /\ store[j].userID = r.userID
                    /\ \E t \in store[j].startAt..(store[j].endAt - 1) : t \div DayLength \in DaysOf(r)
        BY <2>3, <2>5, MatchesMeansOnDay
    <2>7. S = {store[i] : i \in {j \in DOMAIN store :
                  /\ store[j].userID = r.userID
                  /\ \E t \in store[j].startAt..(store[j].endAt - 1) : t \div DayLength \in DaysOf(r)}}
        <3> DEFINE A == {j \in DOMAIN store : Matches(store[j], CallOf(r))}
                   B == {j \in DOMAIN store :
                            /\ store[j].userID = r.userID
                            /\ \E t \in store[j].startAt..(store[j].endAt - 1) :
                                  t \div DayLength \in DaysOf(r)}
        <3>1. A = B
            BY <2>6
        <3> HIDE DEF A, B
        <3>2. S = {store[i] : i \in A}
            BY <2>4 DEF A
        <3>3. S = {store[i] : i \in B}
            BY <3>1, <3>2
        <3> QED
            BY <3>3 DEF B
    <2>8. Sortable(S)
        <3>1. \A e \in S : \E i \in DOMAIN store : e = store[i]
            BY <2>4
        <3> HIDE DEF S
        <3> QED
            BY <1>1, <3>1, FoundIsSortable DEF Balance
    <2> HIDE DEF S
    <2>9. /\ {Sorted(S)[k] : k \in 1..Len(Sorted(S))} = S
          /\ \A j, k \in 1..Len(Sorted(S)) : j < k => ES!Before(Sorted(S)[j], Sorted(S)[k])
        BY <2>8, SortedIsSorted
    <2>10. \A j, k \in 1..Len(listing'[h]) : j < k => ES!Before(listing'[h][j], listing'[h][k])
        BY <2>2, <2>9
    <2>11. {listing'[h][k] : k \in 1..Len(listing'[h])} = S
        BY <2>2, <2>9
    <2> QED
        BY <2>7, <2>10, <2>11 DEF MeetsDays
<1>2. ApiInit => ScanInv
    BY DEF ApiInit, StoreInit, ScanInv
<1>3. StoreInv /\ ScanInv /\ [ApiNext]_apiVars => ScanInv'
    BY NextScanInv
<1>4. StoreInv /\ Answered /\ Balance /\ ScanInv =>
          [\A h \in Handlers : FinishList(h) => MeetsDays(h)]_apiVars
    BY <1>1
<1> QED
    BY <1>2, <1>3, <1>4, StoreInvariant, MetricsInvariant, PTL DEF ApiSpec, ListingMeetsDays
=============================================================================
