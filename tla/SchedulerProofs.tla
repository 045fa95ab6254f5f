--------------------------- MODULE SchedulerProofs ---------------------------
(***************************************************************************)
(* Theorems about Scheduler, for any number of schedulers, any requests    *)
(* and any bounds.                                                         *)
(***************************************************************************)
EXTENDS Scheduler, FiniteSetTheorems, WellFoundedInduction, TLAPS

-----------------------------------------------------------------------------
(* The loop variable of RunOnce.                                            *)

\* A non-empty set of naturals has a least element.
LEMMA LeastNatural ==
    ASSUME NEW T, T \subseteq Nat, T # {}
    PROVE  \E m \in T : \A n \in T : m <= n
<1>1. PICK m \in T : \A n \in T : ~(<<n, m>> \in OpToRel(<, Nat))
    BY NatLessThanWellFounded, WFMin
<1>2. \A n \in T : <<n, m>> \in Nat \X Nat
    OBVIOUS
<1>3. \A n \in T : ~(n < m)
    BY <1>1, <1>2 DEF OpToRel
<1> QED
    BY <1>3

\* ORDER BY start_at, id has a first row.
LEMMA FirstRow ==
    ASSUME NEW B, B \subseteq Row, B # {}
    PROVE  \E e \in B : \A q \in B : ~Before(q, e)
<1> DEFINE Starts == {r.startAt : r \in B}
<1>1. Starts \subseteq Nat /\ Starts # {}
    BY DEF Row
<1>2. PICK a \in Starts : \A n \in Starts : a <= n
    BY <1>1, LeastNatural
<1> DEFINE Earliest == {r \in B : r.startAt = a}
           Ids == {r.id : r \in Earliest}
<1>3. Ids \subseteq Nat /\ Ids # {}
    BY DEF Row
<1>4. PICK i \in Ids : \A n \in Ids : i <= n
    BY <1>3, LeastNatural
<1>5. PICK e \in Earliest : e.id = i
    BY <1>4
<1>6. ASSUME NEW q \in B, Before(q, e) PROVE FALSE
    <2>1. q.startAt \in Nat /\ q.id \in Nat /\ e.startAt \in Nat /\ e.id \in Nat
        BY <1>5 DEF Row
    <2>2. a <= q.startAt
        BY <1>2
    <2>3. q.startAt = a /\ q.id < i
        BY <1>5, <1>6, <2>1, <2>2 DEF Before
    <2>4. i <= q.id
        BY <1>4, <2>3
    <2> QED
        BY <2>1, <2>3, <2>4, <1>5
<1> QED
    BY <1>5, <1>6

\* While its batch is not empty, a scheduler is at one of its rows.
LEMMA CurrentInBatch ==
    ASSUME NEW s, batch[s] \subseteq Row, batch[s] # {}
    PROVE  Current(s) \in batch[s]
BY FirstRow DEF Current
-----------------------------------------------------------------------------
(* What the storage operations and the topic preserve.                      *)

\* INSERT and UPDATE write a row of the table's type.
LEMMA NewRowType ==
    ASSUME NEW e \in Requests, ValidateEvent(e)
    PROVE  NewRow(e) \in Row /\ ~NewRow(e).sent
BY RequestsAssumption DEF NewRow, Row, Event, ValidateEvent

\* Clients and the retention keep the type and set no mark.
LEMMA EditKeepsMarks ==
    ASSUME events \subseteq Row,
           \/ \E e \in Requests : CreateEvent(e) \/ UpdateEvent(e)
           \/ \E r \in events : DeleteEvent(r.id)
           \/ \E c \in Int : DeleteEventsBefore(c)
    PROVE  events' \subseteq Row /\ \A r \in events' : r.sent => r \in events
<1>1. CASE \E e \in Requests : CreateEvent(e)
    BY <1>1, NewRowType DEF CreateEvent
<1>2. CASE \E e \in Requests : UpdateEvent(e)
    BY <1>2, NewRowType DEF UpdateEvent
<1>3. CASE \E r \in events : DeleteEvent(r.id)
    BY <1>3 DEF DeleteEvent
<1>4. CASE \E c \in Int : DeleteEventsBefore(c)
    BY <1>4 DEF DeleteEventsBefore
<1> QED
    BY <1>1, <1>2, <1>3, <1>4

\* MarkNotificationSent keeps the type and marks rows of its snapshot only.
LEMMA MarkTouchesSnapshot ==
    ASSUME events \subseteq Row, NEW e, MarkNotificationSent(e)
    PROVE  /\ events' \subseteq Row
           /\ \A r \in events' : r.sent => r \in events \/ SameSnapshot(r, e)
<1> SUFFICES ASSUME NEW r \in events'
             PROVE  r \in Row /\ (r.sent => r \in events \/ SameSnapshot(r, e))
    OBVIOUS
<1>1. PICK q \in events : r = IF q \in SnapshotRows(e) THEN [q EXCEPT !.sent = TRUE] ELSE q
    BY DEF MarkNotificationSent
<1>2. CASE q \in SnapshotRows(e)
    <2>1. q \in Row /\ SameSnapshot(q, e)
        BY <1>2 DEF SnapshotRows
    <2>2. r = [q EXCEPT !.sent = TRUE]
        BY <1>1, <1>2
    <2>3. r \in Row
        BY <2>1, <2>2 DEF Row
    <2>4. SameSnapshot(r, e)
        BY <2>1, <2>2 DEF Row, SameSnapshot
    <2> QED
        BY <2>3, <2>4
<1>3. CASE q \notin SnapshotRows(e)
    BY <1>1, <1>3
<1> QED
    BY <1>2, <1>3

\* A snapshot determines its notification.
LEMMA SameNotification ==
    ASSUME NEW r, NEW e, SameSnapshot(r, e)
    PROVE  NotificationOf(r) = NotificationOf(e)
BY DEF SameSnapshot, NotificationOf

LEMMA NotificationType ==
    ASSUME NEW r \in Row
    PROVE  NotificationOf(r) \in Notification
BY DEF Row, NotificationOf, Notification

\* The topic only grows, by the payload appended.
LEMMA AppendGrows ==
    ASSUME topic \in Seq(Payload), NEW p \in Payload, AppendToTopic(p)
    PROVE  topic' \in Seq(Payload) /\ Published' = Published \cup {p}
<1>1. /\ topic' \in Seq(Payload)
      /\ Len(topic') = Len(topic) + 1
      /\ topic'[Len(topic) + 1] = p
      /\ \A i \in 1..Len(topic) : topic'[i] = topic[i]
    BY DEF AppendToTopic
<1>2. Published' \subseteq Published \cup {p}
    BY <1>1 DEF Published
<1>3. Published \cup {p} \subseteq Published'
    BY <1>1 DEF Published
<1> QED
    BY <1>1, <1>2, <1>3
-----------------------------------------------------------------------------
(* The inductive invariant.                                                 *)

LEMMA InitIInv == Init => IInv
<1> SUFFICES ASSUME Init PROVE IInv
    OBVIOUS
<1>1. TypeOK
    BY DEF Init, TypeOK, StorageInit, TopicInit, StorageTypeOK, TopicTypeOK, Locations
<1>2. LoopHasEvent /\ PublishedBeforeMark
    BY DEF Init, LoopHasEvent, PublishedBeforeMark
<1>3. MarkedIsPublished
    BY DEF Init, StorageInit, MarkedIsPublished
<1> QED
    BY <1>1, <1>2, <1>3 DEF IInv

\* The storage and topic part of a step, as far as the invariant needs it.
LEMMA MarksStayPublished ==
    ASSUME MarkedIsPublished, Published \subseteq Published',
           \A r \in events' :
              r.sent => r \in events \/ NotificationOf(r) \in Published'
    PROVE  MarkedIsPublished'
BY DEF MarkedIsPublished, NotificationOf

\* A step that leaves a scheduler's batch and location alone, or takes it out of
\* the loop, keeps what the loop knows.
LEMMA LoopKept ==
    ASSUME IInv, Published \subseteq Published',
           \A s \in Schedulers :
              \/ pc'[s] \notin {"publish", "mark"}
              \/ pc'[s] = pc[s] /\ batch'[s] = batch[s]
    PROVE  LoopHasEvent' /\ PublishedBeforeMark'
<1>1. LoopHasEvent'
    BY DEF IInv, LoopHasEvent
<1>2. PublishedBeforeMark'
    BY DEF IInv, PublishedBeforeMark, NotificationOf, Current
<1> QED
    BY <1>1, <1>2

\* A scheduler that is publishing has a row in hand.
LEMMA CurrentRow ==
    ASSUME IInv, NEW s \in Schedulers, pc[s] \in {"publish", "mark"}
    PROVE  /\ Current(s) \in batch[s]
           /\ Current(s) \in Row
           /\ NotificationOf(Current(s)) \in Notification
<1>1. batch[s] \subseteq Row /\ batch[s] # {}
    BY DEF IInv, TypeOK, LoopHasEvent
<1>2. Current(s) \in batch[s]
    BY <1>1, CurrentInBatch
<1> QED
    BY <1>1, <1>2, NotificationType

-----------------------------------------------------------------------------
(* One lemma per group of actions.                                          *)

LEMMA ReturnType ==
    ASSUME IInv, NEW s \in Schedulers, NEW to \in Locations \ {"publish", "mark"},
           Return(s, to)
    PROVE  /\ pc' \in [Schedulers -> Locations]
           /\ now' \in [Schedulers -> Nat]
           /\ batch' \in [Schedulers -> SUBSET Row]
           /\ full' \in [Schedulers -> BOOLEAN]
           /\ stale' \in [Schedulers -> BOOLEAN]
           /\ \A t \in Schedulers :
                 \/ pc'[t] \notin {"publish", "mark"}
                 \/ pc'[t] = pc[t] /\ batch'[t] = batch[t]
BY DEF IInv, TypeOK, Return, Goto, Locations

LEMMA FaultType ==
    ASSUME faults \in Nat, Fault
    PROVE  faults' \in Nat
BY DEF Fault

LEMMA BecomesLateType ==
    ASSUME IInv, NEW s \in Schedulers, BecomesLate(s)
    PROVE  late' \subseteq Notification
BY CurrentRow DEF BecomesLate, IInv, TypeOK, TopicTypeOK

\* Start, Tick, Cancel, Stop, Abort, Crash: the tables and the topic stay.
LEMMA ProcessStep ==
    ASSUME IInv, NEW s \in Schedulers,
           Start(s) \/ Tick(s) \/ Cancel(s) \/ Stop(s) \/ Abort(s) \/ Crash(s)
    PROVE  IInv'
<1> USE DEF topicVars, cycleVars, schedulerVars
<1>1. events' = events /\ topic' = topic
    BY DEF Start, Tick, Cancel, Stop, Abort, Crash
<1>2. Published' = Published
    BY <1>1 DEF Published
<1>3. MarkedIsPublished'
    BY <1>1, <1>2, MarksStayPublished DEF IInv
<1>4. /\ TypeOK'
      /\ \A t \in Schedulers :
            \/ pc'[t] \notin {"publish", "mark"}
            \/ pc'[t] = pc[t] /\ batch'[t] = batch[t]
    <2>1. CASE Start(s)
        BY <2>1 DEF IInv, TypeOK, StorageTypeOK, TopicTypeOK, Start, BeginCycle, Goto,
            Locations, InCycle
    <2>2. CASE Tick(s)
        BY <2>2 DEF IInv, TypeOK, StorageTypeOK, TopicTypeOK, Tick, BeginCycle, Goto,
            Locations, InCycle
    <2>3. CASE Cancel(s)
        BY <2>3, FaultType DEF IInv, TypeOK, StorageTypeOK, TopicTypeOK, Cancel
    <2>4. CASE Stop(s)
        BY <2>4 DEF IInv, TypeOK, StorageTypeOK, TopicTypeOK, Stop, Goto, Locations
    <2>5. CASE Abort(s)
        <3>1. Return(s, "wait") /\ "wait" \in Locations \ {"publish", "mark"}
            BY <2>5 DEF Abort, Locations
        <3> QED
            BY <2>5, <3>1, ReturnType DEF IInv, TypeOK, StorageTypeOK, TopicTypeOK, Abort
    <2>6. CASE Crash(s)
        <3>1. Return(s, "down") /\ "down" \in Locations \ {"publish", "mark"}
            BY <2>6 DEF Crash, Locations
        <3>2. late' \subseteq Notification
            BY <2>6, BecomesLateType DEF Crash, IInv, TypeOK, TopicTypeOK
        <3>3. faults' \in Nat
            BY <2>6, FaultType DEF Crash, IInv, TypeOK
        <3> QED
            BY <2>6, <3>1, <3>2, <3>3, ReturnType
            DEF IInv, TypeOK, StorageTypeOK, TopicTypeOK, Crash
    <2> QED
        BY <2>1, <2>2, <2>3, <2>4, <2>5, <2>6
<1> QED
    BY <1>2, <1>3, <1>4, LoopKept DEF IInv

\* DeleteEventsBefore and ListEventsForNotification.
LEMMA ReadStep ==
    ASSUME IInv, NEW s \in Schedulers, Cleanup(s) \/ List(s)
    PROVE  IInv'
<1> USE DEF topicVars, cycleVars, schedulerVars
<1>1. CASE Cleanup(s)
    <2>1. Expired(s) \in Int
        BY SchedulerAssumption DEF Expired, IInv, TypeOK
    <2>2. events' \subseteq Row /\ \A r \in events' : r.sent => r \in events
        BY <1>1, <2>1, EditKeepsMarks DEF Cleanup, IInv, TypeOK, StorageTypeOK
    <2>3. Published' = Published
        BY <1>1 DEF Cleanup, Published
    <2>4. MarkedIsPublished'
        BY <2>2, <2>3, MarksStayPublished DEF IInv
    <2>5. TypeOK'
        BY <1>1, <2>2 DEF Cleanup, Goto, Locations, InCycle, IInv, TypeOK, StorageTypeOK,
            TopicTypeOK
    <2>6. LoopHasEvent' /\ PublishedBeforeMark'
        BY <1>1, <2>3, LoopKept DEF Cleanup, Goto, IInv, TypeOK
    <2> QED
        BY <2>4, <2>5, <2>6 DEF IInv
<1>2. CASE List(s)
    <2> DEFINE due == ListEventsForNotification(now[s], BatchSize)
    <2>1. due \subseteq Row
        BY DEF ListEventsForNotification, IInv, TypeOK, StorageTypeOK
    <2>2. Published' = Published /\ events' = events
        BY <1>2 DEF List, Published
    <2>3. MarkedIsPublished'
        BY <2>2, MarksStayPublished DEF IInv
    <2>4. CASE Return(s, "wait")
        <3>1. "wait" \in Locations \ {"publish", "mark"}
            BY DEF Locations
        <3>2. TypeOK'
            BY <1>2, <2>4, <3>1, ReturnType DEF List, IInv, TypeOK, StorageTypeOK, TopicTypeOK
        <3>3. LoopHasEvent' /\ PublishedBeforeMark'
            BY <2>2, <2>4, <3>1, ReturnType, LoopKept
        <3> QED
            BY <2>3, <3>2, <3>3 DEF IInv
    <2>5. CASE /\ due # {}
               /\ Goto(s, "publish")
               /\ batch' = [batch EXCEPT ![s] = due]
               /\ full' = [full EXCEPT ![s] = Cardinality(due) = BatchSize]
               /\ stale' = [stale EXCEPT ![s] = FALSE]
               /\ UNCHANGED now
        <3>1. TypeOK'
            BY <1>2, <2>1, <2>5 DEF List, Goto, Locations, InCycle, IInv, TypeOK,
                StorageTypeOK, TopicTypeOK
        <3>2. LoopHasEvent'
            BY <2>5 DEF Goto, IInv, TypeOK, LoopHasEvent
        <3>3. PublishedBeforeMark'
            BY <2>2, <2>5 DEF Goto, IInv, TypeOK, PublishedBeforeMark, NotificationOf, Current
        <3> QED
            BY <2>3, <3>1, <3>2, <3>3 DEF IInv
    <2> QED
        BY <1>2, <2>4, <2>5 DEF List
<1> QED
    BY <1>1, <1>2

\* An acknowledged Send: the scheduler goes on to the mark of the same event.
LEMMA PublishStep ==
    ASSUME IInv, NEW s \in Schedulers, Publish(s) \/ PublishRetried(s)
    PROVE  IInv'
<1> USE DEF topicVars, cycleVars, schedulerVars
<1> DEFINE m == NotificationOf(Current(s))
<1>1. pc[s] = "publish"
    BY DEF Publish, PublishRetried, BecomesLate
<1>2. m \in Notification /\ m \in Payload
    BY <1>1, CurrentRow DEF Payload
<1>3. topic' \in Seq(Payload) /\ Published' = Published \cup {m}
    BY <1>2, AppendGrows DEF Publish, PublishRetried, IInv, TypeOK, TopicTypeOK
<1>4. /\ events' = events /\ batch' = batch
      /\ pc' = [pc EXCEPT ![s] = "mark"]
    BY DEF Publish, PublishRetried, Goto
<1>5. TypeOK'
    <2>1. late' \subseteq Notification
        BY BecomesLateType DEF Publish, PublishRetried, IInv, TypeOK, TopicTypeOK
    <2>2. faults' \in Nat
        BY FaultType DEF Publish, PublishRetried, IInv, TypeOK
    <2> QED
        BY <1>3, <1>4, <2>1, <2>2 DEF Publish, PublishRetried, Locations, InCycle, IInv,
            TypeOK, StorageTypeOK, TopicTypeOK
<1>6. MarkedIsPublished'
    BY <1>3, <1>4, MarksStayPublished DEF IInv
<1>7. LoopHasEvent'
    BY <1>1, <1>4 DEF IInv, TypeOK, LoopHasEvent
<1>8. PublishedBeforeMark'
    <2> SUFFICES ASSUME NEW t \in Schedulers, pc'[t] = "mark"
                 PROVE  NotificationOf(Current(t))' \in Published'
        BY DEF PublishedBeforeMark
    <2>1. NotificationOf(Current(t))' = NotificationOf(Current(t))
        BY <1>4 DEF NotificationOf, Current
    <2>2. CASE t = s
        BY <1>3, <2>1, <2>2
    <2>3. CASE t # s
        BY <1>3, <1>4, <2>1, <2>3 DEF IInv, TypeOK, PublishedBeforeMark
    <2> QED
        BY <2>2, <2>3
<1> QED
    BY <1>5, <1>6, <1>7, <1>8 DEF IInv

\* The mark of the event in hand, and where the loop goes from there.
LEMMA MarkStep ==
    ASSUME IInv, NEW s \in Schedulers, Mark(s)
    PROVE  IInv'
<1> USE DEF topicVars, cycleVars, schedulerVars
<1> DEFINE e == Current(s)
           rest == batch[s] \ {e}
           isStale == stale[s] \/ ~WillMark(e)
<1>1. pc[s] = "mark" /\ NotificationOf(e) \in Published
    BY DEF Mark, IInv, PublishedBeforeMark
<1>2. /\ events' \subseteq Row
      /\ \A r \in events' : r.sent => r \in events \/ SameSnapshot(r, e)
    BY MarkTouchesSnapshot DEF Mark, IInv, TypeOK, StorageTypeOK
<1>3. Published' = Published
    BY DEF Mark, Published
<1>4. MarkedIsPublished'
    BY <1>1, <1>2, <1>3, SameNotification, MarksStayPublished DEF IInv
<1>5. rest \subseteq Row
    BY DEF IInv, TypeOK
<1>6. isStale \in BOOLEAN
    BY DEF IInv, TypeOK, WillMark
<1>7. CASE /\ rest # {}
           /\ Goto(s, "publish")
           /\ batch' = [batch EXCEPT ![s] = rest]
           /\ stale' = [stale EXCEPT ![s] = isStale]
           /\ UNCHANGED <<now, full>>
    <2>1. TypeOK'
        BY <1>2, <1>5, <1>6, <1>7 DEF Mark, Goto, Locations, InCycle, IInv, TypeOK,
            StorageTypeOK, TopicTypeOK
    <2>2. LoopHasEvent'
        BY <1>7 DEF Goto, IInv, TypeOK, LoopHasEvent
    <2>3. PublishedBeforeMark'
        BY <1>3, <1>7 DEF Goto, IInv, TypeOK, PublishedBeforeMark, NotificationOf, Current
    <2> QED
        BY <1>4, <2>1, <2>2, <2>3 DEF IInv
<1>8. CASE /\ Goto(s, "list")
           /\ batch' = [batch EXCEPT ![s] = {}]
           /\ full' = [full EXCEPT ![s] = FALSE]
           /\ stale' = [stale EXCEPT ![s] = FALSE]
           /\ UNCHANGED now
    <2>1. TypeOK'
        BY <1>2, <1>8 DEF Mark, Goto, Locations, InCycle, IInv, TypeOK, StorageTypeOK,
            TopicTypeOK
    <2>2. LoopHasEvent' /\ PublishedBeforeMark'
        BY <1>3, <1>8, LoopKept DEF Goto, IInv, TypeOK
    <2> QED
        BY <1>4, <2>1, <2>2 DEF IInv
<1>9. CASE Return(s, "wait")
    <2>1. "wait" \in Locations \ {"publish", "mark"}
        BY DEF Locations
    <2>2. TypeOK'
        BY <1>2, <1>9, <2>1, ReturnType DEF Mark, IInv, TypeOK, StorageTypeOK, TopicTypeOK
    <2>3. LoopHasEvent' /\ PublishedBeforeMark'
        BY <1>3, <1>9, <2>1, ReturnType, LoopKept
    <2> QED
        BY <1>4, <2>2, <2>3 DEF IInv
<1> QED
    BY <1>7, <1>8, <1>9 DEF Mark, AfterMark

\* A call that fails may have had its effect, but the cycle is over.
LEMMA FailedCallStep ==
    ASSUME IInv, NEW s \in Schedulers, CallFails(s)
    PROVE  IInv'
<1> USE DEF topicVars, cycleVars, schedulerVars
<1>1. Return(s, "wait") /\ "wait" \in Locations \ {"publish", "mark"}
    BY DEF CallFails, Locations
<1>2. faults' \in Nat
    BY FaultType DEF CallFails, IInv, TypeOK
<1>3. /\ events' \subseteq Row
      /\ topic' \in Seq(Payload)
      /\ late' \subseteq Notification
      /\ Published \subseteq Published'
      /\ \A r \in events' : r.sent => r \in events \/ NotificationOf(r) \in Published'
    <2>1. CASE UNCHANGED <<events, topicVars>>
        BY <2>1 DEF IInv, TypeOK, StorageTypeOK, TopicTypeOK, Published
    <2>2. CASE DeleteEventsBefore(Expired(s)) /\ UNCHANGED topicVars
        <3>1. Expired(s) \in Int
            BY SchedulerAssumption DEF Expired, IInv, TypeOK
        <3> QED
            BY <2>2, <3>1, EditKeepsMarks DEF IInv, TypeOK, StorageTypeOK, TopicTypeOK, Published
    <2>3. CASE pc[s] = "mark" /\ MarkNotificationSent(Current(s)) /\ UNCHANGED topicVars
        <3>1. NotificationOf(Current(s)) \in Published
            BY <2>3 DEF IInv, PublishedBeforeMark
        <3>2. Published' = Published
            BY <2>3 DEF Published
        <3> QED
            BY <2>3, <3>1, <3>2, MarkTouchesSnapshot, SameNotification
            DEF IInv, TypeOK, StorageTypeOK, TopicTypeOK
    <2>4. CASE /\ pc[s] = "publish"
               /\ AppendToTopic(NotificationOf(Current(s)))
               /\ UNCHANGED <<events, late>>
        <3>1. NotificationOf(Current(s)) \in Payload
            BY <2>4, CurrentRow DEF Payload
        <3> QED
            BY <2>4, <3>1, AppendGrows DEF IInv, TypeOK, StorageTypeOK, TopicTypeOK
    <2>5. CASE BecomesLate(s) /\ UNCHANGED <<events, topic>>
        BY <2>5, BecomesLateType DEF IInv, TypeOK, StorageTypeOK, TopicTypeOK, Published
    <2> QED
        BY <2>1, <2>2, <2>3, <2>4, <2>5 DEF CallFails
<1>4. TypeOK'
    BY <1>1, <1>2, <1>3, ReturnType DEF CallFails, IInv, TypeOK, StorageTypeOK, TopicTypeOK
<1>5. MarkedIsPublished'
    BY <1>3, MarksStayPublished DEF IInv
<1>6. LoopHasEvent' /\ PublishedBeforeMark'
    BY <1>1, <1>3, ReturnType, LoopKept
<1> QED
    BY <1>4, <1>5, <1>6 DEF IInv

\* Clients, late writes and time.
LEMMA EnvironmentStep ==
    ASSUME IInv, ClientWrites \/ ClientDeletes \/ LateWriteLands \/ TimePasses
    PROVE  IInv'
<1> USE DEF topicVars, cycleVars, schedulerVars
<1>1. /\ events' \subseteq Row
      /\ topic' \in Seq(Payload)
      /\ late' \subseteq Notification
      /\ Published \subseteq Published'
      /\ \A r \in events' : r.sent => r \in events
      /\ clock' \in Nat /\ writes' \in Nat /\ faults' \in Nat
    <2>1. CASE ClientWrites \/ ClientDeletes
        <3>1. events' \subseteq Row /\ \A r \in events' : r.sent => r \in events
            BY <2>1, EditKeepsMarks DEF ClientWrites, ClientDeletes, IInv, TypeOK, StorageTypeOK
        <3> QED
            BY <2>1, <3>1 DEF ClientWrites, ClientDeletes, IInv, TypeOK, TopicTypeOK, Published
    <2>2. CASE LateWriteLands
        <3>1. PICK p \in late : AppendToTopic(p) /\ late' \subseteq late
            BY <2>2 DEF LateWriteLands, LateAppend
        <3>2. p \in Payload
            BY DEF IInv, TypeOK, TopicTypeOK, Payload
        <3>3. topic' \in Seq(Payload) /\ Published \subseteq Published'
            BY <3>1, <3>2, AppendGrows DEF IInv, TypeOK, TopicTypeOK
        <3>4. faults' \in Nat
            BY <2>2, FaultType DEF LateWriteLands, IInv, TypeOK
        <3> QED
            BY <2>2, <3>1, <3>3, <3>4 DEF LateWriteLands, IInv, TypeOK, StorageTypeOK, TopicTypeOK
    <2>3. CASE TimePasses
        BY <2>3 DEF TimePasses, IInv, TypeOK, StorageTypeOK, TopicTypeOK, Published
    <2> QED
        BY <2>1, <2>2, <2>3
<1>2. UNCHANGED schedulerVars
    BY DEF ClientWrites, ClientDeletes, LateWriteLands, TimePasses
<1>3. TypeOK'
    BY <1>1, <1>2 DEF IInv, TypeOK, StorageTypeOK, TopicTypeOK
<1>4. MarkedIsPublished'
    BY <1>1, MarksStayPublished DEF IInv
<1>5. LoopHasEvent' /\ PublishedBeforeMark'
    BY <1>1, <1>2, LoopKept DEF IInv
<1> QED
    BY <1>3, <1>4, <1>5 DEF IInv

LEMMA StutterStep ==
    ASSUME IInv, UNCHANGED vars
    PROVE  IInv'
<1>1. TypeOK'
    BY DEF vars, IInv, TypeOK, StorageTypeOK, TopicTypeOK
<1>2. Published' = Published
    BY DEF vars, Published
<1>3. MarkedIsPublished'
    BY <1>2, MarksStayPublished DEF vars, IInv
<1>4. LoopHasEvent' /\ PublishedBeforeMark'
    BY <1>2, LoopKept DEF vars, IInv
<1> QED
    BY <1>1, <1>3, <1>4 DEF IInv

\* Every step of the clients, the schedulers and Kafka keeps the invariant.
THEOREM NextIInv == IInv /\ [Next]_vars => IInv'
<1> SUFFICES ASSUME IInv, [Next]_vars PROVE IInv'
    OBVIOUS
<1>1. CASE \E s \in Schedulers : SchedulerStep(s)
    BY <1>1, ProcessStep, ReadStep, PublishStep, MarkStep, FailedCallStep
    DEF SchedulerStep, RunOnce
<1>2. CASE ClientWrites \/ ClientDeletes \/ LateWriteLands \/ TimePasses
    BY <1>2, EnvironmentStep
<1>3. CASE UNCHANGED vars
    BY <1>3, StutterStep
<1> QED
    BY <1>1, <1>2, <1>3 DEF Next

\* Type correctness of the scheduler, the events table and the topic.
THEOREM SchedulerTypeCorrect == Spec => []TypeOK
<1>1. IInv => TypeOK
    BY DEF IInv
<1> QED
    BY <1>1, InitIInv, NextIInv, PTL DEF Spec

\* A marked event is one whose current notification is in the topic: for any
\* number of schedulers, any client calls and any failures, a mark never hides a
\* reminder that did not go out.
THEOREM MarkedIsAlwaysPublished == Spec => []MarkedIsPublished
<1>1. IInv => MarkedIsPublished
    BY DEF IInv
<1> QED
    BY <1>1, InitIInv, NextIInv, PTL DEF Spec

-----------------------------------------------------------------------------
(* The bookings.                                                            *)

\* The scheduler side changes the events table by one statement per step.
LEMMA EventsStep ==
    ASSUME IInv, [Next]_vars
    PROVE  \/ events' = events
           \/ \E c \in Int : DeleteEventsBefore(c)
           \/ \E s \in Schedulers : pc[s] = "mark" /\ MarkNotificationSent(Current(s))
           \/ \E e \in Requests : CreateEvent(e) \/ UpdateEvent(e)
           \/ \E r \in events : DeleteEvent(r.id)
<1> USE DEF topicVars, cycleVars, schedulerVars
<1>1. ASSUME NEW s \in Schedulers PROVE Expired(s) \in Int
    BY SchedulerAssumption DEF Expired, IInv, TypeOK
<1>2. ASSUME NEW s \in Schedulers, SchedulerStep(s)
      PROVE  \/ events' = events
             \/ DeleteEventsBefore(Expired(s))
             \/ pc[s] = "mark" /\ MarkNotificationSent(Current(s))
    BY <1>2 DEF SchedulerStep, RunOnce, Cleanup, List, Publish, Mark, Abort, Start,
        Tick, Stop, Cancel, Crash, PublishRetried, CallFails
<1>3. CASE ClientWrites \/ ClientDeletes \/ LateWriteLands \/ TimePasses
    BY <1>3 DEF ClientWrites, ClientDeletes, LateWriteLands, TimePasses
<1>4. CASE UNCHANGED vars
    BY <1>4 DEF vars
<1> QED
    BY <1>1, <1>2, <1>3, <1>4 DEF Next

\* events_no_overlap and the primary key, seen from the row a client submits.
LEMMA FreeForRow ==
    ASSUME events \subseteq Row, NEW e \in Requests, ValidateEvent(e), ~DateBusy(e)
    PROVE  \A r \in events :
               r.id # e.id /\ r.userID = e.userID =>
                   NewRow(e).endAt <= r.startAt \/ r.endAt <= NewRow(e).startAt
<1> SUFFICES ASSUME NEW r \in events, r.id # e.id, r.userID = e.userID
             PROVE  NewRow(e).endAt <= r.startAt \/ r.endAt <= NewRow(e).startAt
    OBVIOUS
<1>1. ~(r.startAt < e.endAt /\ e.startAt < r.endAt)
    BY DEF DateBusy, Overlap
<1>2. r.startAt \in Nat /\ r.endAt \in Nat /\ e.startAt \in Nat /\ e.endAt \in Nat
    BY RequestsAssumption DEF Row, Event
<1> QED
    BY <1>1, <1>2 DEF NewRow

\* Creation and update keep ids unique and bookings apart.
LEMMA WriteKeepsBookings ==
    ASSUME events \subseteq Row, BookingsConsistent, NEW e \in Requests,
           CreateEvent(e) \/ UpdateEvent(e)
    PROVE  BookingsConsistent'
<1>1. \A r \in events' : r = NewRow(e) \/ (r \in events /\ r.id # e.id)
    BY DEF CreateEvent, UpdateEvent, HasId
<1>2. NewRow(e).id = e.id /\ NewRow(e).userID = e.userID
    BY DEF NewRow
<1>3. \A r \in events :
          r.id # e.id /\ r.userID = e.userID =>
              NewRow(e).endAt <= r.startAt \/ r.endAt <= NewRow(e).startAt
    BY FreeForRow DEF CreateEvent, UpdateEvent
<1>4. UniqueIds'
    BY <1>1, <1>2 DEF BookingsConsistent, UniqueIds
<1>5. NoDoubleBooking'
    BY <1>1, <1>2, <1>3 DEF BookingsConsistent, NoDoubleBooking
<1> QED
    BY <1>4, <1>5 DEF BookingsConsistent

\* A mark changes no id, no user and no period.
LEMMA MarkKeepsBookings ==
    ASSUME events \subseteq Row, BookingsConsistent, NEW e, MarkNotificationSent(e)
    PROVE  BookingsConsistent'
<1>1. \A r \in events' : \E q \in events :
          /\ r = IF q \in SnapshotRows(e) THEN [q EXCEPT !.sent = TRUE] ELSE q
          /\ r.id = q.id /\ r.userID = q.userID
          /\ r.startAt = q.startAt /\ r.endAt = q.endAt
    <2> TAKE r \in events'
    <2>1. PICK q \in events : r = IF q \in SnapshotRows(e) THEN [q EXCEPT !.sent = TRUE] ELSE q
        BY DEF MarkNotificationSent
    <2>2. /\ r.id = q.id /\ r.userID = q.userID
          /\ r.startAt = q.startAt /\ r.endAt = q.endAt
        BY <2>1 DEF Row
    <2> QED
        BY <2>1, <2>2
<1>2. UniqueIds'
    <2> SUFFICES ASSUME NEW p \in events', NEW q \in events', p.id = q.id
                 PROVE  p = q
        BY DEF UniqueIds
    <2>1. PICK p0 \in events :
              /\ p = IF p0 \in SnapshotRows(e) THEN [p0 EXCEPT !.sent = TRUE] ELSE p0
              /\ p.id = p0.id
        BY <1>1
    <2>2. PICK q0 \in events :
              /\ q = IF q0 \in SnapshotRows(e) THEN [q0 EXCEPT !.sent = TRUE] ELSE q0
              /\ q.id = q0.id
        BY <1>1
    <2>3. p0 = q0
        BY <2>1, <2>2 DEF BookingsConsistent, UniqueIds
    <2> QED
        BY <2>1, <2>2, <2>3
<1>3. NoDoubleBooking'
    <2> SUFFICES ASSUME NEW p \in events', NEW q \in events', p # q, p.userID = q.userID
                 PROVE  p.endAt <= q.startAt \/ q.endAt <= p.startAt
        BY DEF NoDoubleBooking
    <2>1. PICK p0 \in events :
              /\ p = IF p0 \in SnapshotRows(e) THEN [p0 EXCEPT !.sent = TRUE] ELSE p0
              /\ p.userID = p0.userID /\ p.startAt = p0.startAt /\ p.endAt = p0.endAt
        BY <1>1
    <2>2. PICK q0 \in events :
              /\ q = IF q0 \in SnapshotRows(e) THEN [q0 EXCEPT !.sent = TRUE] ELSE q0
              /\ q.userID = q0.userID /\ q.startAt = q0.startAt /\ q.endAt = q0.endAt
        BY <1>1
    <2>3. p0 # q0
        BY <2>1, <2>2
    <2> QED
        BY <2>1, <2>2, <2>3 DEF BookingsConsistent, NoDoubleBooking
<1> QED
    BY <1>2, <1>3 DEF BookingsConsistent

\* No step of a client, a scheduler or a failure spoils the bookings.
LEMMA NextBookings ==
    ASSUME IInv, BookingsConsistent, [Next]_vars
    PROVE  BookingsConsistent'
<1>1. events \subseteq Row
    BY DEF IInv, TypeOK, StorageTypeOK
<1>2. CASE events' \subseteq events
    BY <1>2 DEF BookingsConsistent, UniqueIds, NoDoubleBooking
<1>3. \/ events' \subseteq events
      \/ \E e \in Requests : CreateEvent(e) \/ UpdateEvent(e)
      \/ \E e : MarkNotificationSent(e)
    BY EventsStep DEF DeleteEvent, DeleteEventsBefore
<1> QED
    BY <1>1, <1>2, <1>3, WriteKeepsBookings, MarkKeepsBookings

\* Nobody is booked twice and an id names one event: for any requests, any number
\* of schedulers and any failures, CreateEvent and UpdateEvent with their checks
\* keep the table consistent, and nothing the schedulers do to it spoils that.
THEOREM BookingsAlwaysConsistent == Spec => []BookingsConsistent
<1>1. Init => BookingsConsistent
    BY DEF Init, StorageInit, BookingsConsistent, UniqueIds, NoDoubleBooking
<1>2. IInv /\ BookingsConsistent /\ [Next]_vars => IInv' /\ BookingsConsistent'
    BY NextIInv, NextBookings
<1> QED
    BY <1>1, <1>2, InitIInv, PTL DEF Spec

-----------------------------------------------------------------------------
(* One scheduler, no late writes: the mark is the last word.                *)

\* What has been listed cannot be marked by anyone else before its turn: nothing
\* in hand has a marked row, and an event is in hand once.
InHandUnsent ==
    \A s \in Schedulers : \A e \in batch[s], r \in events : r.id = e.id => ~r.sent
DistinctInHand ==
    \A s \in Schedulers : \A p, q \in batch[s] : p.id = q.id => p = q

\* At the mark, what was published last about the event is the snapshot in hand.
CurrentIsLastWord ==
    \A s \in Schedulers :
        pc[s] = "mark" => LastWordOn(Current(s).id, NotificationOf(Current(s)))

SoleInv == late = {} /\ InHandUnsent /\ DistinctInHand /\ CurrentIsLastWord /\ MarkIsLastWord

\* With MaxLate = 0 no write becomes late.
LEMMA NeverLate ==
    ASSUME MaxLate = 0, late = {}, NEW s, BecomesLate(s)
    PROVE  FALSE
BY FS_EmptySet DEF BecomesLate

\* A payload that is not about the event leaves its last word alone.
LEMMA LastWordKept ==
    ASSUME topic \in Seq(Payload), NEW p, topic' = Append(topic, p),
           NEW id, NEW m, LastWordOn(id, m), p # Malformed => p.eventID # id
    PROVE  LastWordOn(id, m)'
<1>1. PICK i \in 1..Len(topic) :
          /\ topic[i] = m
          /\ \A j \in (i + 1)..Len(topic) : topic[j] # Malformed => topic[j].eventID # id
    BY DEF LastWordOn
<1>2. /\ Len(topic') = Len(topic) + 1 /\ topic'[Len(topic) + 1] = p
      /\ \A j \in 1..Len(topic) : topic'[j] = topic[j]
    OBVIOUS
<1>3. i \in 1..Len(topic') /\ topic'[i] = m
    BY <1>1, <1>2
<1>4. ASSUME NEW j \in (i + 1)..Len(topic'), topic'[j] # Malformed
      PROVE  topic'[j].eventID # id
    <2>1. j = Len(topic) + 1 \/ j \in (i + 1)..Len(topic)
        BY <1>2, <1>4
    <2> QED
        BY <1>1, <1>2, <1>4, <2>1
<1> QED
    BY <1>3, <1>4 DEF LastWordOn

\* What is appended is the last word on its event.
LEMMA LastWordAppended ==
    ASSUME topic \in Seq(Payload), NEW p, topic' = Append(topic, p), NEW id
    PROVE  LastWordOn(id, p)'
<1>1. Len(topic') = Len(topic) + 1 /\ topic'[Len(topic) + 1] = p /\ Len(topic) \in Nat
    OBVIOUS
<1> QED
    BY <1>1 DEF LastWordOn

\* The topic decides what the last word is.
LEMMA LastWordUnchanged ==
    ASSUME topic' = topic, NEW id, NEW m
    PROVE  LastWordOn(id, m)' <=> LastWordOn(id, m)
BY DEF LastWordOn

\* Steps that publish and mark nothing, and leave the batch or drop it.
LEMMA SoleKept ==
    ASSUME SoleInv, topic' = topic, late' = late,
           \A r \in events' : r.sent => r \in events,
           \A s \in Schedulers :
              \/ batch'[s] = batch[s] /\ (pc'[s] = "mark" => pc[s] = "mark")
              \/ batch'[s] = {} /\ pc'[s] # "mark"
    PROVE  SoleInv'
<1>1. late' = {} /\ InHandUnsent' /\ DistinctInHand'
    BY DEF SoleInv, InHandUnsent, DistinctInHand
<1>2. CurrentIsLastWord'
    BY LastWordUnchanged DEF SoleInv, CurrentIsLastWord, Current, NotificationOf
<1>3. MarkIsLastWord'
    BY LastWordUnchanged DEF SoleInv, MarkIsLastWord, NotificationOf
<1> QED
    BY <1>1, <1>2, <1>3 DEF SoleInv

\* A fresh batch holds unmarked rows of the table, each id once.
LEMMA SoleList ==
    ASSUME IInv, UniqueIds, SoleInv, NEW s \in Schedulers,
           NEW due, due \subseteq {r \in events : ~r.sent},
           pc' = [pc EXCEPT ![s] = "publish"], batch' = [batch EXCEPT ![s] = due],
           UNCHANGED <<events, topic, late>>
    PROVE  SoleInv'
<1>1. InHandUnsent'
    BY DEF UniqueIds, SoleInv, InHandUnsent, IInv, TypeOK
<1>2. DistinctInHand'
    BY DEF UniqueIds, SoleInv, DistinctInHand, IInv, TypeOK
<1>3. CurrentIsLastWord'
    BY LastWordUnchanged DEF SoleInv, CurrentIsLastWord, Current, NotificationOf, IInv, TypeOK
<1>4. MarkIsLastWord'
    BY LastWordUnchanged DEF SoleInv, MarkIsLastWord, NotificationOf
<1> QED
    BY <1>1, <1>2, <1>3, <1>4 DEF SoleInv

\* Publishing a snapshot in hand overrides the last word of no marked event.
LEMMA PublishSparesMarked ==
    ASSUME IInv, SoleInv, NEW s \in Schedulers, pc[s] = "publish",
           AppendToTopic(NotificationOf(Current(s))), UNCHANGED events
    PROVE  MarkIsLastWord'
<1> DEFINE e == Current(s)
<1>1. e \in batch[s] /\ topic \in Seq(Payload)
    BY CurrentRow DEF IInv, TypeOK, TopicTypeOK
<1> SUFFICES ASSUME NEW r \in events, r.sent
             PROVE  LastWordOn(r.id, NotificationOf(r))'
    BY DEF MarkIsLastWord, NotificationOf
<1>2. NotificationOf(e).eventID # r.id
    BY <1>1 DEF SoleInv, InHandUnsent, NotificationOf
<1>3. LastWordOn(r.id, NotificationOf(r))
    BY DEF SoleInv, MarkIsLastWord
<1> QED
    BY <1>1, <1>2, <1>3, LastWordKept DEF AppendToTopic

\* Marking the published snapshot in hand: its row is marked with its last word,
\* and no other event in hand has a marked row.
LEMMA MarkIsCovered ==
    ASSUME IInv, SoleInv, NEW s \in Schedulers, pc[s] = "mark",
           MarkNotificationSent(Current(s)), topic' = topic
    PROVE  /\ MarkIsLastWord'
           /\ \A q \in batch[s] \ {Current(s)}, r \in events' : r.id = q.id => ~r.sent
<1> DEFINE e == Current(s)
<1>1. e \in batch[s] /\ events \subseteq Row
    BY CurrentRow DEF IInv, TypeOK, StorageTypeOK
<1>2. \A r \in events' : r.sent => r \in events \/ SameSnapshot(r, e)
    BY <1>1, MarkTouchesSnapshot
<1>3. MarkIsLastWord'
    <2> SUFFICES ASSUME NEW r \in events', r.sent
                 PROVE  LastWordOn(r.id, NotificationOf(r))
        BY LastWordUnchanged DEF MarkIsLastWord, NotificationOf
    <2>1. CASE r \in events
        BY <2>1 DEF SoleInv, MarkIsLastWord
    <2>2. CASE SameSnapshot(r, e)
        <3>1. LastWordOn(e.id, NotificationOf(e))
            BY DEF SoleInv, CurrentIsLastWord
        <3>2. r.id = e.id /\ NotificationOf(r) = NotificationOf(e)
            BY <2>2, SameNotification DEF SameSnapshot
        <3> QED
            BY <3>1, <3>2
    <2> QED
        BY <1>2, <2>1, <2>2
<1>4. ASSUME NEW q \in batch[s] \ {e}, NEW r \in events', r.id = q.id
      PROVE  ~r.sent
    <2>1. q.id # e.id
        BY <1>1 DEF SoleInv, DistinctInHand
    <2> QED
        BY <1>2, <1>4, <2>1 DEF SoleInv, InHandUnsent, SameSnapshot
<1> QED
    BY <1>3, <1>4

Sole == MaxLate = 0 /\ \A s, t \in Schedulers : s = t

\* The steps of the only scheduler.
LEMMA SoleScheduler ==
    ASSUME Sole, IInv, UniqueIds, SoleInv, NEW s \in Schedulers, SchedulerStep(s)
    PROVE  SoleInv'
<1> USE DEF topicVars, cycleVars, schedulerVars
<1>1. /\ pc \in [Schedulers -> Locations] /\ batch \in [Schedulers -> SUBSET Row]
      /\ topic \in Seq(Payload) /\ late = {} /\ ~BecomesLate(s)
    BY NeverLate DEF Sole, IInv, TypeOK, TopicTypeOK, SoleInv
<1>2. ASSUME NEW to \in {"wait", "down"}, Return(s, to),
             events' \subseteq events, topic' = topic, late' = late
      PROVE  SoleInv'
    <2>1. \A t \in Schedulers :
              \/ batch'[t] = batch[t] /\ (pc'[t] = "mark" => pc[t] = "mark")
              \/ batch'[t] = {} /\ pc'[t] # "mark"
        BY <1>1, <1>2 DEF Return, Goto
    <2> QED
        BY <1>2, <2>1, SoleKept
<1>3. CASE Start(s) \/ Tick(s) \/ Cancel(s) \/ Stop(s)
    <2>1. /\ UNCHANGED <<events, topic, late, batch>>
          /\ \A t \in Schedulers : pc'[t] = "mark" => pc[t] = "mark"
        BY <1>1, <1>3 DEF Start, Tick, Cancel, Stop, BeginCycle, Goto
    <2> QED
        BY <2>1, SoleKept
<1>4. CASE Abort(s) \/ Crash(s)
    BY <1>1, <1>2, <1>4 DEF Abort, Crash
<1>5. CASE Cleanup(s)
    <2>1. /\ events' \subseteq events /\ UNCHANGED <<topic, late, batch>>
          /\ \A t \in Schedulers : pc'[t] = "mark" => pc[t] = "mark"
        BY <1>1, <1>5 DEF Cleanup, DeleteEventsBefore, Goto
    <2> QED
        BY <2>1, SoleKept
<1>6. CASE List(s)
    <2> DEFINE due == ListEventsForNotification(now[s], BatchSize)
    <2>1. due \subseteq {r \in events : ~r.sent}
        BY DEF ListEventsForNotification, ReadyForNotification
    <2>2. UNCHANGED <<events, topic, late>>
        BY <1>6 DEF List
    <2>3. \/ Return(s, "wait")
          \/ Goto(s, "publish") /\ batch' = [batch EXCEPT ![s] = due]
        BY <1>6 DEF List
    <2> HIDE DEF due
    <2> QED
        BY <1>2, <2>1, <2>2, <2>3, SoleList DEF Goto
<1>7. CASE Publish(s) \/ PublishRetried(s)
    <2>1. /\ pc[s] = "publish" /\ AppendToTopic(NotificationOf(Current(s)))
          /\ UNCHANGED <<events, late, batch>> /\ pc' = [pc EXCEPT ![s] = "mark"]
        BY <1>1, <1>7 DEF Publish, PublishRetried, Goto
    <2>2. MarkIsLastWord'
        BY <2>1, PublishSparesMarked
    <2>3. InHandUnsent' /\ DistinctInHand' /\ late' = {}
        BY <2>1 DEF SoleInv, InHandUnsent, DistinctInHand
    <2>4. LastWordOn(Current(s).id, NotificationOf(Current(s)))'
        <3>1. Current(s)' = Current(s) /\ NotificationOf(Current(s))' = NotificationOf(Current(s))
            BY <2>1 DEF Current, NotificationOf
        <3> QED
            BY <1>1, <2>1, <3>1, LastWordAppended DEF AppendToTopic, LastWordOn
    <2>5. CurrentIsLastWord'
        BY <2>4 DEF Sole, CurrentIsLastWord
    <2> QED
        BY <2>2, <2>3, <2>5 DEF SoleInv
<1>8. CASE Mark(s)
    <2> DEFINE rest == batch[s] \ {Current(s)}
    <2>1. pc[s] = "mark" /\ MarkNotificationSent(Current(s)) /\ UNCHANGED <<topic, late>>
        BY <1>8 DEF Mark
    <2>2. /\ MarkIsLastWord'
          /\ \A q \in rest, r \in events' : r.id = q.id => ~r.sent
        BY <2>1, MarkIsCovered
    <2>3. batch'[s] \subseteq rest /\ pc'[s] # "mark"
        BY <1>1, <1>8 DEF Mark, AfterMark, Return, Goto
    <2>4. InHandUnsent'
        BY <2>2, <2>3 DEF Sole, InHandUnsent
    <2>5. DistinctInHand'
        BY <2>3 DEF Sole, SoleInv, DistinctInHand
    <2>6. CurrentIsLastWord'
        BY <2>3 DEF Sole, CurrentIsLastWord
    <2> QED
        BY <1>1, <2>1, <2>2, <2>4, <2>5, <2>6 DEF SoleInv
<1>9. CASE CallFails(s)
    <2>1. Return(s, "wait") /\ batch'[s] = {} /\ pc'[s] # "mark"
        BY <1>1, <1>9 DEF CallFails, Return, Goto
    <2>2. InHandUnsent' /\ DistinctInHand' /\ CurrentIsLastWord'
        BY <2>1 DEF Sole, InHandUnsent, DistinctInHand, CurrentIsLastWord
    <2>3. CASE events' \subseteq events /\ topic' = topic /\ late' = late
        BY <1>2, <2>1, <2>3
    <2>4. CASE pc[s] = "mark" /\ MarkNotificationSent(Current(s)) /\ UNCHANGED <<topic, late>>
        BY <1>1, <2>2, <2>4, MarkIsCovered DEF SoleInv
    <2>5. CASE /\ pc[s] = "publish" /\ AppendToTopic(NotificationOf(Current(s)))
               /\ UNCHANGED <<events, late>>
        BY <1>1, <2>2, <2>5, PublishSparesMarked DEF SoleInv
    <2> QED
        BY <1>1, <1>9, <2>3, <2>4, <2>5 DEF CallFails, DeleteEventsBefore
<1> QED
    BY <1>3, <1>4, <1>5, <1>6, <1>7, <1>8, <1>9 DEF SchedulerStep, RunOnce

\* Every step with one scheduler and no late write.
LEMMA NextSole ==
    ASSUME Sole, IInv, BookingsConsistent, SoleInv, [Next]_vars
    PROVE  SoleInv'
<1> USE DEF topicVars, cycleVars, schedulerVars
<1>1. CASE \E s \in Schedulers : SchedulerStep(s)
    BY <1>1, SoleScheduler DEF BookingsConsistent
<1>2. CASE ClientWrites \/ ClientDeletes
    <2>1. \A r \in events' : r.sent => r \in events
        BY <1>2, EditKeepsMarks DEF ClientWrites, ClientDeletes, IInv, TypeOK, StorageTypeOK
    <2> QED
        BY <1>2, <2>1, SoleKept DEF ClientWrites, ClientDeletes
<1>3. CASE LateWriteLands
    BY <1>3 DEF LateWriteLands, SoleInv
<1>4. CASE TimePasses
    BY <1>4, SoleKept DEF TimePasses
<1>5. CASE UNCHANGED vars
    BY <1>5, SoleKept DEF vars
<1> QED
    BY <1>1, <1>2, <1>3, <1>4, <1>5 DEF Next

\* The invariants of the scheduler hold at the start.
LEMMA InitSole == Init => BookingsConsistent /\ SoleInv
BY DEF Init, StorageInit, TopicInit, BookingsConsistent, UniqueIds, NoDoubleBooking, SoleInv,
    InHandUnsent, DistinctInHand, CurrentIsLastWord, MarkIsLastWord

\* With one scheduler and a producer whose failed writes are not appended later,
\* the newest notification of a marked event is that of its current content,
\* whatever clients change between the calls of RunOnce and wherever it fails.
THEOREM MarkIsAlwaysLastWord ==
    ASSUME Sole
    PROVE  Spec => []MarkIsLastWord
<1> DEFINE Inv == IInv /\ BookingsConsistent /\ SoleInv
<1>1. Init => Inv
    BY InitIInv, InitSole
<1>2. Inv /\ [Next]_vars => Inv'
    BY NextIInv, NextBookings, NextSole
<1>3. Inv => MarkIsLastWord
    BY DEF SoleInv
<1> QED
    BY <1>1, <1>2, <1>3, PTL DEF Spec
-----------------------------------------------------------------------------
(* Publications are paid for: by a write, once per scheduler, or by a fault. *)

\* What MarkNotificationSent compares.
Snapshot(r) == [id |-> r.id, title |-> r.title, startAt |-> r.startAt,
                userID |-> r.userID, notifyBefore |-> r.notifyBefore]

Unsent == {Snapshot(r) : r \in {q \in events : ~q.sent}}
InBatch(s) == {Snapshot(r) : r \in batch[s]}

\* Published and about to be marked, unless s has to give up first.
InFlight(s) == IF pc[s] = "mark" /\ ~cancelled[s] THEN {Snapshot(Current(s))} ELSE {}

\* What s may still publish if nobody writes and nothing fails.
OwedBy(s) == (Unsent \cup InBatch(s)) \ InFlight(s)
Versions == Unsent \cup UNION {InBatch(s) : s \in Schedulers}
Owed == {p \in Schedulers \X Versions : p[2] \in OwedBy(p[1])}

\* Every publication made, on its way or owed has been paid for.
Spending ==
    /\ IsFiniteSet(late) /\ IsFiniteSet(Owed)
    /\ Len(topic) + Cardinality(late) + Cardinality(Owed) <= Cardinality(Schedulers) * writes + faults

LEMMA SnapshotDecides ==
    ASSUME NEW r, NEW e
    PROVE  SameSnapshot(r, e) <=> Snapshot(r) = Snapshot(e)
BY DEF SameSnapshot, Snapshot

LEMMA OwedMembers ==
    /\ \A t \in Schedulers : \A x : <<t, x>> \in Owed <=> x \in OwedBy(t)
    /\ \A p \in Owed : p[1] \in Schedulers /\ p = <<p[1], p[2]>> /\ p[2] \in OwedBy(p[1])
BY DEF Owed, OwedBy, Versions

LEMMA OwedMembersNext ==
    /\ \A t \in Schedulers : \A x : <<t, x>> \in Owed' <=> x \in OwedBy(t)'
    /\ \A t \in Schedulers : \A p \in Owed' : p[1] = t => p = <<t, p[2]>> /\ p[2] \in OwedBy(t)'
    /\ \A p \in Owed' : p[1] \in Schedulers
BY DEF Owed, OwedBy, Versions, InBatch, InFlight

\* How much is owed, after steps that add nothing, one version for one scheduler,
\* or one for each of them, and after a publication.
LEMMA NothingAdded ==
    ASSUME IsFiniteSet(Owed), \A t \in Schedulers : OwedBy(t)' \subseteq OwedBy(t)
    PROVE  IsFiniteSet(Owed') /\ Cardinality(Owed') <= Cardinality(Owed)
<1>1. Owed' \subseteq Owed
    BY OwedMembers, OwedMembersNext
<1> QED
    BY <1>1, FS_Subset

LEMMA OneAdded ==
    ASSUME IsFiniteSet(Owed), NEW s \in Schedulers, NEW x,
           \A t \in Schedulers \ {s} : OwedBy(t)' \subseteq OwedBy(t),
           OwedBy(s)' \subseteq OwedBy(s) \cup {x}
    PROVE  IsFiniteSet(Owed') /\ Cardinality(Owed') <= Cardinality(Owed) + 1
<1>1. Owed' \subseteq Owed \cup {<<s, x>>}
    BY OwedMembers, OwedMembersNext
<1>2. IsFiniteSet(Owed \cup {<<s, x>>}) /\ Cardinality(Owed \cup {<<s, x>>}) <= Cardinality(Owed) + 1
    BY FS_AddElement, FS_CardinalityType
<1>3. Cardinality(Owed') <= Cardinality(Owed \cup {<<s, x>>}) /\ IsFiniteSet(Owed')
    BY <1>1, <1>2, FS_Subset
<1> QED
    BY <1>2, <1>3, FS_CardinalityType

LEMMA OneRemoved ==
    ASSUME IsFiniteSet(Owed), NEW s \in Schedulers, NEW x \in OwedBy(s),
           \A t \in Schedulers \ {s} : OwedBy(t)' \subseteq OwedBy(t),
           OwedBy(s)' \subseteq OwedBy(s) \ {x}
    PROVE  IsFiniteSet(Owed') /\ Cardinality(Owed') + 1 <= Cardinality(Owed)
<1>1. Owed' \subseteq Owed \ {<<s, x>>} /\ <<s, x>> \in Owed
    BY OwedMembers, OwedMembersNext
<1>2. IsFiniteSet(Owed \ {<<s, x>>}) /\ Cardinality(Owed \ {<<s, x>>}) = Cardinality(Owed) - 1
    BY <1>1, FS_RemoveElement
<1>3. Cardinality(Owed') <= Cardinality(Owed \ {<<s, x>>}) /\ IsFiniteSet(Owed')
    BY <1>1, <1>2, FS_Subset
<1> QED
    BY <1>2, <1>3, FS_CardinalityType

LEMMA OneAddedForEach ==
    ASSUME IsFiniteSet(Owed), NEW x,
           \A t \in Schedulers : OwedBy(t)' \subseteq OwedBy(t) \cup {x}
    PROVE  /\ IsFiniteSet(Owed')
           /\ Cardinality(Owed') <= Cardinality(Owed) + Cardinality(Schedulers)
<1> DEFINE New == Schedulers \X {x}
<1>1. Owed' \subseteq Owed \cup New
    BY OwedMembers, OwedMembersNext
<1>2. IsFiniteSet(New) /\ Cardinality(New) = Cardinality(Schedulers) /\ Cardinality(Schedulers) \in Nat
    <2>1. IsFiniteSet({x}) /\ Cardinality({x}) = 1 /\ IsFiniteSet(Schedulers)
        BY FS_Singleton, SchedulerAssumption
    <2>2. IsFiniteSet(New) /\ Cardinality(New) = Cardinality(Schedulers) * Cardinality({x})
        BY <2>1, FS_Product
    <2>3. Cardinality(Schedulers) \in Nat
        BY <2>1, FS_CardinalityType
    <2> QED
        BY <2>1, <2>2, <2>3
<1> HIDE DEF New
<1>3. IsFiniteSet(Owed \cup New) /\ Cardinality(Owed \cup New) <= Cardinality(Owed) + Cardinality(New)
    <2>1. /\ IsFiniteSet(Owed \cup New)
          /\ Cardinality(Owed \cup New) = Cardinality(Owed) + Cardinality(New) - Cardinality(Owed \cap New)
        BY <1>2, FS_Union
    <2>2. /\ Cardinality(Owed \cap New) \in Nat
          /\ Cardinality(Owed) \in Nat /\ Cardinality(New) \in Nat
        BY <1>2, FS_Intersection, FS_CardinalityType
    <2> QED
        BY <2>1, <2>2
<1>4. IsFiniteSet(Owed') /\ Cardinality(Owed') <= Cardinality(Owed \cup New)
    BY <1>1, <1>3, FS_Subset
<1>5. Cardinality(Owed') \in Nat /\ Cardinality(Owed \cup New) \in Nat /\ Cardinality(Owed) \in Nat
    BY <1>3, <1>4, FS_CardinalityType
<1> QED
    BY <1>2, <1>3, <1>4, <1>5

\* How the statements change the unsent versions.
LEMMA WriteAddsVersion ==
    ASSUME NEW e \in Requests, CreateEvent(e) \/ UpdateEvent(e)
    PROVE  Unsent' \subseteq Unsent \cup {Snapshot(NewRow(e))}
<1>1. \A r \in events' : r \in events \/ r = NewRow(e)
    BY DEF CreateEvent, UpdateEvent
<1> QED
    BY <1>1 DEF Unsent, Snapshot

LEMMA DeletionAddsNoVersion ==
    ASSUME events' \subseteq events
    PROVE  Unsent' \subseteq Unsent
BY DEF Unsent, Snapshot

LEMMA MarkRemovesVersion ==
    ASSUME events \subseteq Row, NEW e, MarkNotificationSent(e)
    PROVE  Unsent' \subseteq Unsent \ {Snapshot(e)}
<1> SUFFICES ASSUME NEW r \in events', ~r.sent
             PROVE  r \in events /\ Snapshot(r) # Snapshot(e)
    BY DEF Unsent, Snapshot
<1>1. PICK q \in events : r = IF q \in SnapshotRows(e) THEN [q EXCEPT !.sent = TRUE] ELSE q
    BY DEF MarkNotificationSent
<1>2. q \notin SnapshotRows(e)
    <2>1. q \in SnapshotRows(e) => [q EXCEPT !.sent = TRUE].sent
        BY DEF Row
    <2> QED
        BY <1>1, <2>1
<1> QED
    BY <1>1, <1>2, SnapshotDecides DEF SnapshotRows

\* A scheduler step leaves the others where they are.
LEMMA OthersStay ==
    ASSUME IInv, NEW s \in Schedulers, SchedulerStep(s)
    PROVE  \A t \in Schedulers \ {s} :
               pc'[t] = pc[t] /\ batch'[t] = batch[t] /\ cancelled'[t] = cancelled[t]
<1> USE DEF topicVars, cycleVars, schedulerVars, Goto, Return
<1>1. /\ pc \in [Schedulers -> Locations] /\ batch \in [Schedulers -> SUBSET Row]
      /\ cancelled \in [Schedulers -> BOOLEAN]
    BY DEF IInv, TypeOK
<1>2. CASE RunOnce(s)
    BY <1>1, <1>2 DEF RunOnce, Cleanup, List, Publish, Mark, AfterMark, Abort
<1>3. CASE Start(s) \/ Tick(s) \/ Stop(s) \/ Cancel(s)
    BY <1>1, <1>3 DEF Start, Tick, Stop, Cancel, BeginCycle
<1>4. CASE Crash(s) \/ PublishRetried(s) \/ CallFails(s)
    BY <1>1, <1>4 DEF Crash, PublishRetried, CallFails
<1> QED
    BY <1>2, <1>3, <1>4 DEF SchedulerStep

\* Nothing is added to what a scheduler owes while it stays where it is.
LEMMA StayingAddsNothing ==
    ASSUME NEW t, Unsent' \subseteq Unsent,
           pc'[t] = pc[t], batch'[t] = batch[t], cancelled'[t] = cancelled[t]
    PROVE  OwedBy(t)' \subseteq OwedBy(t)
BY DEF OwedBy, InBatch, InFlight, Current, Snapshot, Before

\* A scheduler that drops its batch may have to publish once more what it had
\* published and not yet marked.
LEMMA GivingUpAddsOne ==
    ASSUME NEW s, Unsent' \subseteq Unsent, batch'[s] = {}, pc'[s] # "mark"
    PROVE  OwedBy(s)' \subseteq OwedBy(s) \cup InFlight(s)
BY DEF OwedBy, InBatch, InFlight

\* An event is in hand once.
LEMMA NextDistinct ==
    ASSUME IInv, UniqueIds, DistinctInHand, [Next]_vars
    PROVE  DistinctInHand'
<1> USE DEF topicVars, cycleVars, schedulerVars
<1>1. ASSUME NEW s \in Schedulers, SchedulerStep(s)
      PROVE  batch'[s] \subseteq batch[s] \/ batch'[s] \subseteq events
    <2> USE DEF Return
    <2>1. batch \in [Schedulers -> SUBSET Row]
        BY DEF IInv, TypeOK
    <2>2. CASE List(s)
        BY <2>1, <2>2 DEF List, ListEventsForNotification
    <2>3. CASE Mark(s)
        BY <2>1, <2>3 DEF Mark, AfterMark
    <2>4. CASE Cleanup(s) \/ Publish(s) \/ Abort(s) \/ Start(s) \/ Tick(s) \/ Stop(s) \/ Cancel(s)
        BY <2>1, <2>4 DEF Cleanup, Publish, Abort, Start, Tick, Stop, Cancel, BeginCycle
    <2>5. CASE Crash(s) \/ PublishRetried(s) \/ CallFails(s)
        BY <2>1, <2>5 DEF Crash, PublishRetried, CallFails
    <2> QED
        BY <1>1, <2>2, <2>3, <2>4, <2>5 DEF SchedulerStep, RunOnce
<1>2. CASE \E s \in Schedulers : SchedulerStep(s)
    BY <1>1, <1>2, OthersStay DEF DistinctInHand, UniqueIds
<1>3. CASE ClientWrites \/ ClientDeletes \/ LateWriteLands \/ TimePasses \/ UNCHANGED vars
    BY <1>3 DEF ClientWrites, ClientDeletes, LateWriteLands, TimePasses, vars, DistinctInHand
<1> QED
    BY <1>2, <1>3 DEF Next

\* The balance of a step, from what it adds on either side.
LEMMA BalanceKept ==
    ASSUME TypeOK, TopicTypeOK', Spending, IsFiniteSet(late'), IsFiniteSet(Owed'), writes' = writes, faults' \in Nat,
           Len(topic') + Cardinality(late') + Cardinality(Owed') + faults
               <= Len(topic) + Cardinality(late) + Cardinality(Owed) + faults'
    PROVE  Spending'
<1> DEFINE a == Cardinality(late) b == Cardinality(Owed) c == Cardinality(Schedulers) * writes
           x == Cardinality(late') y == Cardinality(Owed')
<1>1. a \in Nat /\ b \in Nat /\ x \in Nat /\ y \in Nat
    BY FS_CardinalityType DEF Spending
<1>2. c \in Nat
    <2>1. Cardinality(Schedulers) \in Nat /\ writes \in Nat
        BY FS_CardinalityType, SchedulerAssumption DEF TypeOK
    <2> QED
        BY <2>1
<1>3. Len(topic) \in Nat /\ Len(topic') \in Nat /\ faults \in Nat
    BY DEF TypeOK, TopicTypeOK
<1>4. Len(topic) + a + b <= c + faults
    BY DEF Spending
<1>5. Len(topic') + x + y + faults <= Len(topic) + a + b + faults'
    OBVIOUS
<1>6. c' = c
    OBVIOUS
<1> HIDE DEF a, b, c, x, y
<1> QED
    BY <1>1, <1>2, <1>3, <1>4, <1>5, <1>6 DEF Spending, a, b, c, x, y

\* A payload is appended to the log: one more.
LEMMA OneMoreInTopic ==
    ASSUME topic \in Seq(Payload), NEW p, AppendToTopic(p)
    PROVE  Len(topic') = Len(topic) + 1 /\ Len(topic) \in Nat
BY DEF AppendToTopic

LEMMA OneMoreLate ==
    ASSUME IsFiniteSet(late), NEW s, BecomesLate(s)
    PROVE  IsFiniteSet(late') /\ Cardinality(late') <= Cardinality(late) + 1
<1> DEFINE m == NotificationOf(Current(s))
<1>1. late' = late \cup {m}
    BY DEF BecomesLate
<1> HIDE DEF m
<1>2. /\ IsFiniteSet(late \cup {m}) /\ Cardinality(late) \in Nat
      /\ Cardinality(late \cup {m}) = IF m \in late THEN Cardinality(late) ELSE Cardinality(late) + 1
    BY FS_AddElement, FS_CardinalityType
<1> QED
    BY <1>1, <1>2

\* Start, Tick, Stop, Cleanup: nothing is published and nothing given up.
LEMMA QuietStepSpends ==
    ASSUME IInv, TopicTypeOK', Spending, NEW s \in Schedulers,
           Start(s) \/ Tick(s) \/ Stop(s) \/ Cleanup(s) \/ Abort(s) \/ List(s)
    PROVE  Spending'
<1> USE DEF topicVars, cycleVars, schedulerVars
<1>t. /\ pc \in [Schedulers -> Locations] /\ batch \in [Schedulers -> SUBSET Row]
      /\ cancelled \in [Schedulers -> BOOLEAN] /\ faults \in Nat /\ TypeOK
    BY DEF IInv, TypeOK
<1>1. /\ UNCHANGED <<topic, late, writes, faults>> /\ events' \subseteq events
      /\ SchedulerStep(s)
    BY DEF Start, Tick, Stop, Cleanup, DeleteEventsBefore, Abort, List, SchedulerStep, RunOnce
<1>2. Unsent' \subseteq Unsent
    BY <1>1, DeletionAddsNoVersion
<1>3. OwedBy(s)' \subseteq OwedBy(s)
    <2>1. CASE Start(s) \/ Tick(s) \/ Stop(s) \/ Cleanup(s)
        <3>1. pc[s] # "mark" /\ pc'[s] # "mark" /\ batch' = batch
            BY <1>t, <2>1 DEF Start, Tick, Stop, Cleanup, BeginCycle, Goto
        <3> QED
            BY <1>2, <3>1 DEF OwedBy, InBatch, InFlight
    <2>2. CASE Return(s, "wait") /\ InFlight(s) = {}
        <3>1. batch'[s] = {} /\ pc'[s] # "mark"
            BY <1>t, <2>2 DEF Return, Goto
        <3> QED
            BY <1>2, <2>2, <3>1, GivingUpAddsOne
    <2>3. CASE Abort(s)
        BY <2>2, <2>3 DEF Abort, InFlight
    <2>4. CASE List(s)
        <3> DEFINE due == ListEventsForNotification(now[s], BatchSize)
        <3>1. due \subseteq {r \in events : ~r.sent} /\ pc[s] = "list"
            BY <2>4 DEF List, ListEventsForNotification, ReadyForNotification
        <3>2. Return(s, "wait") \/ (Goto(s, "publish") /\ batch' = [batch EXCEPT ![s] = due])
            BY <2>4 DEF List
        <3>3. CASE Return(s, "wait")
            BY <2>2, <3>1, <3>3 DEF InFlight
        <3> HIDE DEF due
        <3>4. CASE Goto(s, "publish") /\ batch' = [batch EXCEPT ![s] = due]
            <4>1. batch'[s] = due /\ pc'[s] = "publish"
                BY <1>t, <3>4 DEF Goto
            <4>2. InBatch(s)' \subseteq Unsent
                BY <3>1, <4>1 DEF InBatch, Unsent, Snapshot
            <4> QED
                BY <1>2, <3>1, <4>1, <4>2 DEF OwedBy, InFlight
        <3> QED
            BY <3>2, <3>3, <3>4
    <2> QED
        BY <2>1, <2>3, <2>4
<1>4. \A t \in Schedulers : OwedBy(t)' \subseteq OwedBy(t)
    <2> TAKE t \in Schedulers
    <2>1. CASE t = s
        BY <1>3, <2>1 DEF OwedBy, InBatch, InFlight, Current
    <2>2. CASE t # s
        BY <1>1, <1>2, <2>2, OthersStay, StayingAddsNothing
    <2> QED
        BY <2>1, <2>2
<1>5. IsFiniteSet(Owed') /\ Cardinality(Owed') <= Cardinality(Owed)
    BY <1>4, NothingAdded DEF Spending
<1>6. /\ Cardinality(Owed') \in Nat /\ Cardinality(Owed) \in Nat /\ Cardinality(late) \in Nat
      /\ Len(topic) \in Nat
    BY <1>t, <1>5, FS_CardinalityType DEF Spending, TypeOK, TopicTypeOK
<1> QED
    BY <1>t, <1>1, <1>5, <1>6, BalanceKept DEF Spending

\* A step with a fault may add one version for its scheduler, or a late write, or
\* a message to the topic.
LEMMA FaultStepSpends ==
    ASSUME IInv, TopicTypeOK', Spending, NEW s \in Schedulers, Cancel(s) \/ Crash(s) \/ CallFails(s)
    PROVE  Spending'
<1> USE DEF topicVars, cycleVars, schedulerVars
<1>t. /\ pc \in [Schedulers -> Locations] /\ batch \in [Schedulers -> SUBSET Row]
      /\ cancelled \in [Schedulers -> BOOLEAN] /\ faults \in Nat /\ TypeOK
      /\ topic \in Seq(Payload) /\ events \subseteq Row /\ Len(topic) \in Nat
    BY DEF IInv, TypeOK, TopicTypeOK, StorageTypeOK
<1>1. faults' = faults + 1 /\ writes' = writes /\ SchedulerStep(s)
    BY DEF Cancel, Crash, CallFails, Fault, SchedulerStep
<1>2. \/ events' \subseteq events
      \/ MarkNotificationSent(Current(s))
    BY DEF Cancel, Crash, CallFails, DeleteEventsBefore
<1>3. Unsent' \subseteq Unsent
    BY <1>t, <1>2, DeletionAddsNoVersion, MarkRemovesVersion
<1>4. \A t \in Schedulers \ {s} : OwedBy(t)' \subseteq OwedBy(t)
    BY <1>1, <1>3, OthersStay, StayingAddsNothing
<1> DEFINE c == Snapshot(Current(s))
<1>5. OwedBy(s)' \subseteq OwedBy(s) \cup InFlight(s)
    <2>1. CASE Cancel(s)
        <3>1. UNCHANGED <<batch, pc>> /\ cancelled'[s] = TRUE
            BY <1>t, <2>1 DEF Cancel
        <3> QED
            BY <1>3, <3>1 DEF OwedBy, InBatch, InFlight
    <2>2. CASE Crash(s) \/ CallFails(s)
        <3>1. batch'[s] = {} /\ pc'[s] # "mark"
            BY <1>t, <2>2 DEF Crash, CallFails, Return, Goto
        <3> QED
            BY <1>3, <3>1, GivingUpAddsOne
    <2> QED
        BY <2>1, <2>2
<1>6. InFlight(s) \subseteq {c} /\ (pc[s] # "mark" => InFlight(s) = {})
    BY DEF InFlight
<1> HIDE DEF c
<1>7. \/ topic' = topic /\ late' = late
      \/ pc[s] # "mark" /\ topic' = topic /\ BecomesLate(s)
      \/ pc[s] # "mark" /\ late' = late /\ AppendToTopic(NotificationOf(Current(s)))
    BY DEF Cancel, Crash, CallFails, BecomesLate
<1>8. IsFiniteSet(late) /\ IsFiniteSet(Owed) /\ Cardinality(late) \in Nat /\ Cardinality(Owed) \in Nat
    BY FS_CardinalityType DEF Spending
<1>9. CASE topic' = topic /\ late' = late
    <2>1. IsFiniteSet(Owed') /\ Cardinality(Owed') <= Cardinality(Owed) + 1
        BY <1>4, <1>5, <1>6, <1>8, OneAdded
    <2>2. Cardinality(Owed') \in Nat
        BY <2>1, FS_CardinalityType
    <2> QED
        BY <1>t, <1>1, <1>8, <1>9, <2>1, <2>2, BalanceKept
<1>10. CASE pc[s] # "mark"
    <2>1. \A t \in Schedulers : OwedBy(t)' \subseteq OwedBy(t)
        <3> TAKE t \in Schedulers
        <3>1. CASE t = s
            BY <1>5, <1>6, <1>10, <3>1 DEF OwedBy, InBatch, InFlight, Current
        <3> QED
            BY <1>4, <3>1
    <2>2. IsFiniteSet(Owed') /\ Cardinality(Owed') <= Cardinality(Owed)
        BY <1>8, <2>1, NothingAdded
    <2>3. Cardinality(Owed') \in Nat
        BY <2>2, FS_CardinalityType
    <2>4. CASE topic' = topic /\ BecomesLate(s)
        <3>1. IsFiniteSet(late') /\ Cardinality(late') <= Cardinality(late) + 1
            BY <1>8, <2>4, OneMoreLate
        <3>2. Cardinality(late') \in Nat
            BY <3>1, FS_CardinalityType
        <3> QED
            BY <1>t, <1>1, <1>8, <2>2, <2>3, <2>4, <3>1, <3>2, BalanceKept
    <2>5. CASE late' = late /\ AppendToTopic(NotificationOf(Current(s)))
        <3>1. Len(topic') = Len(topic) + 1
            BY <1>t, <2>5, OneMoreInTopic
        <3> QED
            BY <1>t, <1>1, <1>8, <2>2, <2>3, <2>5, <3>1, BalanceKept
    <2> QED
        BY <1>7, <1>9, <2>4, <2>5
<1> QED
    BY <1>7, <1>9, <1>10

\* An acknowledged publication was owed; the retried one has a fault of its own.
LEMMA PublishSpends ==
    ASSUME IInv, TopicTypeOK', Spending, NEW s \in Schedulers, Publish(s) \/ PublishRetried(s)
    PROVE  Spending'
<1> USE DEF topicVars, cycleVars, schedulerVars
<1>t. /\ pc \in [Schedulers -> Locations] /\ faults \in Nat /\ TypeOK
      /\ topic \in Seq(Payload) /\ Len(topic) \in Nat
    BY DEF IInv, TypeOK, TopicTypeOK
<1>1. /\ pc[s] = "publish" /\ ~cancelled[s] /\ AppendToTopic(NotificationOf(Current(s)))
      /\ pc' = [pc EXCEPT ![s] = "mark"] /\ UNCHANGED <<events, batch, cancelled, writes>>
      /\ \/ late' = late /\ faults' = faults
         \/ BecomesLate(s) /\ faults' = faults + 1
      /\ SchedulerStep(s)
    BY DEF Publish, PublishRetried, BecomesLate, Goto, Fault, SchedulerStep, RunOnce
<1>2. Len(topic') = Len(topic) + 1
    BY <1>t, <1>1, OneMoreInTopic
<1>3. Unsent' \subseteq Unsent
    BY <1>1, DeletionAddsNoVersion
<1>4. \A t \in Schedulers \ {s} : OwedBy(t)' \subseteq OwedBy(t)
    BY <1>1, <1>3, OthersStay, StayingAddsNothing
<1>5. Snapshot(Current(s)) \in OwedBy(s)
    <2>1. Current(s) \in batch[s]
        BY <1>1, CurrentRow
    <2> QED
        BY <1>1, <2>1 DEF OwedBy, InBatch, InFlight
<1>6. OwedBy(s)' \subseteq OwedBy(s) \ {Snapshot(Current(s))}
    <2>1. InFlight(s)' = {Snapshot(Current(s))} /\ InBatch(s)' = InBatch(s) /\ InFlight(s) = {}
        BY <1>t, <1>1 DEF InFlight, InBatch, Current, Snapshot
    <2> QED
        BY <1>3, <2>1 DEF OwedBy
<1>7. IsFiniteSet(late) /\ IsFiniteSet(Owed) /\ Cardinality(late) \in Nat /\ Cardinality(Owed) \in Nat
    BY FS_CardinalityType DEF Spending
<1>8. IsFiniteSet(Owed') /\ Cardinality(Owed') + 1 <= Cardinality(Owed)
    BY <1>4, <1>5, <1>6, <1>7, OneRemoved
<1>9. Cardinality(Owed') \in Nat
    BY <1>8, FS_CardinalityType
<1>10. CASE late' = late /\ faults' = faults
    BY <1>t, <1>1, <1>2, <1>7, <1>8, <1>9, <1>10, BalanceKept
<1>11. CASE BecomesLate(s) /\ faults' = faults + 1
    <2>1. IsFiniteSet(late') /\ Cardinality(late') <= Cardinality(late) + 1
        BY <1>7, <1>11, OneMoreLate
    <2>2. Cardinality(late') \in Nat
        BY <2>1, FS_CardinalityType
    <2> QED
        BY <1>t, <1>1, <1>2, <1>7, <1>8, <1>9, <1>11, <2>1, <2>2, BalanceKept
<1> QED
    BY <1>1, <1>10, <1>11

\* After the mark the published version is owed by nobody: its rows are marked,
\* and the batch holds it once.
LEMMA MarkSpends ==
    ASSUME IInv, TopicTypeOK', DistinctInHand, Spending, NEW s \in Schedulers, Mark(s)
    PROVE  Spending'
<1> USE DEF topicVars, cycleVars, schedulerVars
<1> DEFINE e == Current(s)
<1>t. /\ pc \in [Schedulers -> Locations] /\ batch \in [Schedulers -> SUBSET Row] /\ TypeOK
      /\ faults \in Nat /\ events \subseteq Row /\ Len(topic) \in Nat
    BY DEF IInv, TypeOK, StorageTypeOK, TopicTypeOK
<1>1. /\ pc[s] = "mark" /\ ~cancelled[s] /\ MarkNotificationSent(e) /\ SchedulerStep(s)
      /\ UNCHANGED <<topic, late, writes, faults>>
    BY DEF Mark, SchedulerStep, RunOnce
<1>2. batch'[s] \subseteq batch[s] \ {e} /\ pc'[s] # "mark"
    BY <1>t DEF Mark, AfterMark, Return, Goto
<1>3. e \in batch[s]
    BY <1>1, CurrentRow
<1>4. Unsent' \subseteq Unsent \ {Snapshot(e)}
    BY <1>t, <1>1, MarkRemovesVersion
<1>5. \A r \in batch[s] \ {e} : Snapshot(r) # Snapshot(e)
    BY <1>3 DEF DistinctInHand, Snapshot
<1>6. InFlight(s) = {Snapshot(e)} /\ InFlight(s)' = {}
    BY <1>1, <1>2 DEF InFlight
<1>7. InBatch(s)' \subseteq InBatch(s) \ {Snapshot(e)}
    <2> HIDE DEF e
    <2> QED
        BY <1>2, <1>5 DEF InBatch, Snapshot
<1>8. OwedBy(s)' \subseteq OwedBy(s)
    BY <1>4, <1>6, <1>7 DEF OwedBy
<1>9. \A t \in Schedulers : OwedBy(t)' \subseteq OwedBy(t)
    <2> TAKE t \in Schedulers
    <2>1. CASE t = s
        BY <1>8, <2>1 DEF OwedBy, InBatch, InFlight, Current
    <2>2. CASE t # s
        BY <1>1, <1>4, <2>2, OthersStay, StayingAddsNothing
    <2> QED
        BY <2>1, <2>2
<1>10. IsFiniteSet(Owed') /\ Cardinality(Owed') <= Cardinality(Owed)
    BY <1>9, NothingAdded DEF Spending
<1>11. Cardinality(Owed') \in Nat /\ Cardinality(Owed) \in Nat /\ Cardinality(late) \in Nat
    BY <1>10, FS_CardinalityType DEF Spending
<1> QED
    BY <1>t, <1>1, <1>10, <1>11, BalanceKept DEF Spending

\* Clients, late writes and time.
LEMMA EnvironmentSpends ==
    ASSUME IInv, TopicTypeOK', Spending,
           ClientWrites \/ ClientDeletes \/ LateWriteLands \/ TimePasses \/ UNCHANGED vars
    PROVE  Spending'
<1> USE DEF topicVars, cycleVars, schedulerVars
<1>t. /\ faults \in Nat /\ writes \in Nat /\ TypeOK /\ topic \in Seq(Payload) /\ Len(topic) \in Nat
    BY DEF IInv, TypeOK, TopicTypeOK
<1>1. UNCHANGED <<pc, batch, cancelled>>
    BY DEF ClientWrites, ClientDeletes, LateWriteLands, TimePasses, vars
<1>2. IsFiniteSet(late) /\ IsFiniteSet(Owed) /\ Cardinality(late) \in Nat /\ Cardinality(Owed) \in Nat
    BY FS_CardinalityType DEF Spending
<1>3. ASSUME events' \subseteq events
      PROVE  IsFiniteSet(Owed') /\ Cardinality(Owed') <= Cardinality(Owed) /\ Cardinality(Owed') \in Nat
    <2>1. Unsent' \subseteq Unsent
        BY <1>3, DeletionAddsNoVersion
    <2>2. \A t \in Schedulers : OwedBy(t)' \subseteq OwedBy(t)
        BY <1>1, <2>1, StayingAddsNothing
    <2>3. IsFiniteSet(Owed') /\ Cardinality(Owed') <= Cardinality(Owed)
        BY <1>2, <2>2, NothingAdded
    <2> QED
        BY <2>3, FS_CardinalityType
<1>4. CASE ClientWrites
    <2>1. PICK e \in Requests : CreateEvent(e) \/ UpdateEvent(e)
        BY <1>4 DEF ClientWrites
    <2>2. writes' = writes + 1 /\ UNCHANGED <<topic, late, faults>>
        BY <1>4 DEF ClientWrites
    <2> DEFINE x == Snapshot(NewRow(e))
    <2>3. Unsent' \subseteq Unsent \cup {x}
        BY <2>1, WriteAddsVersion
    <2> HIDE DEF x
    <2>4. \A t \in Schedulers : OwedBy(t)' \subseteq OwedBy(t) \cup {x}
        <3> TAKE t \in Schedulers
        <3>1. InBatch(t)' = InBatch(t) /\ InFlight(t)' = InFlight(t)
            BY <1>1 DEF InBatch, InFlight, Current, Snapshot
        <3> QED
            BY <2>3, <3>1 DEF OwedBy
    <2>5. IsFiniteSet(Owed') /\ Cardinality(Owed') <= Cardinality(Owed) + Cardinality(Schedulers)
        BY <1>2, <2>4, OneAddedForEach
    <2>6. Cardinality(Owed') \in Nat /\ Cardinality(Schedulers) \in Nat
        BY <2>5, FS_CardinalityType, SchedulerAssumption
    <2> DEFINE allowed == Cardinality(Schedulers) * writes
               allowedNext == Cardinality(Schedulers) * writes'
    <2>7. allowed \in Nat /\ allowedNext = allowed + Cardinality(Schedulers)
        BY <1>t, <2>2, <2>6
    <2>8. Len(topic) + Cardinality(late) + Cardinality(Owed) <= allowed + faults
        BY DEF Spending
    <2> HIDE DEF allowed, allowedNext
    <2>9. Len(topic) + Cardinality(late) + Cardinality(Owed') <= allowedNext + faults
        BY <1>t, <1>2, <2>5, <2>6, <2>7, <2>8
    <2> QED
        BY <1>2, <2>2, <2>5, <2>9 DEF Spending, allowedNext
<1>5. CASE ClientDeletes \/ TimePasses \/ UNCHANGED vars
    <2>1. events' \subseteq events /\ UNCHANGED <<topic, late, writes, faults>>
        BY <1>5 DEF ClientDeletes, DeleteEvent, TimePasses, vars
    <2> QED
        BY <1>t, <1>2, <1>3, <2>1, BalanceKept
<1>6. CASE LateWriteLands
    <2>1. PICK p \in late : \/ LateAppend(p, FALSE) /\ UNCHANGED faults
                            \/ LateAppend(p, TRUE) /\ Fault
        BY <1>6 DEF LateWriteLands
    <2>2. events' = events /\ writes' = writes /\ AppendToTopic(p)
        BY <1>6, <2>1 DEF LateWriteLands, LateAppend
    <2>3. Len(topic') = Len(topic) + 1
        BY <1>t, <2>2, OneMoreInTopic
    <2>4. CASE LateAppend(p, FALSE) /\ UNCHANGED faults
        <3>1. late' = late \ {p}
            BY <2>4 DEF LateAppend
        <3>2. IsFiniteSet(late \ {p}) /\ Cardinality(late \ {p}) = Cardinality(late) - 1
            BY <1>2, FS_RemoveElement
        <3>3. Cardinality(late \ {p}) \in Nat
            BY <3>2, FS_CardinalityType
        <3> QED
            BY <1>t, <1>2, <1>3, <2>2, <2>3, <2>4, <3>1, <3>2, <3>3, BalanceKept
    <2>5. CASE LateAppend(p, TRUE) /\ Fault
        <3>1. late' = late /\ faults' = faults + 1
            BY <2>5 DEF LateAppend, Fault
        <3> QED
            BY <1>t, <1>2, <1>3, <2>2, <2>3, <3>1, BalanceKept
    <2> QED
        BY <2>1, <2>4, <2>5
<1> QED
    BY <1>4, <1>5, <1>6

\* Reminders are not repeated without a reason: for any number of schedulers and
\* any batch size, the topic holds at most one message per written version and
\* scheduler, and one more for each failed call, signal, crash or repeated late
\* write.
THEOREM PublishNeverSpurious == Spec => []NoSpuriousPublish
<1> DEFINE Inv == IInv /\ BookingsConsistent /\ DistinctInHand /\ Spending
<1>1. Init => Inv
    <2> SUFFICES ASSUME Init
                 PROVE  DistinctInHand /\ Spending
        BY InitIInv, InitSole
    <2>1. DistinctInHand
        BY DEF Init, DistinctInHand
    <2>2. Unsent = {} /\ \A s \in Schedulers : InBatch(s) = {}
        BY DEF Init, StorageInit, Unsent, InBatch
    <2>3. Owed = {}
        BY <2>2 DEF Owed, OwedBy
    <2>4. late = {} /\ topic = << >> /\ writes = 0 /\ faults = 0
        BY DEF Init, TopicInit
    <2>5. Cardinality(Owed) = 0 /\ Cardinality(late) = 0 /\ IsFiniteSet(Owed) /\ IsFiniteSet(late)
        BY <2>3, <2>4, FS_EmptySet
    <2>6. Cardinality(Schedulers) \in Nat /\ Len(topic) = 0
        BY <2>4, FS_CardinalityType, SchedulerAssumption
    <2> QED
        BY <2>1, <2>4, <2>5, <2>6 DEF Spending
<1>2. Inv /\ [Next]_vars => Inv'
    <2> SUFFICES ASSUME Inv, [Next]_vars
                 PROVE  Inv'
        OBVIOUS
    <2>1. IInv' /\ BookingsConsistent' /\ DistinctInHand'
        BY NextIInv, NextBookings, NextDistinct DEF BookingsConsistent
    <2>2. TopicTypeOK'
        BY <2>1 DEF IInv, TypeOK
    <2>3. Spending'
        BY <2>2, QuietStepSpends, FaultStepSpends, PublishSpends, MarkSpends, EnvironmentSpends
           DEF Next, SchedulerStep, RunOnce
    <2> QED
        BY <2>1, <2>3
<1>3. Inv => NoSpuriousPublish
    <2> SUFFICES ASSUME Inv
                 PROVE  NoSpuriousPublish
        OBVIOUS
    <2>1. /\ Cardinality(late) \in Nat /\ Cardinality(Owed) \in Nat /\ Cardinality(Schedulers) \in Nat
          /\ Len(topic) \in Nat /\ writes \in Nat /\ faults \in Nat
        BY FS_CardinalityType, SchedulerAssumption DEF Spending, IInv, TypeOK, TopicTypeOK
    <2>2. Cardinality(Schedulers) * writes \in Nat
        BY <2>1
    <2> QED
        BY <2>1, <2>2 DEF Spending, NoSpuriousPublish
<1> QED
    BY <1>1, <1>2, <1>3, PTL DEF Spec
=============================================================================
