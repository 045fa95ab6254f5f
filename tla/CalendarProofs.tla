--------------------------- MODULE CalendarProofs ---------------------------
(***************************************************************************)
(* Theorems about the composed pipeline: the storer's table follows the    *)
(* topic, and the pipeline implements ReminderLedger, for any number of    *)
(* schedulers and any bounds.                                              *)
(***************************************************************************)
EXTENDS Calendar, SchedulerProofs

-----------------------------------------------------------------------------
(* The steps of the storer keep StorerInv, whoever fills the topic.         *)

Upsert(table, n) == {m \in table : m.eventID # n.eventID} \cup {n}

\* The table after one more payload: an upsert, or nothing when it is invalid.
LEMMA ViewStep ==
    ASSUME topic \in Seq(Payload), NEW n \in Nat, n < Len(topic)
    PROVE  View(n + 1) = IF Decodes(topic[n + 1])
                         THEN Upsert(View(n), topic[n + 1]) ELSE View(n)
<1> DEFINE f == topic[n + 1]
<1>1. \A x : x \in View(n) <=> \E k \in 1..n : Newest(k, n) /\ x = topic[k]
    BY DEF View
<1>2. \A x : x \in View(n + 1) <=> \E k \in 1..(n + 1) : Newest(k, n + 1) /\ x = topic[k]
    BY DEF View
<1>3. \A k \in 1..n : Newest(k, n + 1) <=>
          Newest(k, n) /\ (Decodes(f) => f.eventID # topic[k].eventID)
    <2> TAKE k \in 1..n
    <2>1. \A j : j \in (k + 1)..(n + 1) <=> j \in (k + 1)..n \/ j = n + 1
        OBVIOUS
    <2> QED
        BY <2>1 DEF Newest
<1>4. Newest(n + 1, n + 1) <=> Decodes(f)
    BY DEF Newest
<1>5. \A k : k \in 1..(n + 1) <=> k \in 1..n \/ k = n + 1
    OBVIOUS
<1>6. \A x : x \in View(n + 1) <=>
          \/ x \in View(n) /\ (Decodes(f) => x.eventID # f.eventID)
          \/ Decodes(f) /\ x = f
    BY <1>1, <1>2, <1>3, <1>4, <1>5
<1>7. CASE Decodes(f)
    BY <1>6, <1>7 DEF Upsert
<1>8. CASE ~Decodes(f)
    BY <1>6, <1>8
<1> QED
    BY <1>7, <1>8

\* Saving the newest payload of a view once more changes nothing.
LEMMA ViewAgain ==
    ASSUME topic \in Seq(Payload), NEW n \in Nat, n < Len(topic), Decodes(topic[n + 1])
    PROVE  Upsert(View(n + 1), topic[n + 1]) = View(n + 1)
<1>1. View(n + 1) = Upsert(View(n), topic[n + 1])
    BY ViewStep
<1> QED
    BY <1>1 DEF Upsert

\* Appending to the topic does not change the views of what was there.
LEMMA ViewStable ==
    ASSUME topic \in Seq(Payload), NEW p, topic' = Append(topic, p),
           NEW n \in Nat, n <= Len(topic)
    PROVE  View(n)' = View(n)
<1>1. \A i \in 1..n : topic'[i] = topic[i]
    OBVIOUS
<1>2. \A k \in 1..n : Newest(k, n)' <=> Newest(k, n)
    <2> TAKE k \in 1..n
    <2>1. \A j \in (k + 1)..n : j \in 1..n
        OBVIOUS
    <2> QED
        BY <1>1, <2>1 DEF Newest, Decodes, ValidateNotification
<1>3. \A x : x \in View(n)' <=> \E k \in 1..n : Newest(k, n)' /\ x = topic'[k]
    BY DEF View
<1>4. \A x : x \in View(n) <=> \E k \in 1..n : Newest(k, n) /\ x = topic[k]
    BY DEF View
<1>5. \A x : x \in View(n)' <=> x \in View(n)
    BY <1>1, <1>2, <1>3, <1>4
<1> QED
    BY <1>5

-----------------------------------------------------------------------------
\* The topic grows and the storer stands still.
LEMMA TopicGrowth ==
    ASSUME StorerInv, topic \in Seq(Payload), NEW p, topic' = Append(topic, p),
           UNCHANGED storerVars
    PROVE  StorerInv'
<1> USE DEF storerVars
<1>1. Len(topic') = Len(topic) + 1 /\ committed \in Nat
    BY DEF StorerInv, StorerTypeOK
<1>2. StorerTypeOK' /\ ReaderAtCommitted'
    BY <1>1 DEF StorerInv, StorerTypeOK, ReaderAtCommitted
<1>3. View(committed)' = View(committed)
    BY <1>1, ViewStable DEF StorerInv, ReaderAtCommitted
<1>4. committed < Len(topic) => View(committed + 1)' = View(committed + 1)
    BY <1>1, ViewStable
<1>5. TableFollowsTopic'
    BY <1>1, <1>3, <1>4 DEF StorerInv, TableFollowsTopic
<1>6. SavedBeforeCommit'
    BY <1>1, <1>4 DEF StorerInv, SavedBeforeCommit, ReaderAtCommitted
<1> QED
    BY <1>2, <1>5, <1>6 DEF StorerInv

\* Handling the fetched payload takes the table to the next view, the first time
\* and on every redelivery.
LEMMA HandledView ==
    ASSUME StorerInv, topic \in Seq(Payload), location = "handle",
           \/ Decodes(Fetched) /\ SaveNotification(Fetched)
           \/ ~Decodes(Fetched) /\ UNCHANGED notifications
    PROVE  /\ notifications' = View(committed + 1)
           /\ notifications' \subseteq Notification
<1>1. /\ position = committed /\ committed \in Nat /\ committed < Len(topic)
      /\ Fetched = topic[committed + 1]
    BY DEF StorerInv, StorerTypeOK, ReaderAtCommitted, Fetched
<1>2. notifications = View(committed) \/ notifications = View(committed + 1)
    BY DEF StorerInv, TableFollowsTopic
<1>3. CASE Decodes(Fetched) /\ SaveNotification(Fetched)
    <2>1. notifications' = Upsert(notifications, Fetched)
        BY <1>3 DEF SaveNotification, Upsert
    <2>2. Upsert(View(committed), Fetched) = View(committed + 1)
        BY <1>1, <1>3, ViewStep
    <2>3. Upsert(View(committed + 1), Fetched) = View(committed + 1)
        BY <1>1, <1>3, ViewAgain
    <2>4. notifications' \subseteq Notification
        BY <1>3 DEF SaveNotification, Decodes, StorerInv, StorerTypeOK
    <2> QED
        BY <1>2, <2>1, <2>2, <2>3, <2>4
<1>4. CASE ~Decodes(Fetched) /\ UNCHANGED notifications
    BY <1>1, <1>2, <1>4, ViewStep DEF StorerInv, StorerTypeOK
<1> QED
    BY <1>3, <1>4

\* The view of a prefix depends on the topic alone.
LEMMA ViewUnchanged ==
    ASSUME UNCHANGED topic, NEW n
    PROVE  View(n)' = View(n)
BY DEF View, Newest, Decodes, ValidateNotification

\* StorerStart, FetchMessage, Handle and CommitMessages.
LEMMA StorerStepInv ==
    ASSUME StorerInv, topic \in Seq(Payload), StorerStep
    PROVE  StorerInv'
<1> USE DEF topicVars
<1>1. topic' = topic
    BY DEF StorerStep, StorerStart, FetchMessage, Handle, CommitMessages
<1>2. \A n : View(n)' = View(n)
    BY <1>1, ViewUnchanged
<1>3. committed \in Nat /\ Len(topic) \in Nat
    BY DEF StorerInv, StorerTypeOK
<1>4. CASE StorerStart
    <2>1. StorerTypeOK' /\ ReaderAtCommitted'
        BY <1>1, <1>4 DEF StorerStart, StorerInv, StorerTypeOK, StorerLocations, ReaderAtCommitted
    <2>2. TableFollowsTopic' /\ SavedBeforeCommit'
        BY <1>1, <1>2, <1>4 DEF StorerStart, StorerInv, TableFollowsTopic, SavedBeforeCommit
    <2> QED
        BY <2>1, <2>2 DEF StorerInv
<1>5. CASE FetchMessage
    <2>1. StorerTypeOK' /\ ReaderAtCommitted'
        BY <1>1, <1>5 DEF FetchMessage, StorerInv, StorerTypeOK, StorerLocations, ReaderAtCommitted
    <2>2. TableFollowsTopic' /\ SavedBeforeCommit'
        BY <1>1, <1>2, <1>5 DEF FetchMessage, StorerInv, TableFollowsTopic, SavedBeforeCommit
    <2> QED
        BY <2>1, <2>2 DEF StorerInv
<1>6. CASE Handle
    <2>1. notifications' = View(committed + 1) /\ notifications' \subseteq Notification
        BY <1>6, HandledView DEF Handle
    <2>2. StorerTypeOK' /\ ReaderAtCommitted'
        BY <1>1, <1>6, <2>1 DEF Handle, StorerInv, StorerTypeOK, StorerLocations, ReaderAtCommitted
    <2>3. committed < Len(topic) /\ committed' = committed
        BY <1>6 DEF Handle, StorerInv, ReaderAtCommitted
    <2>4. TableFollowsTopic' /\ SavedBeforeCommit'
        BY <1>1, <1>2, <2>1, <2>3 DEF TableFollowsTopic, SavedBeforeCommit
    <2> QED
        BY <2>2, <2>4 DEF StorerInv
<1>7. CASE CommitMessages
    <2>1. /\ committed' = committed + 1 /\ committed < Len(topic)
          /\ notifications' = View(committed + 1)
          /\ location' = "fetch"
        BY <1>7 DEF CommitMessages, StorerInv, ReaderAtCommitted, SavedBeforeCommit
    <2>2. StorerTypeOK' /\ ReaderAtCommitted'
        BY <1>1, <1>3, <1>7, <2>1 DEF CommitMessages, StorerInv, StorerTypeOK, StorerLocations,
            ReaderAtCommitted
    <2>3. TableFollowsTopic' /\ SavedBeforeCommit'
        BY <1>1, <1>2, <2>1 DEF TableFollowsTopic, SavedBeforeCommit
    <2> QED
        BY <2>2, <2>3 DEF StorerInv
<1> QED
    BY <1>4, <1>5, <1>6, <1>7 DEF StorerStep

\* The storer ends, and what it was doing may have taken effect.
LEMMA StorerFailsInv ==
    ASSUME StorerInv, topic \in Seq(Payload), StorerFails
    PROVE  StorerInv'
<1> USE DEF topicVars
<1>1. topic' = topic /\ location' = "down" /\ position' = 0
    BY DEF StorerFails
<1>2. \A n : View(n)' = View(n)
    BY <1>1, ViewUnchanged
<1>3. committed \in Nat /\ Len(topic) \in Nat
    BY DEF StorerInv, StorerTypeOK
<1>4. /\ committed' \in Nat /\ committed' <= Len(topic)
      /\ notifications' \subseteq Notification
      /\ \/ notifications' = View(committed')
         \/ committed' < Len(topic) /\ notifications' = View(committed' + 1)
    <2>1. CASE UNCHANGED <<committed, notifications>>
        BY <2>1 DEF StorerInv, StorerTypeOK, ReaderAtCommitted, TableFollowsTopic
    <2>2. CASE /\ location = "handle"
               /\ Decodes(Fetched)
               /\ SaveNotification(Fetched)
               /\ UNCHANGED committed
        <3>1. notifications' = View(committed + 1) /\ notifications' \subseteq Notification
            BY <2>2, HandledView
        <3> QED
            BY <2>2, <3>1 DEF StorerInv, StorerTypeOK, ReaderAtCommitted
    <2>3. CASE /\ location = "commit"
               /\ committed' = position + 1
               /\ UNCHANGED notifications
        BY <1>3, <2>3 DEF StorerInv, StorerTypeOK, ReaderAtCommitted, SavedBeforeCommit
    <2> QED
        BY <2>1, <2>2, <2>3 DEF StorerFails
<1>5. StorerTypeOK' /\ ReaderAtCommitted' /\ SavedBeforeCommit'
    BY <1>1, <1>4 DEF StorerTypeOK, StorerLocations, ReaderAtCommitted, SavedBeforeCommit
<1>6. TableFollowsTopic'
    BY <1>1, <1>2, <1>4 DEF TableFollowsTopic
<1> QED
    BY <1>5, <1>6 DEF StorerInv

-----------------------------------------------------------------------------
(* The composed pipeline.                                                   *)

CInv == IInv /\ StorerInv /\ OnlyValidEvents

\* A topic and a storer that do not move.
LEMMA StorerStutter ==
    ASSUME StorerInv, UNCHANGED topic, UNCHANGED storerVars
    PROVE  StorerInv'
<1>1. \A n : View(n)' = View(n)
    BY ViewUnchanged
<1> QED
    BY <1>1 DEF storerVars, StorerInv, StorerTypeOK, ReaderAtCommitted, TableFollowsTopic,
        SavedBeforeCommit

\* A step of the scheduler side appends at most one payload.
LEMMA NextTopic ==
    ASSUME IInv, [Next]_vars
    PROVE  topic' = topic \/ \E p : topic' = Append(topic, p)
<1> USE DEF topicVars
<1>1. ASSUME NEW s \in Schedulers, SchedulerStep(s)
      PROVE  topic' = topic \/ \E p : topic' = Append(topic, p)
    BY <1>1 DEF SchedulerStep, RunOnce, Cleanup, List, Publish, Mark, Abort, Start, Tick, Stop,
        Cancel, Crash, PublishRetried, CallFails, AppendToTopic
<1>2. CASE ClientWrites \/ ClientDeletes \/ LateWriteLands \/ TimePasses
    BY <1>2 DEF ClientWrites, ClientDeletes, LateWriteLands, LateAppend, AppendToTopic,
        TimePasses
<1>3. CASE UNCHANGED vars
    BY <1>3 DEF vars
<1> QED
    BY <1>1, <1>2, <1>3 DEF Next

-----------------------------------------------------------------------------
(* Validity of the stored events.                                           *)

\* The rows an operation leaves in the table are valid.
LEMMA EditKeepsValid ==
    ASSUME events \subseteq Row, \A r \in events : ValidateEvent(r),
           \/ \E e \in Requests : CreateEvent(e) \/ UpdateEvent(e)
           \/ \E r \in events : DeleteEvent(r.id)
           \/ \E c \in Int : DeleteEventsBefore(c)
    PROVE  \A r \in events' : ValidateEvent(r)
<1>1. \A e \in Requests : ValidateEvent(e) => ValidateEvent(NewRow(e))
    BY DEF ValidateEvent, NewRow
<1>2. CASE \E e \in Requests : CreateEvent(e)
    BY <1>1, <1>2 DEF CreateEvent
<1>3. CASE \E e \in Requests : UpdateEvent(e)
    BY <1>1, <1>3 DEF UpdateEvent
<1>4. CASE \E r \in events : DeleteEvent(r.id)
    BY <1>4 DEF DeleteEvent
<1>5. CASE \E c \in Int : DeleteEventsBefore(c)
    BY <1>5 DEF DeleteEventsBefore
<1> QED
    BY <1>2, <1>3, <1>4, <1>5

LEMMA MarkKeepsValid ==
    ASSUME events \subseteq Row, \A r \in events : ValidateEvent(r),
           NEW e, MarkNotificationSent(e)
    PROVE  \A r \in events' : ValidateEvent(r)
<1> SUFFICES ASSUME NEW r \in events' PROVE ValidateEvent(r)
    OBVIOUS
<1>1. PICK q \in events : r = IF q \in SnapshotRows(e) THEN [q EXCEPT !.sent = TRUE] ELSE q
    BY DEF MarkNotificationSent
<1>2. r.id = q.id /\ r.title = q.title /\ r.userID = q.userID /\ r.endAt = q.endAt
      /\ r.startAt = q.startAt /\ r.notifyBefore = q.notifyBefore
    BY <1>1 DEF Row
<1> QED
    BY <1>2 DEF ValidateEvent

\* A valid row has a valid notification.
LEMMA ValidNotificationOf ==
    ASSUME NEW r \in Row, ValidateEvent(r)
    PROVE  Decodes(NotificationOf(r))
<1>1. NotificationOf(r) \in Notification
    BY NotificationType
<1>2. ValidateNotification(NotificationOf(r))
    BY DEF ValidateNotification, ValidateEvent, NotificationOf, BlankText
<1> QED
    BY <1>1, <1>2 DEF Decodes

\* OnlyValidEvents is inductive relative to the type invariant.
LEMMA NextValid ==
    ASSUME IInv, OnlyValidEvents, [Next]_vars
    PROVE  OnlyValidEvents'
<1> USE DEF topicVars, cycleVars, schedulerVars
<1>1. events \subseteq Row /\ \A r \in events : ValidateEvent(r)
    BY DEF IInv, TypeOK, StorageTypeOK, OnlyValidEvents
<1>2. \A r \in events' : ValidateEvent(r)
    BY <1>1, EventsStep, EditKeepsValid, MarkKeepsValid
<1>3. \A t \in Schedulers : batch'[t] \subseteq batch[t] \cup events
    <2>1. ASSUME NEW s \in Schedulers, SchedulerStep(s)
          PROVE  \/ batch' = batch
                 \/ \E b : b \subseteq batch[s] \cup events /\ batch' = [batch EXCEPT ![s] = b]
        BY <2>1 DEF SchedulerStep, RunOnce, Cleanup, List, Publish, Mark, Abort, Start, Tick,
            Stop, Cancel, Crash, PublishRetried, CallFails, BeginCycle, Return, AfterMark,
            ListEventsForNotification
    <2>2. CASE ClientWrites \/ ClientDeletes \/ LateWriteLands \/ TimePasses
        BY <2>2 DEF ClientWrites, ClientDeletes, LateWriteLands, TimePasses
    <2>3. CASE UNCHANGED vars
        BY <2>3 DEF vars
    <2> QED
        BY <2>1, <2>2, <2>3 DEF Next, IInv, TypeOK
<1> QED
    BY <1>1, <1>2, <1>3 DEF OnlyValidEvents

-----------------------------------------------------------------------------
(* The invariant of the composition.                                        *)

LEMMA InitCInv == CalendarInit => CInv
<1> SUFFICES ASSUME CalendarInit PROVE CInv
    OBVIOUS
<1>1. IInv
    BY InitIInv DEF CalendarInit
<1>2. OnlyValidEvents
    BY DEF CalendarInit, Init, StorageInit, OnlyValidEvents
<1>3. topic = << >> /\ committed = 0 /\ notifications = {} /\ location = "down" /\ position = 0
    BY DEF CalendarInit, Init, TopicInit, StorerInit
<1>4. View(0) = {}
    BY DEF View
<1>5. StorerInv
    BY <1>3, <1>4 DEF StorerInv, StorerTypeOK, StorerLocations, ReaderAtCommitted,
        TableFollowsTopic, SavedBeforeCommit
<1> QED
    BY <1>1, <1>2, <1>5 DEF CInv

\* Steps that only move the storer, the fault counter or a foreign payload.
LEMMA SchedulerSideKept ==
    ASSUME IInv, OnlyValidEvents, UNCHANGED schedulerSideVars,
           late' = late, faults' \in Nat,
           topic' \in Seq(Payload), Published \subseteq Published'
    PROVE  IInv' /\ OnlyValidEvents'
<1> USE DEF schedulerSideVars, schedulerVars
<1>1. TypeOK'
    BY DEF IInv, TypeOK, StorageTypeOK, TopicTypeOK
<1>2. MarkedIsPublished'
    BY MarksStayPublished DEF IInv
<1>3. LoopHasEvent' /\ PublishedBeforeMark'
    BY LoopKept
<1>4. OnlyValidEvents'
    BY DEF OnlyValidEvents
<1> QED
    BY <1>1, <1>2, <1>3, <1>4 DEF IInv

LEMMA NextCInv ==
    ASSUME CInv, [CalendarNext]_calendarVars
    PROVE  CInv'
<1>1. IInv /\ StorerInv /\ OnlyValidEvents /\ topic \in Seq(Payload) /\ faults \in Nat
    BY DEF CInv, IInv, TypeOK, TopicTypeOK
<1>2. CASE [Next]_vars /\ UNCHANGED storerVars
    <2>1. IInv' /\ OnlyValidEvents'
        BY <1>1, <1>2, NextIInv, NextValid
    <2>2. StorerInv'
        BY <1>1, <1>2, NextTopic, TopicGrowth, StorerStutter
    <2> QED
        BY <2>1, <2>2 DEF CInv
<1>3. CASE StorerRuns
    <2>1. topic' = topic /\ late' = late
        BY <1>3 DEF StorerRuns, StorerStep, StorerStart, FetchMessage, Handle, CommitMessages,
            topicVars
    <2>2. Published' = Published
        BY <2>1 DEF Published
    <2>3. IInv' /\ OnlyValidEvents'
        BY <1>1, <1>3, <2>1, <2>2, SchedulerSideKept DEF StorerRuns
    <2>4. StorerInv'
        BY <1>1, <1>3, StorerStepInv DEF StorerRuns
    <2> QED
        BY <2>3, <2>4 DEF CInv
<1>4. CASE StorerBreaks
    <2>1. topic' = topic /\ late' = late /\ faults' \in Nat
        BY <1>1, <1>4, FaultType DEF StorerBreaks, StorerFails, topicVars
    <2>2. Published' = Published
        BY <2>1 DEF Published
    <2>3. IInv' /\ OnlyValidEvents'
        BY <1>1, <1>4, <2>1, <2>2, SchedulerSideKept DEF StorerBreaks
    <2>4. StorerInv'
        BY <1>1, <1>4, StorerFailsInv DEF StorerBreaks
    <2> QED
        BY <2>3, <2>4 DEF CInv
<1>5. CASE ForeignPayload
    <2>1. Malformed \in Payload /\ faults' \in Nat
        BY <1>1, <1>5, FaultType DEF ForeignPayload, Payload
    <2>2. topic' \in Seq(Payload) /\ Published \subseteq Published'
        BY <1>1, <1>5, <2>1, AppendGrows DEF ForeignPayload
    <2>3. IInv' /\ OnlyValidEvents'
        BY <1>1, <1>5, <2>1, <2>2, SchedulerSideKept DEF ForeignPayload
    <2>4. StorerInv'
        BY <1>1, <1>5, TopicGrowth DEF ForeignPayload, AppendToTopic
    <2> QED
        BY <2>3, <2>4 DEF CInv
<1>6. CASE UNCHANGED calendarVars
    <2>1. [Next]_vars /\ UNCHANGED storerVars
        BY <1>6 DEF calendarVars
    <2> QED
        BY <1>2, <2>1
<1> QED
    BY <1>2, <1>3, <1>4, <1>5, <1>6 DEF CalendarNext

THEOREM CalendarInvariant == CalendarSpec => []CInv
BY InitCInv, NextCInv, PTL DEF CalendarSpec

\* The notifications table is always the committed prefix of the topic or one
\* payload ahead of it, whatever the schedulers, late writes and crashes do.
THEOREM TableAlwaysFollowsTopic == CalendarSpec => []TableFollowsTopic
<1>1. CInv => TableFollowsTopic
    BY DEF CInv, StorerInv
<1> QED
    BY <1>1, CalendarInvariant, PTL

\* The table moves forward only: a step that changes it saves the payload after
\* the committed ones, and leaves exactly the view of one payload more.
THEOREM TableNeverMovesBack == CalendarSpec => TableNeverGoesBack
<1>1. CInv /\ [CalendarNext]_calendarVars =>
          [committed < Len(topic) /\ notifications' = View(committed + 1)]_notifications
    <2> SUFFICES ASSUME CInv, [CalendarNext]_calendarVars, notifications' # notifications
                 PROVE  committed < Len(topic) /\ notifications' = View(committed + 1)
        OBVIOUS
    <2>1. location = "handle" /\ Decodes(Fetched) /\ SaveNotification(Fetched)
        BY DEF CalendarNext, calendarVars, storerVars, StorerRuns, StorerStep, StorerStart,
            FetchMessage, Handle, CommitMessages, StorerBreaks, StorerFails, ForeignPayload
    <2>2. StorerInv /\ topic \in Seq(Payload)
        BY DEF CInv, IInv, TypeOK, TopicTypeOK
    <2>3. notifications' = View(committed + 1)
        BY <2>1, <2>2, HandledView
    <2> QED
        BY <2>1, <2>2, <2>3 DEF StorerInv, ReaderAtCommitted
<1> QED
    BY <1>1, CalendarInvariant, PTL DEF CalendarSpec, TableNeverGoesBack

-----------------------------------------------------------------------------
(* One scheduler, no late writes: the table agrees with the marks.          *)

\* A malformed payload is the last word on nothing.
LEMMA SoleForeign ==
    ASSUME IInv, SoleInv, AppendToTopic(Malformed), UNCHANGED <<late, schedulerSideVars>>
    PROVE  SoleInv'
<1> USE DEF schedulerSideVars, schedulerVars
<1>1. topic \in Seq(Payload)
    BY DEF IInv, TypeOK, TopicTypeOK
<1>2. \A id, m : LastWordOn(id, m) => LastWordOn(id, m)'
    BY <1>1, LastWordKept DEF AppendToTopic
<1>3. CurrentIsLastWord'
    BY <1>2 DEF SoleInv, CurrentIsLastWord, Current, NotificationOf
<1>4. MarkIsLastWord'
    BY <1>2 DEF SoleInv, MarkIsLastWord, NotificationOf
<1> QED
    BY <1>3, <1>4 DEF SoleInv, InHandUnsent, DistinctInHand

\* The invariants of the scheduler side in the pipeline.
LEMMA SoleCalendar ==
    ASSUME Sole
    PROVE  CalendarSpec => [](CInv /\ SoleInv)
<1> DEFINE Inv == BookingsConsistent /\ SoleInv
<1>1. CalendarInit => Inv
    BY InitSole DEF CalendarInit
<1>2. CInv /\ Inv /\ [CalendarNext]_calendarVars => Inv'
    <2> SUFFICES ASSUME CInv, Inv, [CalendarNext]_calendarVars
                 PROVE  Inv'
        OBVIOUS
    <2>1. IInv
        BY DEF CInv
    <2>2. CASE [Next]_vars
        BY <2>1, <2>2, NextBookings, NextSole
    <2>3. CASE ForeignPayload
        BY <2>1, <2>3, SoleForeign DEF ForeignPayload, schedulerSideVars, BookingsConsistent,
            UniqueIds, NoDoubleBooking
    <2>4. CASE StorerRuns \/ StorerBreaks
        <3>1. UNCHANGED <<topic, late, schedulerSideVars>>
            BY <2>4 DEF StorerRuns, StorerStep, StorerStart, FetchMessage, Handle,
                CommitMessages, StorerBreaks, StorerFails, topicVars
        <3> QED
            BY <3>1, SoleKept DEF schedulerSideVars, schedulerVars, BookingsConsistent,
                UniqueIds, NoDoubleBooking
    <2> QED
        BY <2>2, <2>3, <2>4 DEF CalendarNext, calendarVars
<1>3. CalendarSpec => []CInv
    BY CalendarInvariant
<1> QED
    BY <1>1, <1>2, <1>3, PTL DEF CalendarSpec

\* The last word on an event is what a table holds that has absorbed the topic.
LEMMA LastWordInView ==
    ASSUME topic \in Seq(Payload), NEW m, Decodes(m), LastWordOn(m.eventID, m)
    PROVE  m \in View(Len(topic))
<1>1. PICK i \in 1..Len(topic) :
          /\ topic[i] = m
          /\ \A j \in (i + 1)..Len(topic) :
                topic[j] # Malformed => topic[j].eventID # m.eventID
    BY DEF LastWordOn
<1>2. \A p : Decodes(p) => p # Malformed
    BY MalformedAssumption DEF Decodes
<1>3. Newest(i, Len(topic))
    BY <1>1, <1>2 DEF Newest
<1> QED
    BY <1>1, <1>3 DEF View

\* With one scheduler and no late writes, a storer that has committed the whole
\* topic has stored, for every marked event, its current title, time and user.
THEOREM CaughtUpTableAlwaysAgrees ==
    ASSUME Sole
    PROVE  CalendarSpec => []CaughtUpTableAgrees
<1>1. CInv /\ SoleInv => CaughtUpTableAgrees
    <2> SUFFICES ASSUME CInv, SoleInv, committed = Len(topic), NEW r \in events, r.sent
                 PROVE  NotificationOf(r) \in notifications
        BY DEF CaughtUpTableAgrees
    <2>1. topic \in Seq(Payload) /\ r \in Row /\ ValidateEvent(r)
        BY DEF CInv, IInv, TypeOK, StorageTypeOK, TopicTypeOK, OnlyValidEvents
    <2>2. Decodes(NotificationOf(r))
        BY <2>1, ValidNotificationOf
    <2>3. LastWordOn(r.id, NotificationOf(r)) /\ NotificationOf(r).eventID = r.id
        BY DEF SoleInv, MarkIsLastWord, NotificationOf
    <2>4. NotificationOf(r) \in View(committed)
        BY <2>1, <2>2, <2>3, LastWordInView
    <2>5. notifications = View(committed)
        BY <2>1 DEF CInv, StorerInv, TableFollowsTopic
    <2> QED
        BY <2>4, <2>5
<1> QED
    BY <1>1, SoleCalendar, PTL

-----------------------------------------------------------------------------
(* The pipeline implements ReminderLedger.                                  *)

\* What the ledger calls the notification of an event is what publish builds.
LEMMA SameLedgerNotification ==
    \A e : Ledger!NotificationFor(e) = NotificationOf(e)
BY DEF Ledger!NotificationFor, NotificationOf

LEMMA AnnouncedGrows ==
    ASSUME Published \subseteq Published'
    PROVE  Announced \subseteq Announced'
BY DEF Announced, Decodes, ValidateNotification

LEMMA AnnouncedKept ==
    ASSUME UNCHANGED topic
    PROVE  Announced' = Announced
BY DEF Announced, Published, Decodes, ValidateNotification

\* A client's call or the retention is an Edit.
LEMMA EditStep ==
    ASSUME CInv, UNCHANGED <<topic, notifications>>,
           \/ \E e \in Requests : CreateEvent(e) \/ UpdateEvent(e)
           \/ \E r \in events : DeleteEvent(r.id)
           \/ \E c \in Int : DeleteEventsBefore(c)
    PROVE  Ledger!Edit
<1>1. \A r \in events' : r.sent => r \in events
    BY EditKeepsMarks DEF CInv, IInv, TypeOK, StorageTypeOK
<1> QED
    BY <1>1, AnnouncedKept DEF Ledger!Edit, Ledger!Marked

\* The mark of the published event is a SetMarks.
LEMMA SetMarksStep ==
    ASSUME CInv, NEW s \in Schedulers, pc[s] = "mark", MarkNotificationSent(Current(s)),
           UNCHANGED <<topic, notifications>>
    PROVE  Ledger!SetMarks
<1> DEFINE chosen == SnapshotRows(Current(s))
<1>1. chosen \in SUBSET events
    BY DEF SnapshotRows
<1>2. \A r \in chosen : Ledger!NotificationFor(r) \in Announced
    <2> TAKE r \in chosen
    <2>1. r \in Row /\ ValidateEvent(r) /\ SameSnapshot(r, Current(s))
        BY DEF SnapshotRows, CInv, IInv, TypeOK, StorageTypeOK, OnlyValidEvents
    <2>2. NotificationOf(r) \in Published
        BY <2>1, SameNotification DEF CInv, IInv, PublishedBeforeMark
    <2>3. Decodes(NotificationOf(r))
        BY <2>1, ValidNotificationOf
    <2> QED
        BY <2>2, <2>3, SameLedgerNotification DEF Announced
<1>3. events' = {IF r \in chosen THEN [r EXCEPT !.sent = TRUE] ELSE r : r \in events}
    BY DEF MarkNotificationSent
<1>4. Announced' = Announced
    BY AnnouncedKept
<1> QED
    BY <1>1, <1>2, <1>3, <1>4 DEF Ledger!SetMarks

\* Saving the fetched payload is a Store.
LEMMA StoreStep ==
    ASSUME CInv, location = "handle", Decodes(Fetched), SaveNotification(Fetched),
           UNCHANGED <<topic, events>>
    PROVE  Ledger!Store
<1>1. position + 1 \in 1..Len(topic)
    BY DEF CInv, IInv, TypeOK, TopicTypeOK, StorerInv, StorerTypeOK, ReaderAtCommitted
<1>2. Fetched \in Announced
    BY <1>1 DEF Fetched, Announced, Published
<1>3. Announced' = Announced
    BY AnnouncedKept
<1> QED
    BY <1>2, <1>3 DEF Ledger!Store, SaveNotification

\* Every step of a scheduler, a client, Kafka or time.
LEMMA SchedulerSideRefines ==
    ASSUME CInv, Next, UNCHANGED storerVars
    PROVE  Ledger!LedgerNext \/ UNCHANGED <<events, Announced, notifications>>
<1> USE DEF topicVars
<1>1. UNCHANGED notifications
    BY DEF storerVars
<1>2. ASSUME events' = events
      PROVE  Ledger!LedgerNext
    <2>1. Published \subseteq Published'
        <3>1. topic \in Seq(Payload)
            BY DEF CInv, IInv, TypeOK, TopicTypeOK
        <3>2. CASE topic' = topic
            BY <3>2 DEF Published
        <3>3. CASE \E p : topic' = Append(topic, p)
            BY <3>1, <3>3 DEF Published
        <3> QED
            BY <3>2, <3>3, NextTopic DEF CInv
    <2> QED
        BY <1>1, <1>2, <2>1, AnnouncedGrows DEF Ledger!LedgerNext, Ledger!Announce
<1>3. ASSUME NEW s \in Schedulers, SchedulerStep(s)
      PROVE  \/ events' = events
             \/ DeleteEventsBefore(Expired(s)) /\ UNCHANGED topic
             \/ pc[s] = "mark" /\ MarkNotificationSent(Current(s)) /\ UNCHANGED topic
    BY <1>3 DEF SchedulerStep, RunOnce, Cleanup, List, Publish, Mark, Abort, Start, Tick, Stop,
        Cancel, Crash, PublishRetried, CallFails
<1>4. \A s \in Schedulers : Expired(s) \in Int
    BY SchedulerAssumption DEF Expired, CInv, IInv, TypeOK
<1>5. CASE \E s \in Schedulers : SchedulerStep(s)
    BY <1>1, <1>2, <1>3, <1>4, <1>5, EditStep, SetMarksStep DEF Ledger!LedgerNext
<1>6. CASE ClientWrites \/ ClientDeletes
    <2>1. UNCHANGED topic
        BY <1>6 DEF ClientWrites, ClientDeletes
    <2> QED
        BY <1>1, <1>6, <2>1, EditStep DEF ClientWrites, ClientDeletes, Ledger!LedgerNext
<1>7. CASE LateWriteLands \/ TimePasses
    BY <1>2, <1>7 DEF LateWriteLands, TimePasses
<1> QED
    BY <1>5, <1>6, <1>7 DEF Next

\* Every step of the pipeline is a step of the ledger or changes nothing in it.
LEMMA StepRefines ==
    ASSUME CInv, [CalendarNext]_calendarVars
    PROVE  [Ledger!LedgerNext]_<<events, Announced, notifications>>
<1> USE DEF topicVars, schedulerSideVars
<1>1. CASE Next /\ UNCHANGED storerVars
    BY <1>1, SchedulerSideRefines
<1>2. CASE StorerRuns
    <2>1. UNCHANGED <<topic, events>>
        BY <1>2 DEF StorerRuns, StorerStep, StorerStart, FetchMessage, Handle, CommitMessages
    <2>2. UNCHANGED notifications \/
          (location = "handle" /\ Decodes(Fetched) /\ SaveNotification(Fetched))
        BY <1>2 DEF StorerRuns, StorerStep, StorerStart, FetchMessage, Handle, CommitMessages
    <2> QED
        BY <2>1, <2>2, AnnouncedKept, StoreStep DEF Ledger!LedgerNext
<1>3. CASE StorerBreaks
    <2>1. UNCHANGED <<topic, events>>
        BY <1>3 DEF StorerBreaks, StorerFails
    <2>2. UNCHANGED notifications \/
          (location = "handle" /\ Decodes(Fetched) /\ SaveNotification(Fetched))
        BY <1>3 DEF StorerBreaks, StorerFails
    <2> QED
        BY <2>1, <2>2, AnnouncedKept, StoreStep DEF Ledger!LedgerNext
<1>4. CASE ForeignPayload
    <2>1. Published \subseteq Published'
        BY <1>4, AppendGrows DEF ForeignPayload, Payload, CInv, IInv, TypeOK, TopicTypeOK
    <2> QED
        BY <1>4, <2>1, AnnouncedGrows DEF ForeignPayload, storerVars, Ledger!LedgerNext,
            Ledger!Announce
<1>5. CASE UNCHANGED calendarVars
    BY <1>5, AnnouncedKept DEF calendarVars, vars, storerVars
<1> QED
    BY <1>1, <1>2, <1>3, <1>4, <1>5 DEF CalendarNext

LEMMA InitRefines == CalendarInit => Ledger!LedgerInit
<1> SUFFICES ASSUME CalendarInit PROVE Ledger!LedgerInit
    OBVIOUS
<1>1. Announced = {}
    BY DEF CalendarInit, Init, TopicInit, Announced, Published
<1> QED
    BY <1>1 DEF CalendarInit, Init, StorageInit, StorerInit, Ledger!LedgerInit

\* The pipeline implements ReminderLedger: no mark without the announcement of
\* the row's current content, and nothing stored that was not announced.
THEOREM CalendarImplementsLedger == CalendarSpec => ImplementsLedger
BY InitRefines, CalendarInvariant, StepRefines, PTL
DEF CalendarSpec, ImplementsLedger, Ledger!LedgerSpec
=============================================================================
