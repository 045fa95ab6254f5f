---------------------------- MODULE EventStorage ----------------------------
(***************************************************************************)
(* The events table of the calendar and the operations of                  *)
(* internal/storage/sql on it.  The table is a relation: a set of rows.    *)
(* Every operation is one SQL statement, hence one atomic step.  A call    *)
(* that fails (validation, PRIMARY KEY, events_no_overlap, no such id)     *)
(* leaves the table as it is, which is a stuttering step.                  *)
(*                                                                         *)
(* Instants and durations are natural numbers of one time unit.  The       *)
(* description column is left out: no statement reads it.  The column      *)
(* notification_sent_at is kept as the Boolean "is not NULL".              *)
(***************************************************************************)
EXTENDS Integers, FiniteSets

CONSTANTS
    Requests,   \* the events that API clients submit, valid or not
    Cutoffs     \* retention cutoffs the storage is asked to apply

VARIABLE events

BlankText == ""

\* storage.Event as a client submits it.  ORDER BY compares ids, so they are
\* numbers; 0 stands for the blank id and for the zero time.
Event == [id : Nat, title : STRING, startAt : Nat, endAt : Nat,
          userID : STRING, notifyBefore : Int]

ASSUME RequestsAssumption == Requests \subseteq Event
ASSUME CutoffsAssumption == Cutoffs \subseteq Nat

Row == [id : Nat, title : STRING, startAt : Nat, endAt : Nat,
        userID : STRING, notifyBefore : Nat, sent : BOOLEAN]

-----------------------------------------------------------------------------
\* Required fields, a period that ends after it starts, no negative reminder.
ValidateEvent(e) ==
    /\ e.id # 0
    /\ e.title # BlankText
    /\ e.userID # BlankText
    /\ e.startAt # 0 /\ e.endAt # 0
    /\ e.endAt > e.startAt
    /\ e.notifyBefore >= 0

\* The row an INSERT or UPDATE writes: notification_sent_at is NULL in both.
NewRow(e) ==
    [id |-> e.id, title |-> e.title, startAt |-> e.startAt, endAt |-> e.endAt,
     userID |-> e.userID, notifyBefore |-> e.notifyBefore, sent |-> FALSE]

\* The half-open periods [start_at, end_at) of two rows intersect.
Overlap(p, q) == p.startAt < q.endAt /\ q.startAt < p.endAt

\* Mutant: only the start of the new period is looked up.
DateBusyAtStart(e) ==
    \E r \in events :
        r.id # e.id /\ r.userID = e.userID /\ r.startAt <= e.startAt /\ e.startAt < r.endAt

\* events_no_overlap (migration 00001): another row of the user is in the way.
DateBusy(e) == \E r \in events : r.id # e.id /\ r.userID = e.userID /\ Overlap(r, e)

HasId(id) == \E r \in events : r.id = id

CreateEvent(e) ==
    /\ ValidateEvent(e)
    /\ ~HasId(e.id)
    /\ ~DateBusy(e)
    /\ events' = events \cup {NewRow(e)}

\* Mutant: the update keeps notification_sent_at.
UpdateEventKeepsMark(e) ==
    /\ ValidateEvent(e)
    /\ HasId(e.id)
    /\ ~DateBusy(e)
    /\ events' = {IF r.id = e.id THEN [NewRow(e) EXCEPT !.sent = r.sent] ELSE r
                    : r \in events}

UpdateEvent(e) ==
    /\ ValidateEvent(e)
    /\ HasId(e.id)
    /\ ~DateBusy(e)
    /\ events' = {IF r.id = e.id THEN NewRow(e) ELSE r : r \in events}

DeleteEvent(id) ==
    /\ HasId(id)
    /\ events' = {r \in events : r.id # id}

\* DELETE FROM events WHERE start_at < cutoff
DeleteEventsBefore(cutoff) == events' = {r \in events : r.startAt >= cutoff}

-----------------------------------------------------------------------------
\* Mutant: the moment at which the reminder becomes due is left out.
ReadyAfterReminderTime(r, now) ==
    /\ r.notifyBefore > 0
    /\ ~r.sent
    /\ r.startAt > now
    /\ r.startAt < now + r.notifyBefore

\* Mutant: marked events are listed too.
ReadyThoughMarked(r, now) ==
    r.notifyBefore > 0 /\ r.startAt > now /\ r.startAt <= now + r.notifyBefore

\* The WHERE clause of ListEventsForNotification.
ReadyForNotification(r, now) ==
    /\ r.notifyBefore > 0
    /\ ~r.sent
    /\ r.startAt > now
    /\ r.startAt <= now + r.notifyBefore

\* ORDER BY start_at, id
Before(p, q) == p.startAt < q.startAt \/ (p.startAt = q.startAt /\ p.id < q.id)

\* ORDER BY ... LIMIT: the rows with fewer than limit ready rows before them.
ListEventsForNotification(now, limit) ==
    LET ready == {r \in events : ReadyForNotification(r, now)}
    IN  {r \in ready : Cardinality({q \in ready : Before(q, r)}) < limit}

\* Mutant: the mark compares everything but the title.
SameSnapshotAnyTitle(r, e) ==
    /\ r.id = e.id
    /\ r.startAt = e.startAt
    /\ r.userID = e.userID
    /\ r.notifyBefore = e.notifyBefore

\* The WHERE clause of MarkNotificationSent for the published snapshot e.
SameSnapshot(r, e) ==
    /\ r.id = e.id
    /\ r.title = e.title
    /\ r.startAt = e.startAt
    /\ r.userID = e.userID
    /\ r.notifyBefore = e.notifyBefore

SnapshotRows(e) == {r \in events : SameSnapshot(r, e) /\ ~r.sent}

\* What MarkNotificationSent returns: rowsAffected == 1.
WillMark(e) == Cardinality(SnapshotRows(e)) = 1

MarkNotificationSent(e) ==
    events' = {IF r \in SnapshotRows(e) THEN [r EXCEPT !.sent = TRUE] ELSE r
                 : r \in events}

-----------------------------------------------------------------------------
\* API clients.
ClientCall ==
    \E e \in Requests : CreateEvent(e) \/ UpdateEvent(e) \/ DeleteEvent(e.id)

\* Any scheduler: a mark may arrive for a snapshot that is no longer current.
SchedulerCall ==
    \/ \E e \in Requests : ValidateEvent(e) /\ MarkNotificationSent(NewRow(e))
    \/ \E cutoff \in Cutoffs : DeleteEventsBefore(cutoff)

StorageInit == events = {}
StorageNext == ClientCall \/ SchedulerCall
StorageSpec == StorageInit /\ [][StorageNext]_events

-----------------------------------------------------------------------------
StorageTypeOK == events \subseteq Row

\* Nobody is booked twice: the periods of two events of one user never
\* intersect, whatever sequence of creations, updates and deletions led here.
NoDoubleBooking ==
    \A p, q \in events :
        p # q /\ p.userID = q.userID => p.endAt <= q.startAt \/ q.endAt <= p.startAt

\* PRIMARY KEY (id): an id names one row, so rowsAffected is 0 or 1 and a mark
\* cannot reach two events.
UniqueIds == \A p, q \in events : p.id = q.id => p = q

\* What clients of the calendar rely on, with schedulers and failures around.
BookingsConsistent == UniqueIds /\ NoDoubleBooking
=============================================================================
