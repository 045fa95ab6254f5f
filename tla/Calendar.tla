------------------------------- MODULE Calendar -------------------------------
(***************************************************************************)
(* The reminder pipeline end to end: API clients, the schedulers, the      *)
(* Kafka topic and the storer.  The processes share the topic and one      *)
(* PostgreSQL database, of which the schedulers use the events table and   *)
(* the storer the notifications table.                                     *)
(***************************************************************************)
EXTENDS Scheduler, Storer

calendarVars == <<vars, storerVars>>

CalendarInit == Init /\ StorerInit

\* Everything the storer does not touch.
schedulerSideVars == <<events, clock, schedulerVars, writes>>

StorerRuns == StorerStep /\ UNCHANGED <<schedulerSideVars, faults>>

StorerBreaks == Fault /\ StorerFails /\ UNCHANGED schedulerSideVars

\* Another program writes something else to the topic.
ForeignPayload ==
    /\ Fault
    /\ AppendToTopic(Malformed)
    /\ UNCHANGED <<late, schedulerSideVars, storerVars>>

CalendarNext ==
    \/ Next /\ UNCHANGED storerVars
    \/ StorerRuns
    \/ StorerBreaks
    \/ ForeignPayload

CalendarSpec == CalendarInit /\ [][CalendarNext]_calendarVars

\* The fairness of Scheduler and, for the storer, that its calls return and
\* that it is started again.
CalendarFairness ==
    /\ \A s \in Schedulers :
          /\ WF_calendarVars(RunOnce(s) /\ UNCHANGED storerVars)
          /\ WF_calendarVars(Tick(s) /\ UNCHANGED storerVars)
          /\ WF_calendarVars(Stop(s) /\ UNCHANGED storerVars)
          /\ WF_calendarVars(Start(s) /\ UNCHANGED storerVars)
    /\ WF_calendarVars(StorerRuns)

FairCalendarSpec == CalendarSpec /\ CalendarFairness

-----------------------------------------------------------------------------
\* What has been announced are the valid payloads of the topic.
Announced == {p \in Published : Decodes(p)}
Ledger == INSTANCE ReminderLedger WITH announced <- Announced

\* The pipeline implements the promise of ReminderLedger: no mark without the
\* announcement of the row's current content, and nothing stored that was not
\* announced.
ImplementsLedger == Ledger!LedgerSpec

\* Once the storer has read the whole topic, the notifications table agrees with
\* every marked event: title, time and user are those the event has now (one
\* scheduler, no late write).
CaughtUpTableAgrees ==
    committed = Len(topic) =>
        \A r \in events : r.sent => NotificationOf(r) \in notifications

\* End to end: a due reminder reaches the notifications table, unless the event
\* starts, is changed or is deleted first.
DueReminderIsStored ==
    \A e \in Requests :
        (NewRow(e) \in events /\ DueAt(e, clock))
            ~> \/ NotificationOf(e) \in notifications
               \/ clock >= e.startAt
               \/ \A r \in events : ~SameSnapshot(r, e)
===============================================================================
