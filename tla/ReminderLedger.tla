---------------------------- MODULE ReminderLedger ----------------------------
(***************************************************************************)
(* What the reminder pipeline of the calendar promises, whatever happens   *)
(* between its processes: a mark is set only on an event whose current     *)
(* notification was announced, nothing but the scheduler sets marks, and   *)
(* only announced notifications are stored, one per event.                 *)
(***************************************************************************)
EXTENDS Naturals

VARIABLES
    events,         \* the events table, as in EventStorage
    announced,      \* notifications that were announced at some time
    notifications   \* the notifications table

NotificationFor(e) ==
    [eventID |-> e.id, title |-> e.title, eventAt |-> e.startAt, userID |-> e.userID]

Marked == {r \in events : r.sent}

LedgerInit == events = {} /\ announced = {} /\ notifications = {}

\* Clients and retention change rows, but leave no mark that was not there.
Edit ==
    /\ {r \in events' : r.sent} \subseteq Marked
    /\ UNCHANGED <<announced, notifications>>

Announce ==
    /\ announced \subseteq announced'
    /\ UNCHANGED <<events, notifications>>

SetMarks ==
    /\ \E chosen \in SUBSET events :
          /\ \A r \in chosen : NotificationFor(r) \in announced
          /\ events' = {IF r \in chosen THEN [r EXCEPT !.sent = TRUE] ELSE r : r \in events}
    /\ UNCHANGED <<announced, notifications>>

Store ==
    /\ \E n \in announced :
          notifications' = {m \in notifications : m.eventID # n.eventID} \cup {n}
    /\ UNCHANGED <<events, announced>>

LedgerNext == Edit \/ Announce \/ SetMarks \/ Store
LedgerSpec == LedgerInit /\ [][LedgerNext]_<<events, announced, notifications>>
===============================================================================
