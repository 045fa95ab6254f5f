-------------------------------- MODULE Storer --------------------------------
(***************************************************************************)
(* calendar_storer: kafka.Consumer fetches a payload, storer.handle saves  *)
(* it with an upsert into the notifications table, and the offset is       *)
(* committed afterwards, synchronously.  Any error ends Consume and with   *)
(* it the process; the next process resumes at the committed offset.       *)
(*                                                                         *)
(* One process at a time reads the single partition of the topic, because  *)
(* all of them belong to one consumer group.                               *)
(***************************************************************************)
EXTENDS NotificationTopic, FiniteSets

VARIABLES
    location,       \* where the storer is
    position,       \* the reader's offset: messages it has gone past
    committed,      \* the group's committed offset, kept by Kafka
    notifications   \* the notifications table, kept by PostgreSQL

storerVars == <<location, position, committed, notifications>>

StorerLocations == {"down", "fetch", "handle", "commit"}

StorerInit ==
    /\ location = "down"
    /\ position = 0
    /\ committed = 0
    /\ notifications = {}

\* Notification.Validate; the other fields are never blank in the model.
ValidateNotification(n) == n.title # "" /\ n.userID # ""

\* decodeNotification succeeds: JSON of the right shape with the required data.
Decodes(p) == p \in Notification /\ ValidateNotification(p)

\* Mutant: the conflict clause leaves out title = EXCLUDED.title.
SaveNotificationKeepingTitle(n) ==
    LET old == {m \in notifications : m.eventID = n.eventID}
    IN  notifications' = (notifications \ old) \cup
            (IF old = {} THEN {n} ELSE {[n EXCEPT !.title = m.title] : m \in old})

\* INSERT ... ON CONFLICT (event_id) DO UPDATE
SaveNotification(n) ==
    notifications' = {m \in notifications : m.eventID # n.eventID} \cup {n}

-----------------------------------------------------------------------------
\* Mutant: StartOffset is LastOffset.
StorerStartAtEnd ==
    /\ location = "down"
    /\ location' = "fetch"
    /\ position' = IF committed = 0 THEN Len(topic) ELSE committed
    /\ UNCHANGED <<committed, notifications, topicVars>>

\* Mutant: the committed offset is ignored.
StorerStartAtFirst ==
    /\ location = "down"
    /\ location' = "fetch"
    /\ position' = 0
    /\ UNCHANGED <<committed, notifications, topicVars>>

\* A new process: StartOffset is FirstOffset, a committed offset wins.
StorerStart ==
    /\ location = "down"
    /\ location' = "fetch"
    /\ position' = committed
    /\ UNCHANGED <<committed, notifications, topicVars>>

FetchMessage ==
    /\ location = "fetch"
    /\ position < Len(topic)
    /\ location' = "handle"
    /\ UNCHANGED <<position, committed, notifications, topicVars>>

Fetched == topic[position + 1]

\* Mutant: an invalid payload is never passed.
HandleValidOnly ==
    /\ location = "handle"
    /\ Decodes(Fetched)
    /\ SaveNotification(Fetched)
    /\ location' = "commit"
    /\ UNCHANGED <<position, committed, topicVars>>

\* handle: an invalid payload is not retryable, so it counts as handled.
Handle ==
    /\ location = "handle"
    /\ \/ Decodes(Fetched) /\ SaveNotification(Fetched)
       \/ ~Decodes(Fetched) /\ UNCHANGED notifications
    /\ location' = "commit"
    /\ UNCHANGED <<position, committed, topicVars>>

CommitMessages ==
    /\ location = "commit"
    /\ committed' = position + 1
    /\ position' = position + 1
    /\ location' = "fetch"
    /\ UNCHANGED <<notifications, topicVars>>

\* The context is cancelled, the process dies, or FetchMessage,
\* SaveNotification or CommitMessages reports an error, possibly after the
\* statement or the commit took effect.  Consume returns and the process ends.
StorerFails ==
    /\ location # "down"
    /\ location' = "down"
    /\ position' = 0
    /\ \/ UNCHANGED <<committed, notifications>>
       \/ /\ location = "handle"
          /\ Decodes(Fetched)
          /\ SaveNotification(Fetched)
          /\ UNCHANGED committed
       \/ /\ location = "commit"
          /\ committed' = position + 1
          /\ UNCHANGED notifications
    /\ UNCHANGED topicVars

StorerStep == StorerStart \/ FetchMessage \/ Handle \/ CommitMessages

-----------------------------------------------------------------------------
\* Payload k is the last valid one of its event among the first n.
Newest(k, n) ==
    /\ Decodes(topic[k])
    /\ \A j \in (k + 1)..n : Decodes(topic[j]) => topic[j].eventID # topic[k].eventID

\* What a table that has absorbed the first n payloads holds.
View(n) == {topic[k] : k \in {i \in 1..n : Newest(i, n)}}

StorerTypeOK ==
    /\ location \in StorerLocations
    /\ position \in Nat
    /\ committed \in Nat
    /\ notifications \subseteq Notification

\* The table is the committed prefix of the topic, or one payload ahead of it:
\* no crash, redelivery or failed commit skips a valid notification, undoes one
\* or leaves a row that an older message wrote.
TableFollowsTopic ==
    \/ notifications = View(committed)
    \/ committed < Len(topic) /\ notifications = View(committed + 1)

\* The inductive invariant behind it: a running reader stands at the committed
\* offset, and when it is about to commit, the payload is in the table.
ReaderAtCommitted ==
    /\ committed <= Len(topic)
    /\ location # "down" => position = committed
    /\ location \in {"handle", "commit"} => position < Len(topic)
SavedBeforeCommit == location = "commit" => notifications = View(committed + 1)
StorerInv == StorerTypeOK /\ ReaderAtCommitted /\ TableFollowsTopic /\ SavedBeforeCommit

\* Step by step the table only moves forward along the topic: a redelivered
\* message may be saved again, but a change of the table is always the step from
\* the committed prefix to the next payload, never back to an older view.
TableNeverGoesBack ==
    [][committed < Len(topic) /\ notifications' = View(committed + 1)]_notifications
===============================================================================
