-------------------------- MODULE NotificationTopic --------------------------
(***************************************************************************)
(* The Kafka topic between the scheduler and the storer (external code,    *)
(* modelled from how internal/kafka uses it): one partition, so one        *)
(* append-only log.  The producer is synchronous, waits for all replicas   *)
(* and is not idempotent: when a write times out or its acknowledgement is *)
(* lost, the broker may still append the message later, or never, or more  *)
(* than once, because the client library retries the write.  Such writes   *)
(* are in "late".                                                          *)
(***************************************************************************)
EXTENDS Sequences, Naturals

CONSTANT Malformed    \* a payload that is not a JSON notification

VARIABLES
    topic,    \* the log: payloads in offset order
    late      \* unacknowledged writes the broker may still append

topicVars == <<topic, late>>

Notification == [eventID : Nat, title : STRING, eventAt : Nat, userID : STRING]

ASSUME MalformedAssumption == Malformed \notin Notification

Payload == Notification \cup {Malformed}

Published == {topic[i] : i \in 1..Len(topic)}

TopicInit == topic = << >> /\ late = {}

AppendToTopic(p) == topic' = Append(topic, p)

\* A write that was reported as failed, or whose retry was acknowledged,
\* reaches the log after all; another copy may follow unless keep is FALSE.
LateAppend(p, keep) ==
    /\ p \in late
    /\ AppendToTopic(p)
    /\ late' = IF keep THEN late ELSE late \ {p}

TopicTypeOK == topic \in Seq(Payload) /\ late \subseteq Notification
=============================================================================
