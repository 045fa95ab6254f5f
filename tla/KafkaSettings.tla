---------------------------- MODULE KafkaSettings ----------------------------
(***************************************************************************)
(* What EnsureTopic (internal/kafka) accepts as arguments.  A topic name   *)
(* is [blank, length, reserved, badByte]; an address is blank when it is   *)
(* in Blanks.                                                              *)
(***************************************************************************)
EXTENDS Integers, Sequences

Blanks == {"", " "}
maxTopicNameLength == 249

validateTopicName(topic) ==
    /\ ~topic.blank
    /\ topic.length <= maxTopicNameLength
    /\ ~topic.reserved
    /\ ~topic.badByte

validateRetryConfig(brokers, dialTimeout, retryInitial, retryMax) ==
    /\ brokers # <<>>
    /\ \A n \in 1..Len(brokers) : brokers[n] \notin Blanks
    /\ dialTimeout > 0
    /\ retryInitial > 0
    /\ retryMax >= retryInitial
=============================================================================
