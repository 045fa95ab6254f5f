----------------------------- MODULE StorerSystem -----------------------------
(***************************************************************************)
(* The storer against any producer of the topic: payloads arrive in any    *)
(* order, repeated or malformed, at most MaxTopic of them, and the storer  *)
(* fails at most MaxStorerFaults times.                                    *)
(***************************************************************************)
EXTENDS Storer

CONSTANTS
    Incoming,           \* notifications other processes publish
    MaxTopic, MaxStorerFaults

VARIABLE storerFaults

ASSUME IncomingAssumption ==
    Incoming \subseteq Notification /\ MaxTopic \in Nat /\ MaxStorerFaults \in Nat

storerSystemVars == <<topicVars, storerVars, storerFaults>>

StorerSystemInit == TopicInit /\ StorerInit /\ storerFaults = 0

PayloadArrives ==
    /\ Len(topic) < MaxTopic
    /\ \E p \in Incoming \cup {Malformed} : AppendToTopic(p)
    /\ UNCHANGED <<late, storerVars, storerFaults>>

StorerFaultOccurs ==
    /\ storerFaults < MaxStorerFaults
    /\ storerFaults' = storerFaults + 1
    /\ StorerFails

StorerSystemNext ==
    \/ StorerStep /\ UNCHANGED storerFaults
    \/ StorerFaultOccurs
    \/ PayloadArrives

\* Calls of the storer return, and a storer that ended is started again.
StorerSystemSpec ==
    /\ StorerSystemInit
    /\ [][StorerSystemNext]_storerSystemVars
    /\ WF_storerSystemVars(StorerStep /\ UNCHANGED storerFaults)

\* Every payload is passed sooner or later: neither a malformed one nor a
\* failure of the storer blocks the messages behind it.
TopicIsDrained ==
    \A n \in 1..MaxTopic : Len(topic) >= n ~> committed >= n
===============================================================================
