---------------------------- MODULE KafkaStartup ----------------------------
(***************************************************************************)
(* EnsureTopic of internal/kafka, run by the scheduler and the storer when *)
(* they start, at the same time and against the same cluster: create the   *)
(* topic, probe its leader broker by broker, and retry with a growing      *)
(* backoff until it is there, the error is permanent or the context ends.  *)
(* The cluster (topic, leader, reachable brokers, access rights) is        *)
(* external; its access rights do not change.                              *)
(* time.Duration is a two's complement integer with the maximum MaxInt.    *)
(***************************************************************************)
EXTENDS KafkaSettings

CONSTANTS
    Clients,    \* the processes that start
    Brokers,    \* the addresses of the cluster
    Settings,   \* the parameters a client may call EnsureTopic with
    MaxInt

ASSUME StartupAssumption == MaxInt \in Nat /\ Brokers \cap Blanks = {}
\* The limits of the backoff are of type time.Duration.
ASSUME DurationAssumption ==
    \A s \in Settings : {s.retryInitial, s.retryMax} \subseteq (-MaxInt - 1)..MaxInt

VARIABLES
    replicas,   \* the broker that holds the one partition; {} without a topic
    elected,    \* the partition has a leader
    up,         \* the reachable brokers
    denied,     \* what the access rights refuse: "create", "describe"
    pc,         \* entry, retry, create, created, probe, wait, returned
    settings,   \* the arguments of EnsureTopic
    cancelled,  \* the context of the client is done
    backoff,    \* the delay before the next attempt
    probed,     \* brokers the current probe has tried
    reply,      \* what the cluster answers to CreateTopics: ok, exists, denied
    result      \* what EnsureTopic returned

clusterVars == <<replicas, elected, up, denied>>
clientVars == <<pc, settings, cancelled, backoff, probed, reply, result>>
startupVars == <<clusterVars, clientVars>>

Wrap(x) == ((x + MaxInt + 1) % (2 * (MaxInt + 1))) - (MaxInt + 1)

StartupInit ==
    /\ up \in SUBSET Brokers /\ denied \in SUBSET {"create", "describe"}
    /\ replicas \in {{}} \cup {{b} : b \in Brokers}
    /\ elected \in {FALSE, replicas # {} /\ replicas \subseteq up}
    /\ pc = [c \in Clients |-> "entry"]
    /\ settings \in [Clients -> Settings]
    /\ cancelled = [c \in Clients |-> FALSE]
    /\ backoff = [c \in Clients |-> settings[c].retryInitial]
    /\ probed = [c \in Clients |-> 0]
    /\ reply = [c \in Clients |-> "none"]
    /\ result = [c \in Clients |-> "none"]

Listed(c) == {settings[c].brokers[n] : n \in 1..Len(settings[c].brokers)}
Reachable(c) == Listed(c) \subseteq up

Goto(c, l) == pc' = [pc EXCEPT ![c] = l]
Return(c, r) == Goto(c, "returned") /\ result' = [result EXCEPT ![c] = r]

-----------------------------------------------------------------------------
(* The client.                                                              *)

Accepted(s) ==
    /\ validateTopicName(s.topic)
    /\ validateRetryConfig(s.brokers, s.dialTimeout, s.retryInitial, s.retryMax)

EnsureTopic(c) ==
    /\ pc[c] = "entry"
    /\ IF Accepted(settings[c])
       THEN Goto(c, "retry") /\ UNCHANGED result
       ELSE Return(c, "invalid")
    /\ UNCHANGED <<clusterVars, settings, cancelled, backoff, probed, reply>>

contextDone(c) == cancelled[c]

\* The head of the retry loop.
Attempt(c) ==
    /\ pc[c] = "retry"
    /\ IF contextDone(c) THEN Return(c, "canceled") ELSE Goto(c, "create") /\ UNCHANGED result
    /\ UNCHANGED <<clusterVars, settings, cancelled, backoff, probed, reply>>

\* Mutant: every error is worth another attempt.
AnyRetry(err) == FALSE

\* classifyTopicError: the protocol errors that are not temporary, which
\* TopicAlreadyExists would be too.
NotRetried(err) == err \in {"exists", "denied"}

\* An attempt that failed: the context, a permanent error, or another wait.
Failed(c, err) ==
    \/ contextDone(c) /\ Return(c, "canceled")
    \/ ~contextDone(c) /\ NotRetried(err) /\ Return(c, "failed")
    \/ ~contextDone(c) /\ ~NotRetried(err) /\ Goto(c, "wait") /\ UNCHANGED result

\* CreateTopics reaches a broker.  The cluster creates the topic on one broker,
\* topicReplicationFactor being 1, unless it exists or the client may not.
SendCreate(c) ==
    /\ pc[c] = "create" /\ up \cap Listed(c) # {}
    /\ IF "create" \notin denied /\ replicas = {}
       THEN replicas' \in {{b} : b \in up} /\ elected' = FALSE
       ELSE UNCHANGED <<replicas, elected>>
    /\ reply' = [reply EXCEPT ![c] = IF "create" \in denied THEN "denied"
                                     ELSE IF replicas = {} THEN "ok" ELSE "exists"]
    /\ Goto(c, "created")
    /\ UNCHANGED <<up, denied, settings, cancelled, backoff, probed, result>>

\* The broker the client picked does not answer.
CreateFails(c) ==
    /\ pc[c] = "create" /\ ~Reachable(c)
    /\ Failed(c, "temporary")
    /\ UNCHANGED <<clusterVars, settings, cancelled, backoff, probed, reply>>

\* Mutant: a topic that exists is an error.
createErrorStrict(answer) == IF answer = "ok" THEN "nil" ELSE answer

\* The error of createTopic, for which TopicAlreadyExists is none.
createError(answer) == IF answer \in {"ok", "exists"} THEN "nil" ELSE answer

\* The response, which may get lost with its broker after the topic was created.
CreateReply(c) ==
    /\ pc[c] = "created"
    /\ \/ ~Reachable(c) /\ Failed(c, "temporary")
       \/ createError(reply[c]) # "nil" /\ Failed(c, createError(reply[c]))
       \/ createError(reply[c]) = "nil" /\ Goto(c, "probe") /\ UNCHANGED result
    /\ reply' = [reply EXCEPT ![c] = "none"]
    /\ UNCHANGED <<clusterVars, settings, cancelled, backoff, probed>>

\* DialLeader asks broker b for the leader of the partition and connects to it.
DialLeader(b) == b \in up /\ elected /\ "describe" \notin denied
DialError(b) == IF b \in up /\ "describe" \in denied THEN "denied" ELSE "temporary"

\* One turn of probeTopic's loop, or its end with the last error; the
\* probe connection may fail to close.
Probe(c) ==
    LET brokers == settings[c].brokers
        b == brokers[probed[c] + 1]
    IN  /\ pc[c] = "probe"
        /\ \/ /\ probed[c] = Len(brokers)
              /\ Failed(c, DialError(brokers[probed[c]]))
           \/ /\ probed[c] < Len(brokers) /\ contextDone(c)
              /\ Return(c, "canceled")
           \/ /\ probed[c] < Len(brokers) /\ ~contextDone(c) /\ DialLeader(b)
              /\ Return(c, "nil") \/ (~Reachable(c) /\ Failed(c, "temporary"))
           \/ /\ probed[c] < Len(brokers) /\ ~contextDone(c) /\ ~DialLeader(b)
              /\ UNCHANGED <<pc, result>>
        /\ probed' = [probed EXCEPT ![c] = IF pc' = pc THEN @ + 1 ELSE 0]
        /\ UNCHANGED <<clusterVars, settings, cancelled, backoff, reply>>

\* Mutant: doubled, then cut off.
nextBackoffDoubled(current, maximum) ==
    IF Wrap(current * 2) > maximum THEN maximum ELSE Wrap(current * 2)

nextBackoff(current, maximum) ==
    IF current >= maximum \/ current > Wrap(maximum - current) THEN maximum ELSE Wrap(current * 2)

\* waitForRetry: the timer, or the end of the context.
Wait(c) ==
    /\ pc[c] = "wait"
    /\ \/ /\ Goto(c, "retry")
          /\ backoff' = [backoff EXCEPT ![c] = nextBackoff(@, settings[c].retryMax)]
          /\ UNCHANGED result
       \/ contextDone(c) /\ Return(c, "canceled") /\ UNCHANGED backoff
    /\ UNCHANGED <<clusterVars, settings, cancelled, probed, reply>>

ClientStep(c) ==
    EnsureTopic(c) \/ Attempt(c) \/ SendCreate(c) \/ CreateFails(c) \/ CreateReply(c) \/ Probe(c) \/ Wait(c)

-----------------------------------------------------------------------------
(* The environment.                                                         *)

Cancel(c) ==
    /\ ~cancelled[c] /\ pc[c] # "returned"
    /\ cancelled' = [cancelled EXCEPT ![c] = TRUE]
    /\ UNCHANGED <<clusterVars, pc, settings, backoff, probed, reply, result>>

\* The partition has no other replica: it loses its leader with its broker.
BrokerFails(b) ==
    /\ b \in up
    /\ up' = up \ {b} /\ elected' = (elected /\ b \notin replicas)
    /\ UNCHANGED <<replicas, denied, clientVars>>
BrokerRecovers(b) == b \notin up /\ up' = up \cup {b} /\ UNCHANGED <<replicas, elected, denied, clientVars>>
ElectLeader ==
    /\ ~elected /\ replicas # {} /\ replicas \subseteq up
    /\ elected' = TRUE
    /\ UNCHANGED <<replicas, up, denied, clientVars>>

StartupNext ==
    \/ \E c \in Clients : ClientStep(c) \/ Cancel(c)
    \/ \E b \in Brokers : BrokerFails(b) \/ BrokerRecovers(b)
    \/ ElectLeader

\* The clients run and their timers expire; a reachable cluster elects leaders.
StartupFairness ==
    /\ \A c \in Clients : WF_startupVars(ClientStep(c))
    /\ WF_startupVars(ElectLeader)

StartupSpec == StartupInit /\ [][StartupNext]_startupVars /\ StartupFairness

-----------------------------------------------------------------------------
\* Whatever the configured limits, up to the largest duration: every delay
\* waitForRetry is called with is positive and between the two limits.
BackoffWithinLimits ==
    \A c \in Clients :
        pc[c] = "wait" => /\ backoff[c] > 0
                          /\ backoff[c] >= settings[c].retryInitial
                          /\ backoff[c] <= settings[c].retryMax

\* What EnsureTopic says is so, whatever replies are lost and however the two
\* services race for the topic: only a refusal by the cluster is final, success
\* means that the topic exists and both calls were allowed, and a start that
\* was not cancelled is never reported as cancelled.
VerdictHasReason ==
    \A c \in Clients :
        /\ result[c] = "failed" => denied # {}
        /\ result[c] = "nil" => denied = {} /\ replicas # {}
        /\ result[c] = "canceled" => cancelled[c]

\* Once the brokers stay reachable every start ends: ready, or refused for good.
\* A cancelled start ends whatever the cluster does.
StartupEnds ==
    /\ <>[](up = Brokers) => <>(\A c \in Clients : pc[c] = "returned")
    /\ \A c \in Clients : cancelled[c] ~> pc[c] = "returned"
=============================================================================
