---------------------------- MODULE StartupProofs ----------------------------
(***************************************************************************)
(* What happens before a service works, proved for any parameters.  The    *)
(* configuration: for all files and environments, with any number of       *)
(* settings in each (the run tries one setting at a time), a configuration *)
(* that validates can be used.  EnsureTopic: for any clients, brokers,     *)
(* settings and width of time.Duration the backoff stays within its limits *)
(* although the arithmetic wraps, and only a refusal of the cluster ends a *)
(* start for good, however the topic is raced for.                         *)
(***************************************************************************)
EXTENDS Configuration, KafkaStartup, TLAPS

-----------------------------------------------------------------------------
(* Configuration.                                                           *)

\* What decode and applyEnvironment leave behind.
FromFile == Override(Defaults(service), Parsed(file.values))
EnvValues ==
    [f \in DOMAIN env \cap Variables(service) |->
        IF f = "brokers" THEN [n \in DOMAIN env[f] |-> Trim(env[f][n])] ELSE env[f]]
FromEnvironment == Override(FromFile, Parsed(EnvValues))

FileTaken == ~Unparsed(file.values) /\ DOMAIN file.values \subseteq DOMAIN Defaults(service)
ConfigInv ==
    /\ service \in Services /\ file \in Files /\ env \in Environments
    /\ stage \in {"decode", "environment", "validate", "loaded", "started", "rejected"}
    /\ stage = "decode" => config = Defaults(service)
    /\ stage = "environment" => FileTaken /\ config = FromFile
    /\ stage \in {"validate", "loaded", "started"} =>
          FileTaken /\ ~Unparsed(EnvValues) /\ config = FromEnvironment
    /\ stage = "loaded" => Validate(config)

-----------------------------------------------------------------------------
\* A value that decoding to a Go slice yields.
IsSlice(v) == Len(v) \in Nat /\ DOMAIN v = 1..Len(v)

\* The services that use Kafka, and only they, have a list of brokers.
LEMMA ServiceSettings ==
    ASSUME service \in Services
    PROVE  service # "calendar" =>
              "brokers" \in DOMAIN Defaults(service) /\ IsSlice(Defaults(service)["brokers"])
<1>1. /\ service = "scheduler" => Defaults(service) = NewScheduler
      /\ service = "storer" => Defaults(service) = NewStorer
  BY Zenon DEF Defaults
<1>2. "brokers" \in DOMAIN defaultKafka /\ IsSlice(defaultKafka["brokers"])
  BY SMT DEF defaultKafka, IsSlice
<1>3. ASSUME NEW own, "brokers" \notin DOMAIN own
      PROVE  LET all == Join(commonDefaults("sql"), Join(defaultKafka, own))
             IN  "brokers" \in DOMAIN all /\ IsSlice(all["brokers"])
  <2>1. /\ "brokers" \in DOMAIN Join(defaultKafka, own)
        /\ Join(defaultKafka, own)["brokers"] = defaultKafka["brokers"]
    BY <1>2, <1>3 DEF Join
  <2>2. LET rest == Join(defaultKafka, own)
            all == Join(commonDefaults("sql"), rest)
        IN  "brokers" \in DOMAIN rest => "brokers" \in DOMAIN all /\ all["brokers"] = rest["brokers"]
    BY DEF Join
  <2> QED
    BY <1>2, <2>1, <2>2
<1>4. "brokers" \in DOMAIN NewScheduler /\ IsSlice(NewScheduler["brokers"])
  <2> DEFINE own == [metricsHost |-> "0.0.0.0", metricsPort |-> 8081,
                     interval |-> 60000, batchSize |-> 100, retentionYears |-> 1]
  <2>1. "brokers" \notin DOMAIN own
    BY SMT
  <2>2. NewScheduler = Join(commonDefaults("sql"), Join(defaultKafka, own))
    BY SMT DEF NewScheduler
  <2> HIDE DEF own
  <2> QED
    BY <1>3, <2>1, <2>2
<1>5. "brokers" \in DOMAIN NewStorer /\ IsSlice(NewStorer["brokers"])
  <2> DEFINE own == [metricsHost |-> "0.0.0.0", metricsPort |-> 8082,
                     groupID |-> "calendar-storer"]
  <2>1. "brokers" \notin DOMAIN own
    BY SMT
  <2>2. NewStorer = Join(commonDefaults("sql"), Join(defaultKafka, own))
    BY SMT DEF NewStorer
  <2> HIDE DEF own
  <2> QED
    BY <1>3, <2>1, <2>2
<1> QED
  BY <1>1, <1>4, <1>5 DEF Services

\* Overriding keeps the settings and takes the new value where there is one.
LEMMA OverrideProperties ==
    ASSUME NEW f, NEW g
    PROVE  /\ DOMAIN Override(f, g) = DOMAIN f
           /\ \A x \in DOMAIN f : Override(f, g)[x] = IF x \in DOMAIN g THEN g[x] ELSE f[x]
BY DEF Override

\* Parsing keeps the fields, and the text of those that are text.
LEMMA ParsedProperties ==
    ASSUME NEW values
    PROVE  /\ DOMAIN Parsed(values) = DOMAIN values
           /\ \A x \in DOMAIN values :
                 Parsed(values)[x] = IF x \in TextFields THEN values[x] ELSE values[x][1]
BY DEF Parsed

\* The loaded list of brokers is a slice, wherever it comes from.
LEMMA BrokersAreSlice ==
    ASSUME service \in Services, file \in Files, env \in Environments, service # "calendar"
    PROVE  IsSlice(FromEnvironment["brokers"])
<1>1. /\ "brokers" \in DOMAIN Defaults(service)
      /\ IsSlice(Defaults(service)["brokers"])
  BY ServiceSettings
<1>2. ASSUME NEW s \in Seq(STRING)
      PROVE  IsSlice(s)
  BY DEF IsSlice
<1>3. "brokers" \in DOMAIN file.values => IsSlice(file.values["brokers"])
  BY <1>2, BrokersAssumption
<1>4. "brokers" \in DOMAIN env => IsSlice(env["brokers"])
  BY <1>2, BrokersAssumption
<1>5. "brokers" \in DOMAIN FromFile /\ IsSlice(FromFile["brokers"])
  <2>1. /\ DOMAIN Parsed(file.values) = DOMAIN file.values
        /\ "brokers" \in DOMAIN file.values =>
              Parsed(file.values)["brokers"] = file.values["brokers"]
    BY ParsedProperties DEF TextFields
  <2>2. /\ "brokers" \in DOMAIN FromFile
        /\ FromFile["brokers"] = IF "brokers" \in DOMAIN file.values THEN file.values["brokers"]
                                 ELSE Defaults(service)["brokers"]
    BY <1>1, <2>1, OverrideProperties DEF FromFile
  <2> QED
    BY <1>1, <1>3, <2>2
<1>6. CASE "brokers" \notin DOMAIN env
  <2>1. "brokers" \notin DOMAIN Parsed(EnvValues)
    BY <1>6, ParsedProperties DEF EnvValues
  <2>2. FromEnvironment["brokers"] = FromFile["brokers"]
    BY <1>5, <2>1, OverrideProperties DEF FromEnvironment
  <2> QED
    BY <1>5, <2>2
<1>7. CASE "brokers" \in DOMAIN env
  <2> DEFINE trimmed == [n \in DOMAIN env["brokers"] |-> Trim(env["brokers"][n])]
  <2>1. "brokers" \in Variables(service)
    BY DEF Variables, kafkaVariables, Services
  <2>2. "brokers" \in DOMAIN EnvValues /\ EnvValues["brokers"] = trimmed
    BY <1>7, <2>1 DEF EnvValues
  <2>3. /\ "brokers" \in DOMAIN Parsed(EnvValues)
        /\ Parsed(EnvValues)["brokers"] = EnvValues["brokers"]
    BY <2>2, ParsedProperties DEF TextFields
  <2>4. FromEnvironment["brokers"] = trimmed
    BY <1>5, <2>2, <2>3, OverrideProperties DEF FromEnvironment
  <2>5. trimmed = [n \in 1..Len(env["brokers"]) |-> Trim(env["brokers"][n])]
    BY <1>4, <1>7 DEF IsSlice
  <2>6. IsSlice(trimmed)
    BY <1>4, <1>7, <2>5 DEF IsSlice
  <2> QED
    BY <2>4, <2>6
<1> QED
  BY <1>6, <1>7

\* The checks of Validate imply those of every constructor.
LEMMA ValidBuilds ==
    ASSUME ConfigInv, stage = "loaded"
    PROVE  Builds(config)
<1>1. Validate(config) /\ service \in Services
  BY DEF ConfigInv
<1>2. CASE service = "calendar"
  BY <1>1, <1>2 DEF Validate, Builds, validLogger, validStorage, parseLevel, newStorage
<1>3. CASE service # "calendar"
  <2>1. DOMAIN config.brokers = 1..Len(config.brokers)
    BY <1>3, BrokersAreSlice DEF ConfigInv, IsSlice
  <2>2. parseLevel(config.level) /\ connectStorage(config)
    BY <1>1, <1>3 DEF Validate, validLogger, validStorage, parseLevel, connectStorage
  <2>3. ensureTopic(config)
    BY <1>1, <1>3, <2>1 DEF Validate, validKafka, validateKafkaTopicName, ensureTopic,
       validateTopicName, validateRetryConfig, maxTopicNameLength
  <2>4. service = "scheduler" => newScheduler(config)
    BY <1>1 DEF Validate, newScheduler
  <2>5. service = "storer" => newConsumer(config)
    BY <1>1 DEF Validate, validKafka, newConsumer, Blanks
  <2> QED
    BY <1>3, <2>2, <2>3, <2>4, <2>5 DEF Builds
<1> QED
  BY <1>2, <1>3

\* What each stage of loading has done to the configuration.
LEMMA ConfigInvariant == ConfigSpec => []ConfigInv
<1>1. ConfigInit => ConfigInv
  BY DEF ConfigInit, ConfigInv
<1>2. ConfigInv /\ [ConfigNext]_configVars => ConfigInv'
  <2> SUFFICES ASSUME ConfigInv, [ConfigNext]_configVars
               PROVE  ConfigInv'
    OBVIOUS
  <2>1. ASSUME UNCHANGED <<service, file, env>>
        PROVE  /\ FileTaken' <=> FileTaken
               /\ FromFile' = FromFile
               /\ FromEnvironment' = FromEnvironment
               /\ EnvValues' = EnvValues
               /\ Validate(config)' <=> Validate(config')
    BY <2>1, Zenon DEF FileTaken, FromFile, EnvValues, FromEnvironment, Validate
  <2>2. ASSUME Reject
        PROVE  ConfigInv'
    BY <2>2 DEF Reject, ConfigInv
  <2>3. CASE decode
    <3>1. CASE Reject
      BY <2>2, <3>1
    <3>2. CASE /\ FileTaken /\ stage = "decode"
               /\ Proceed(FromFile, "environment")
      BY <2>1, <3>2 DEF Proceed, ConfigInv
    <3>3. Reject \/ (FileTaken /\ stage = "decode" /\ Proceed(FromFile, "environment"))
      BY <2>3 DEF decode, FileTaken, FromFile, ConfigInv
    <3> QED
      BY <3>1, <3>2, <3>3
  <2>4. CASE applyEnvironment
    <3>1. CASE Reject
      BY <2>2, <3>1
    <3>2. CASE /\ ~Unparsed(EnvValues) /\ stage = "environment"
               /\ Proceed(FromEnvironment, "validate")
      <4>1. /\ UNCHANGED <<service, file, env>> /\ stage' = "validate"
            /\ config' = FromEnvironment /\ FileTaken
        BY <3>2 DEF Proceed, ConfigInv
      <4>2. ~Unparsed(EnvValues)'
        BY <3>2, <4>1, Zenon DEF Unparsed, EnvValues, Variables
      <4> QED
        BY <2>1, <4>1, <4>2 DEF ConfigInv
    <3>3. \/ Reject
          \/ ~Unparsed(EnvValues) /\ stage = "environment" /\ Proceed(FromEnvironment, "validate")
      BY <2>4 DEF applyEnvironment, EnvValues, FromEnvironment, ConfigInv
    <3> QED
      BY <3>1, <3>2, <3>3
  <2>5. CASE validate
    BY <2>1, <2>2, <2>5 DEF validate, Proceed, ConfigInv
  <2>6. CASE start
    <3>1. stage' = "started" /\ stage = "loaded" /\ UNCHANGED <<service, file, env, config>>
      BY <2>6, ValidBuilds DEF start
    <3> QED
      BY <2>1, <3>1 DEF ConfigInv
  <2>7. CASE UNCHANGED configVars
    <3>1. UNCHANGED <<service, file, env, config, stage>>
      BY <2>7 DEF configVars
    <3> QED
      BY <2>1, <3>1 DEF ConfigInv
  <2> QED
    BY <2>3, <2>4, <2>5, <2>6, <2>7 DEF ConfigNext, Settled
<1> QED
  BY <1>1, <1>2, PTL DEF ConfigSpec

\* Whatever file and environment say: a configuration that Validate accepts is
\* refused by none of the logger, the storage, EnsureTopic, the scheduler and the
\* consumer of the service.
THEOREM ValidAlwaysMeansUsable == ConfigSpec => []ValidMeansUsable
<1>1. ConfigInv => ValidMeansUsable
  BY DEF ConfigInv, ValidMeansUsable
<1> QED
  BY <1>1, ConfigInvariant, PTL

-----------------------------------------------------------------------------
(* EnsureTopic.                                                             *)

StartupTypes ==
    /\ denied \subseteq {"create", "describe"}
    /\ pc \in [Clients -> {"entry", "retry", "create", "created", "probe", "wait", "returned"}]
    /\ settings \in [Clients -> Settings]
    /\ backoff \in [Clients -> Int]
    /\ reply \in [Clients -> {"none", "ok", "exists", "denied"}]
    /\ result \in [Clients -> {"none", "nil", "invalid", "canceled", "failed"}]

\* Only accepted settings reach the retry loop, and for them the backoff is
\* between the limits from the first assignment on.
BackoffInv ==
    \A c \in Clients :
        /\ pc[c] \notin {"entry", "returned"} => Accepted(settings[c])
        /\ Accepted(settings[c]) =>
              settings[c].retryInitial <= backoff[c] /\ backoff[c] <= settings[c].retryMax

\* A reply tells what the cluster allows, and a probe follows a topic that exists.
TopicThere == "create" \notin denied /\ replicas # {}
ReplyInv ==
    \A c \in Clients :
        /\ reply[c] = "denied" => "create" \in denied
        /\ reply[c] \in {"ok", "exists"} => TopicThere
        /\ pc[c] = "probe" => TopicThere

StartupInv == StartupTypes /\ BackoffInv /\ ReplyInv /\ VerdictHasReason

-----------------------------------------------------------------------------
\* A value within the width is not changed by wrapping.
LEMMA WrapInRange ==
    ASSUME NEW x \in (-MaxInt - 1)..MaxInt
    PROVE  Wrap(x) = x
<1>1. MaxInt \in Nat
  BY StartupAssumption
<1>2. x + MaxInt + 1 \in 0..(2 * (MaxInt + 1) - 1)
  BY <1>1
<1>3. (x + MaxInt + 1) % (2 * (MaxInt + 1)) = x + MaxInt + 1
  BY <1>1, <1>2
<1> QED
  BY <1>1, <1>3 DEF Wrap

\* nextBackoff never overflows: it doubles only what the distance to the maximum
\* leaves room for, so that the result is no less than before and within the limit.
LEMMA NextBackoffGrows ==
    ASSUME NEW current \in 1..MaxInt, NEW maximum \in 1..MaxInt, current <= maximum
    PROVE  /\ nextBackoff(current, maximum) \in Int
           /\ current <= nextBackoff(current, maximum)
           /\ nextBackoff(current, maximum) <= maximum
<1>1. MaxInt \in Nat
  BY StartupAssumption
<1>2. Wrap(maximum - current) = maximum - current
  BY <1>1, WrapInRange
<1>3. CASE current >= maximum \/ current > maximum - current
  BY <1>2, <1>3 DEF nextBackoff
<1>4. CASE current < maximum /\ current <= maximum - current
  <2>1. current * 2 \in (-MaxInt - 1)..MaxInt
    BY <1>1, <1>4
  <2>2. Wrap(current * 2) = current * 2
    BY <2>1, WrapInRange
  <2> QED
    BY <1>1, <1>2, <1>4, <2>2 DEF nextBackoff
<1> QED
  BY <1>1, <1>3, <1>4

\* What accepted settings guarantee of the limits.
LEMMA AcceptedLimits ==
    ASSUME NEW s \in Settings, Accepted(s)
    PROVE  s.retryInitial \in 1..MaxInt /\ s.retryMax \in 1..MaxInt /\ s.retryInitial <= s.retryMax
BY StartupAssumption, DurationAssumption DEF Accepted, validateRetryConfig

-----------------------------------------------------------------------------
\* A step of a client that moves its program counter, and sets its result and the
\* reply it waits for, keeps the invariant if it enters the loop with accepted
\* settings and what it sets has its reason.
LEMMA ClientMoves ==
    ASSUME StartupInv, NEW c \in Clients,
           NEW l \in {"retry", "create", "created", "probe", "wait", "returned"},
           NEW r \in {"none", "nil", "invalid", "canceled", "failed"},
           NEW v \in {"none", "ok", "exists", "denied"},
           l # "returned" => Accepted(settings[c]),
           l = "probe" => TopicThere,
           r = "nil" => denied = {} /\ replicas # {},
           r = "failed" => denied # {},
           r = "canceled" => cancelled[c],
           v = "denied" => "create" \in denied,
           v \in {"ok", "exists"} => "create" \notin denied /\ replicas' # {},
           pc' = [pc EXCEPT ![c] = l],
           result' = result \/ result' = [result EXCEPT ![c] = r],
           reply' = reply \/ reply' = [reply EXCEPT ![c] = v],
           replicas # {} => replicas' # {},
           UNCHANGED <<settings, backoff, cancelled, denied>>
    PROVE  StartupInv'
<1>1. StartupTypes'
  BY DEF StartupInv, StartupTypes
<1>2. BackoffInv'
  <2> SUFFICES ASSUME NEW d \in Clients
               PROVE  /\ pc'[d] \notin {"entry", "returned"} => Accepted(settings[d])
                      /\ Accepted(settings[d]) =>
                            /\ settings[d].retryInitial <= backoff[d]
                            /\ backoff[d] <= settings[d].retryMax
    BY DEF BackoffInv
  <2> QED
    BY DEF StartupInv, StartupTypes, BackoffInv
<1>3. ReplyInv'
  BY DEF StartupInv, StartupTypes, ReplyInv, TopicThere
<1>4. VerdictHasReason'
  BY DEF StartupInv, StartupTypes, VerdictHasReason
<1> QED
  BY <1>1, <1>2, <1>3, <1>4 DEF StartupInv

\* A failed attempt of a client in the loop keeps the invariant: it waits, or
\* returns because its context ended or the cluster refused it.
LEMMA FailedKeepsInv ==
    ASSUME StartupInv, NEW c \in Clients, NEW err, Failed(c, err),
           NotRetried(err) => denied # {}, Accepted(settings[c]),
           reply' = reply \/ reply' = [reply EXCEPT ![c] = "none"],
           UNCHANGED <<clusterVars, settings, backoff, cancelled>>
    PROVE  StartupInv'
<1>1. CASE Goto(c, "wait") /\ UNCHANGED result
  BY <1>1, ClientMoves DEF Goto, clusterVars
<1>2. CASE Return(c, "canceled") /\ cancelled[c]
  BY <1>2, ClientMoves DEF Return, Goto, clusterVars
<1>3. CASE Return(c, "failed") /\ denied # {}
  BY <1>3, ClientMoves DEF Return, Goto, clusterVars
<1> QED
  BY <1>1, <1>2, <1>3 DEF Failed, contextDone

\* Every step of EnsureTopic keeps the backoff within its limits and gives no
\* verdict without its reason.
LEMMA ClientKeepsInv ==
    ASSUME StartupInv, NEW c \in Clients, ClientStep(c)
    PROVE  StartupInv'
<1>1. /\ reply[c] \in {"none", "ok", "exists", "denied"}
      /\ reply[c] = "denied" => "create" \in denied
      /\ reply[c] \in {"ok", "exists"} => TopicThere
      /\ pc[c] = "probe" => TopicThere
  BY DEF StartupInv, StartupTypes, ReplyInv
<1>2. pc[c] \notin {"entry", "returned"} => Accepted(settings[c])
  BY DEF StartupInv, BackoffInv
<1>3. CASE EnsureTopic(c)
  <2>1. CASE Accepted(settings[c])
    BY <1>3, <2>1, ClientMoves DEF EnsureTopic, Goto, clusterVars
  <2>2. CASE ~Accepted(settings[c])
    BY <1>3, <2>2, ClientMoves DEF EnsureTopic, Return, Goto, clusterVars
  <2> QED
    BY <2>1, <2>2
<1>4. CASE Attempt(c)
  <2>1. CASE contextDone(c)
    BY <1>4, <2>1, ClientMoves DEF Attempt, Return, Goto, clusterVars, contextDone
  <2>2. CASE ~contextDone(c)
    BY <1>2, <1>4, <2>2, ClientMoves DEF Attempt, Goto, clusterVars
  <2> QED
    BY <2>1, <2>2
<1>5. CASE SendCreate(c)
  <2> DEFINE v == IF "create" \in denied THEN "denied" ELSE IF replicas = {} THEN "ok" ELSE "exists"
  <2>1. /\ pc[c] = "create" /\ pc' = [pc EXCEPT ![c] = "created"]
        /\ reply' = [reply EXCEPT ![c] = v]
        /\ UNCHANGED <<settings, backoff, cancelled, denied, result>>
    BY <1>5 DEF SendCreate, Goto
  <2>2. (replicas # {} \/ "create" \notin denied) => replicas' # {}
    BY <1>5 DEF SendCreate
  <2>3. v \in {"none", "ok", "exists", "denied"}
    OBVIOUS
  <2> QED
    BY <1>2, <2>1, <2>2, <2>3, ClientMoves
<1>6. CASE CreateFails(c)
  <2>1. ~NotRetried("temporary")
    BY DEF NotRetried
  <2> QED
    BY <1>2, <1>6, <2>1, FailedKeepsInv DEF CreateFails
<1>7. CASE CreateReply(c)
  <2>1. /\ Accepted(settings[c]) /\ UNCHANGED <<clusterVars, settings, backoff, cancelled>>
        /\ reply' = [reply EXCEPT ![c] = "none"]
    BY <1>2, <1>7 DEF CreateReply
  <2>2. CASE Failed(c, "temporary")
    BY <2>1, <2>2, FailedKeepsInv DEF NotRetried
  <2>3. CASE createError(reply[c]) # "nil" /\ Failed(c, createError(reply[c]))
    <3>1. NotRetried(createError(reply[c])) => denied # {}
      BY <1>1, <2>3 DEF createError, NotRetried
    <3> QED
      BY <2>1, <2>3, <3>1, FailedKeepsInv
  <2>4. CASE createError(reply[c]) = "nil" /\ Goto(c, "probe") /\ UNCHANGED result
    <3>1. TopicThere
      BY <1>1, <2>4 DEF createError
    <3> QED
      BY <2>1, <2>4, <3>1, ClientMoves DEF Goto, clusterVars
  <2> QED
    BY <1>7, <2>2, <2>3, <2>4 DEF CreateReply
<1>8. CASE Probe(c)
  <2>1. /\ Accepted(settings[c]) /\ TopicThere
        /\ UNCHANGED <<clusterVars, settings, backoff, cancelled, reply>>
    BY <1>1, <1>2, <1>8 DEF Probe
  <2>2. ASSUME NEW b, Failed(c, DialError(b))
        PROVE  StartupInv'
    <3>1. NotRetried(DialError(b)) => denied # {}
      BY DEF DialError, NotRetried
    <3> QED
      BY <2>1, <2>2, <3>1, FailedKeepsInv
  <2>3. CASE Failed(c, "temporary")
    BY <2>1, <2>3, FailedKeepsInv DEF NotRetried
  <2>4. CASE contextDone(c) /\ Return(c, "canceled")
    BY <2>1, <2>4, ClientMoves DEF Return, Goto, clusterVars, contextDone
  <2>5. CASE "describe" \notin denied /\ Return(c, "nil")
    <3>1. denied = {} /\ replicas # {}
      BY <2>1, <2>5 DEF TopicThere, StartupInv, StartupTypes
    <3> QED
      BY <2>1, <2>5, <3>1, ClientMoves DEF Return, Goto, clusterVars
  <2>6. CASE UNCHANGED <<pc, result>>
    BY <2>1, <2>6 DEF StartupInv, StartupTypes, BackoffInv, ReplyInv, TopicThere,
       VerdictHasReason, clusterVars
  <2> QED
    BY <1>8, <2>2, <2>3, <2>4, <2>5, <2>6 DEF Probe, DialLeader
<1>9. CASE Wait(c)
  <2>1. Accepted(settings[c]) /\ UNCHANGED <<clusterVars, settings, cancelled, reply>>
    BY <1>2, <1>9 DEF Wait
  <2>2. CASE contextDone(c) /\ Return(c, "canceled") /\ UNCHANGED backoff
    BY <2>1, <2>2, ClientMoves DEF Return, Goto, clusterVars, contextDone
  <2>3. CASE /\ Goto(c, "retry") /\ UNCHANGED result
             /\ backoff' = [backoff EXCEPT ![c] = nextBackoff(@, settings[c].retryMax)]
    <3> DEFINE next == nextBackoff(backoff[c], settings[c].retryMax)
    <3>1. /\ settings[c] \in Settings /\ backoff[c] \in Int
          /\ settings[c].retryInitial <= backoff[c] /\ backoff[c] <= settings[c].retryMax
      BY <2>1 DEF StartupInv, StartupTypes, BackoffInv
    <3>2. /\ settings[c].retryInitial \in 1..MaxInt /\ settings[c].retryMax \in 1..MaxInt
      BY <2>1, <3>1, AcceptedLimits
    <3>3. backoff[c] \in 1..MaxInt
      BY <3>1, <3>2, StartupAssumption
    <3>4. next \in Int /\ settings[c].retryInitial <= next /\ next <= settings[c].retryMax
      <4>1. next \in Int /\ backoff[c] <= next /\ next <= settings[c].retryMax
        BY <3>1, <3>2, <3>3, NextBackoffGrows
      <4> HIDE DEF next
      <4> QED
        BY <3>1, <3>2, <4>1
    <3>5. backoff' = [backoff EXCEPT ![c] = next]
      BY <2>3
    <3> HIDE DEF next
    <3>6. StartupTypes'
      BY <2>1, <2>3, <3>4, <3>5 DEF StartupInv, StartupTypes, Goto, clusterVars
    <3>7. BackoffInv'
      BY <2>1, <2>3, <3>4, <3>5 DEF StartupInv, StartupTypes, BackoffInv, Goto
    <3>8. ReplyInv'
      BY <2>1, <2>3 DEF StartupInv, StartupTypes, ReplyInv, TopicThere, Goto, clusterVars
    <3>9. VerdictHasReason'
      BY <2>1, <2>3 DEF StartupInv, VerdictHasReason, clusterVars
    <3> QED
      BY <3>6, <3>7, <3>8, <3>9 DEF StartupInv
  <2> QED
    BY <1>9, <2>2, <2>3 DEF Wait
<1> QED
  BY <1>3, <1>4, <1>5, <1>6, <1>7, <1>8, <1>9 DEF ClientStep

\* The cluster may do what it likes but forget the topic or change its rights.
LEMMA StartupInvariant == StartupSpec => []StartupInv
<1>1. StartupInit => StartupInv
  <2> SUFFICES ASSUME StartupInit
               PROVE  StartupInv
    OBVIOUS
  <2>1. StartupTypes
    BY StartupAssumption, DurationAssumption DEF StartupInit, StartupTypes
  <2>2. BackoffInv
    BY StartupAssumption, DurationAssumption
       DEF StartupInit, BackoffInv, Accepted, validateRetryConfig
  <2>3. ReplyInv /\ VerdictHasReason
    BY DEF StartupInit, ReplyInv, VerdictHasReason
  <2> QED
    BY <2>1, <2>2, <2>3 DEF StartupInv
<1>2. StartupInv /\ [StartupNext]_startupVars => StartupInv'
  <2> SUFFICES ASSUME StartupInv, [StartupNext]_startupVars
               PROVE  StartupInv'
    OBVIOUS
  <2> USE DEF StartupInv, StartupTypes, BackoffInv, ReplyInv, TopicThere, VerdictHasReason
  <2>1. ASSUME NEW c \in Clients, ClientStep(c)
        PROVE  StartupInv'
    BY <2>1, ClientKeepsInv
  <2>2. ASSUME NEW c \in Clients, Cancel(c)
        PROVE  StartupInv'
    BY <2>2 DEF Cancel, clusterVars
  <2>3. ASSUME NEW b \in Brokers, BrokerFails(b) \/ BrokerRecovers(b)
        PROVE  StartupInv'
    BY <2>3 DEF BrokerFails, BrokerRecovers, clientVars
  <2>4. CASE ElectLeader
    BY <2>4 DEF ElectLeader, clientVars
  <2>5. CASE UNCHANGED startupVars
    BY <2>5 DEF startupVars, clusterVars, clientVars
  <2> QED
    BY <2>1, <2>2, <2>3, <2>4, <2>5 DEF StartupNext
<1> QED
  BY <1>1, <1>2, PTL DEF StartupSpec

\* For every configuration that EnsureTopic accepts, up to the largest
\* time.Duration, every delay of waitForRetry lies between retryInitial and
\* retryMax: nextBackoff does not overflow.
THEOREM BackoffAlwaysWithinLimits == StartupSpec => []BackoffWithinLimits
<1>1. StartupInv => BackoffWithinLimits
  <2> SUFFICES ASSUME StartupInv, NEW c \in Clients, pc[c] = "wait"
               PROVE  /\ backoff[c] > 0
                      /\ backoff[c] >= settings[c].retryInitial
                      /\ backoff[c] <= settings[c].retryMax
    BY DEF BackoffWithinLimits
  <2>1. /\ settings[c] \in Settings /\ backoff[c] \in Int /\ Accepted(settings[c])
        /\ settings[c].retryInitial <= backoff[c] /\ backoff[c] <= settings[c].retryMax
    BY DEF StartupInv, StartupTypes, BackoffInv
  <2>2. settings[c].retryInitial \in 1..MaxInt /\ settings[c].retryMax \in 1..MaxInt
    BY <2>1, AcceptedLimits
  <2> QED
    BY <2>1, <2>2
<1> QED
  BY <1>1, StartupInvariant, PTL

\* For any clients that race for the topic, any loss of replies and any failure of
\* brokers: EnsureTopic gives up for good only when the cluster refuses it (a
\* topic that already exists is no refusal), and returns nil only when the topic
\* exists and the cluster lets the client use it.
THEOREM VerdictAlwaysHasReason == StartupSpec => []VerdictHasReason
BY StartupInvariant, PTL DEF StartupInv
=============================================================================
