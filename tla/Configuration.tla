---------------------------- MODULE Configuration ----------------------------
(***************************************************************************)
(* How a service gets its configuration (internal/config): the defaults,   *)
(* then the file, then the environment, then Validate; and what the parts  *)
(* it is handed to (logger, storage, Kafka start-up, scheduler) refuse.    *)
(* A number or a duration that was read from text is <<value>>, or <<>>    *)
(* when it does not parse.  A broker list of the environment is the        *)
(* sequence of its pieces between commas.                                  *)
(***************************************************************************)
EXTENDS KafkaSettings

CONSTANTS
    Files,          \* [pathBlank, readable, values], values by field
    Environments,   \* the CALENDAR_ variables that are set, by field
    DefaultTopic    \* "calendar.notifications"

\* A broker list has the type []string in the file and in the environment.
ASSUME BrokersAssumption ==
    \A values \in {f.values : f \in Files} \cup Environments :
        "brokers" \in DOMAIN values => values["brokers"] \in Seq(STRING)

VARIABLES service, file, env, config, stage
configVars == <<service, file, env, config, stage>>

Services == {"calendar", "scheduler", "storer"}
Trim(text) == IF text \in Blanks THEN "" ELSE text
Override(f, g) == [x \in DOMAIN f |-> IF x \in DOMAIN g THEN g[x] ELSE f[x]]

-----------------------------------------------------------------------------
commonDefaults(type) == [level |-> "info", storageType |-> type, dsn |-> ""]
defaultKafka ==
    [brokers |-> <<"localhost:9092">>, topic |-> DefaultTopic, groupID |-> "",
     connectTimeout |-> 5000, retryInitial |-> 500, retryMax |-> 10000,
     writeTimeout |-> 10000, maxMessageBytes |-> 1048576]
Join(f, g) == [x \in DOMAIN f \cup DOMAIN g |-> IF x \in DOMAIN g THEN g[x] ELSE f[x]]
NewCalendar == Join(commonDefaults("memory"), [httpHost |-> "0.0.0.0", httpPort |-> 8080])
NewStorer ==
    Join(commonDefaults("sql"),
         Join(defaultKafka, [metricsHost |-> "0.0.0.0", metricsPort |-> 8082, groupID |-> "calendar-storer"]))
NewScheduler ==
    Join(commonDefaults("sql"),
         Join(defaultKafka, [metricsHost |-> "0.0.0.0", metricsPort |-> 8081,
                             interval |-> 60000, batchSize |-> 100, retentionYears |-> 1]))

Defaults(s) ==
    CASE s = "calendar" -> NewCalendar [] s = "scheduler" -> NewScheduler [] s = "storer" -> NewStorer

TextFields == {"level", "storageType", "dsn", "httpHost", "metricsHost", "topic", "groupID", "brokers"}

\* overrideInt, overrideDuration, UnmarshalText: a text that does not parse.
Unparsed(values) == \E f \in DOMAIN values \ TextFields : values[f] = <<>>
Parsed(values) == [f \in DOMAIN values |-> IF f \in TextFields THEN values[f] ELSE values[f][1]]

-----------------------------------------------------------------------------
ConfigInit ==
    /\ service \in Services /\ file \in Files /\ env \in Environments
    /\ config = Defaults(service) /\ stage = "decode"

Proceed(c, next) == config' = c /\ stage' = next /\ UNCHANGED <<service, file, env>>
Reject == stage' = "rejected" /\ UNCHANGED <<service, file, env, config>>

\* A blank path, a file that cannot be read or decoded, an unknown field.
decode ==
    /\ stage = "decode"
    /\ IF \/ file.pathBlank \/ ~file.readable
          \/ Unparsed(file.values)
          \/ ~(DOMAIN file.values \subseteq DOMAIN config)
       THEN Reject
       ELSE Proceed(Override(config, Parsed(file.values)), "environment")

\* The settings that the environment may override, by the names the code looks up.
commonVariables == {"level", "storageType", "dsn"}
metricsVariables == {"metricsHost", "metricsPort"}
kafkaVariables ==
    {"brokers", "topic", "groupID", "connectTimeout", "retryInitial", "retryMax",
     "writeTimeout", "maxMessageBytes"}
Variables(s) ==
    commonVariables \cup
    CASE s = "calendar" -> {"httpHost", "httpPort"}
      [] s = "scheduler" -> metricsVariables \cup kafkaVariables \cup {"interval", "batchSize", "retentionYears"}
      [] s = "storer" -> metricsVariables \cup kafkaVariables

applyEnvironment ==
    LET values == [f \in DOMAIN env \cap Variables(service) |->
                      IF f = "brokers" THEN [n \in DOMAIN env[f] |-> Trim(env[f][n])] ELSE env[f]]
    IN  /\ stage = "environment"
        /\ IF Unparsed(values) THEN Reject ELSE Proceed(Override(config, Parsed(values)), "validate")

validateKafkaTopicName(topic) ==
    ~topic.blank /\ topic.length <= 249 /\ ~topic.reserved /\ ~topic.badByte

\* Logger.validate, Metrics.validate and HTTP, Storage.validate
validLogger(c) == c.level \in {"error", "warn", "info", "debug"}
validAddress(host, port) == host \notin Blanks /\ port >= 1 /\ port <= 65535
validStorage(c, allowMemory) ==
    \/ c.storageType = "memory" /\ allowMemory
    \/ c.storageType = "sql" /\ c.dsn \notin Blanks

\* Mutant: the two retry delays are not compared.
validKafkaApart(c, requireGroup) ==
    /\ c.brokers # <<>> /\ \A n \in DOMAIN c.brokers : c.brokers[n] \notin Blanks
    /\ validateKafkaTopicName(c.topic)
    /\ requireGroup => c.groupID \notin Blanks
    /\ c.connectTimeout > 0 /\ c.retryInitial > 0 /\ c.retryMax > 0
    /\ c.writeTimeout > 0 /\ c.maxMessageBytes > 0

\* Kafka.validate
validKafka(c, requireGroup) ==
    /\ c.brokers # <<>> /\ \A n \in DOMAIN c.brokers : c.brokers[n] \notin Blanks
    /\ validateKafkaTopicName(c.topic)
    /\ requireGroup => c.groupID \notin Blanks
    /\ c.connectTimeout > 0 /\ c.retryInitial > 0 /\ c.retryMax > 0
    /\ c.retryInitial <= c.retryMax
    /\ c.writeTimeout > 0 /\ c.maxMessageBytes > 0

Validate(c) ==
    /\ validLogger(c)
    /\ service = "calendar" => validAddress(c.httpHost, c.httpPort) /\ validStorage(c, TRUE)
    /\ service # "calendar" =>
          /\ validAddress(c.metricsHost, c.metricsPort) /\ validStorage(c, FALSE)
          /\ validKafka(c, service = "storer")
    /\ service = "scheduler" => c.interval > 0 /\ c.batchSize > 0 /\ c.retentionYears > 0

validate ==
    /\ stage = "validate"
    /\ IF Validate(config) THEN Proceed(config, "loaded") ELSE Reject

-----------------------------------------------------------------------------
\* The parts a service builds from its configuration.
parseLevel(l) == l \in {"error", "warn", "info", "debug"}
newStorage(c) == c.storageType = "memory" \/ (c.storageType = "sql" /\ c.dsn \notin Blanks)
connectStorage(c) == c.dsn \notin Blanks
ensureTopic(c) ==
    /\ validateTopicName(c.topic)
    /\ validateRetryConfig(c.brokers, c.connectTimeout, c.retryInitial, c.retryMax)
newScheduler(c) == c.interval > 0 /\ c.batchSize > 0 /\ c.retentionYears > 0

\* The reader of kafka-go panics on these.
newConsumer(c) == c.brokers # <<>> /\ c.groupID # "" /\ c.maxMessageBytes > 0

Builds(c) ==
    /\ parseLevel(c.level)
    /\ IF service = "calendar" THEN newStorage(c) ELSE connectStorage(c) /\ ensureTopic(c)
    /\ service = "scheduler" => newScheduler(c)
    /\ service = "storer" => newConsumer(c)

start ==
    /\ stage = "loaded"
    /\ stage' = IF Builds(config) THEN "started" ELSE "failed"
    /\ UNCHANGED <<service, file, env, config>>

Settled == stage \in {"rejected", "started", "failed"} /\ UNCHANGED configVars

ConfigNext == decode \/ applyEnvironment \/ validate \/ start \/ Settled
ConfigSpec == ConfigInit /\ [][ConfigNext]_configVars

-----------------------------------------------------------------------------
\* A configuration that Validate lets through is accepted by everything that is
\* built from it: the checks of config, logger, kafka and scheduler agree.
ValidMeansUsable == stage # "failed"
=============================================================================
