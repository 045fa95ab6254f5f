--------------------------- MODULE MCConfiguration ---------------------------
EXTENDS Configuration

MCTopic == [blank |-> FALSE, length |-> 22, reserved |-> FALSE, badByte |-> FALSE]
MCTopics ==
    {MCTopic, [MCTopic EXCEPT !.blank = TRUE], [MCTopic EXCEPT !.length = 250],
     [MCTopic EXCEPT !.reserved = TRUE], [MCTopic EXCEPT !.badByte = TRUE]}

\* One setting, with the values at which the checks of the code change.
MCChoices(f) ==
    CASE f = "level" -> {"debug", "trace"}
      [] f = "storageType" -> {"memory", "sql", "redis"}
      [] f \in {"dsn", "groupID", "httpHost", "metricsHost"} -> {" ", "x"}
      [] f = "topic" -> MCTopics
      [] f = "brokers" -> {<<"">>, <<"b1", "b2">>, <<"b1", " ">>}
      [] f \in {"httpPort", "metricsPort"} -> {<<>>, <<0>>, <<65535>>, <<65536>>}
      [] f \in {"retryInitial", "retryMax"} -> {<<>>, <<0>>, <<400>>, <<20000>>}
      [] OTHER -> {<<>>, <<0>>, <<1>>}

MCFields == DOMAIN NewCalendar \cup DOMAIN NewScheduler
MCOne == UNION {[{f} -> MCChoices(f)] : f \in MCFields}
MCDsn == [f \in {"dsn"} |-> "postgres"]

\* A file with at most one setting besides the DSN, or one that fails.
MCFile(v) == [pathBlank |-> FALSE, readable |-> TRUE, values |-> v]
MCFiles ==
    {MCFile(Join(MCDsn, v)) : v \in MCOne} \cup
    {MCFile([f \in {} |-> ""]), MCFile([f \in {"brokers"} |-> <<>>]),
     [MCFile(MCDsn) EXCEPT !.pathBlank = TRUE], [MCFile(MCDsn) EXCEPT !.readable = FALSE]}
MCEnvironments == MCOne \cup {[f \in {} |-> ""]}
=============================================================================
