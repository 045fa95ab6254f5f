--------------------------- MODULE MCKafkaStartup ---------------------------
EXTENDS KafkaStartup

MCTopic == [blank |-> FALSE, length |-> 22, reserved |-> FALSE, badByte |-> FALSE]
MCSetting(bs, first, max) ==
    [topic |-> MCTopic, brokers |-> bs, dialTimeout |-> 1, retryInitial |-> first, retryMax |-> max]

\* Delays of 3, 6, 7 and of 4, 7 where 7 is the largest duration; and refused ones.
MCSettings ==
    {MCSetting(<<"b1", "b2">>, 3, 7), MCSetting(<<"b2">>, 4, 7),
     MCSetting(<<>>, 3, 7), MCSetting(<<"b1", " ">>, 3, 7), MCSetting(<<"b1">>, 7, 6),
     [MCSetting(<<"b1">>, 3, 7) EXCEPT !.topic.length = 250]}
=============================================================================
