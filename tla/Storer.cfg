CONSTANTS
    Malformed = Malformed
    Incoming <- MCIncoming
    MaxTopic = 4
    MaxStorerFaults = 3
SPECIFICATION StorerSystemSpec
CHECK_DEADLOCK FALSE
INVARIANT TableFollowsTopic
PROPERTIES TableNeverGoesBack TopicIsDrained
