CONSTANTS
    Clients = {"scheduler", "storer"}
    Brokers = {"b1", "b2"}
    Settings <- MCSettings
    MaxInt = 7
SPECIFICATION StartupSpec
INVARIANTS BackoffWithinLimits VerdictHasReason
PROPERTY StartupEnds
