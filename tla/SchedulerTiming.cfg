CONSTANTS
    Events <- MCEvents
    Rejected <- MCRejected
    Interval = 3
    MaxCycle = 2
    MaxFailures = 1
    Horizon = 18
SPECIFICATION TimingSpec
INVARIANT HealthyMeansSent
PROPERTY SentInTime
