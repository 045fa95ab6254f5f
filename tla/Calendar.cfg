CONSTANTS
    Requests <- MCRequests
    Cutoffs <- MCCutoffs
    Malformed = Malformed
    Schedulers = {s1}
    BatchSize = 2
    Retention = 1
    MaxTime = 2
    MaxWrites = 3
    MaxFaults = 2
    MaxLate = 0
SPECIFICATION CalendarSpec
INVARIANT CaughtUpTableAgrees
PROPERTY ImplementsLedger
