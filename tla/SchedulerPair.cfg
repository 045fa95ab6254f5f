CONSTANTS
    Requests <- MCRequests
    Cutoffs <- MCCutoffs
    Malformed = Malformed
    Schedulers = {s1, s2}
    BatchSize = 2
    Retention = 1
    MaxTime = 2
    MaxWrites = 2
    MaxFaults = 2
    MaxLate = 1
SPECIFICATION Spec
INVARIANT NoSpuriousPublish
SYMMETRY SchedulerSymmetry
