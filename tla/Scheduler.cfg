CONSTANTS
    Requests <- MCMoreRequests
    Cutoffs <- MCCutoffs
    Malformed = Malformed
    Schedulers = {s1}
    BatchSize = 1
    Retention = 1
    MaxTime = 3
    MaxWrites = 3
    MaxFaults = 2
    MaxLate = 0
SPECIFICATION Spec
INVARIANTS TypeOK MarkedIsPublished NoSpuriousPublish MarkIsLastWord BookingsConsistent
