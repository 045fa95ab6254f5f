CONSTANTS
    Requests <- MCRequests
    Cutoffs <- MCCutoffs
    Malformed = Malformed
    Schedulers = {s1}
    BatchSize = 2
    Retention = 1
    MaxTime = 3
    MaxWrites = 2
    MaxFaults = 1
    MaxLate = 0
SPECIFICATION FairCalendarSpec
PROPERTIES CycleEnds ExpiredGoesAway DueReminderIsStored
