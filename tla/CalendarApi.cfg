CONSTANTS
    Handlers = {h1, h2}
    NoHandler = NoHandler
    Requests <- MCRequests
    HttpRequests <- MCHttpRequests
    NoSeconds = NoSeconds
    BadDate = BadDate
    DayLength = 2
    MonthStarts <- MCMonthStarts
    MaxInt = 15
    Second = 4
    MaxServed = 3
SPECIFICATION FairApiSpec
INVARIANTS MetricsBalance ReminderAsRequested
PROPERTIES ImplementsEventStorage ListingMeetsDays CallReturns
