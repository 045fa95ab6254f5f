----------------------------- MODULE CalendarApi -----------------------------
(***************************************************************************)
(* The HTTP API of the calendar (internal/server/http, internal/app) on    *)
(* the in-memory storage: a request is routed and decoded, turned into an  *)
(* event or a listing interval, handed to the storage, answered with a     *)
(* status, and counted by the metrics middleware.                          *)
(*                                                                         *)
(* Instants are numbers, a day has DayLength of them and day d begins at   *)
(* d * DayLength; the first days of the months are in MonthStarts.         *)
(* int64 is a two's complement integer with the maximum MaxInt, and        *)
(* time.Second is Second nanoseconds.  At most MaxServed requests arrive.  *)
(***************************************************************************)
EXTENDS MemoryStorage

CONSTANTS HttpRequests, NoSeconds, BadDate, DayLength, MonthStarts, MaxInt, Second, MaxServed

ASSUME ApiAssumption ==
    /\ DayLength \in Nat \ {0}
    /\ MonthStarts \subseteq Nat
    /\ MaxInt \in Nat /\ Second \in 1..MaxInt
    /\ MaxServed \in Nat

VARIABLES
    request,     \* the HTTP request each goroutine serves
    status,      \* statusWriter.status, 0 until a header is written
    operations,  \* calendar_event_operations_total by operation and result
    served       \* requests so far

apiVars == <<storageVars, request, status, operations, served>>

\* The operation a route is counted as; other routes are not counted.
eventOperation(route) ==
    CASE route = "POST /events" -> "create"
      [] route = "PUT /events/{eventId}" -> "update"
      [] route = "DELETE /events/{eventId}" -> "delete"
      [] route = "GET /events/day" -> "list_day"
      [] route = "GET /events/week" -> "list_week"
      [] route = "GET /events/month" -> "list_month"
      [] OTHER -> ""

Operations == {"create", "update", "delete", "list_day", "list_week", "list_month"}
WritesEvent(r) == eventOperation(r.route) \in {"create", "update"}
Lists(r) == eventOperation(r.route) \in {"list_day", "list_week", "list_month"}

-----------------------------------------------------------------------------
(* From the request to the storage call.                                    *)

\* int64 arithmetic.
Wrap(x) == ((x + MaxInt + 1) % (2 * (MaxInt + 1))) - (MaxInt + 1)

\* Mutant: only negative numbers are refused.
TooLongIfNegative(seconds) == seconds # NoSeconds /\ seconds < 0

\* *seconds < 0 || *seconds > maxSeconds
TooLong(seconds) == seconds # NoSeconds /\ (seconds < 0 \/ seconds > MaxInt \div Second)

notificationDuration(seconds) == IF seconds = NoSeconds THEN 0 ELSE Wrap(seconds * Second)

newStorageEvent(r) ==
    [id |-> r.id, title |-> r.title, startAt |-> r.startAt, endAt |-> r.endAt,
     userID |-> r.userID, notifyBefore |-> notificationDuration(r.seconds)]

\* The first and the last month start around a day.
MonthOf(d) == Cardinality({m \in MonthStarts : m <= d})
FirstOfMonth(d) == CHOOSE m \in MonthStarts : MonthOf(m) = MonthOf(d)
FirstOfNext(d) == CHOOSE m \in MonthStarts : MonthOf(m) = MonthOf(d) + 1

\* The days the three listings of App ask the storage for.
Interval(r) ==
    CASE r.route = "GET /events/day" -> <<r.date, r.date + 1>>
      [] r.route = "GET /events/week" -> <<r.date, r.date + 7>>
      [] r.route = "GET /events/month" -> <<FirstOfMonth(r.date), FirstOfNext(r.date)>>

CallOf(r) ==
    CASE WritesEvent(r) -> [op |-> eventOperation(r.route), event |-> newStorageEvent(r)]
      [] Lists(r) -> [op |-> "list", userID |-> r.userID,
                      from |-> Interval(r)[1] * DayLength, to |-> Interval(r)[2] * DayLength]
      [] OTHER -> [op |-> "delete", id |-> r.id]

\* The generated wrappers and listEvents: an event of the path has a parameter that
\* can be decoded; a listing needs its two query parameters (a missing one is blank
\* or no date), a user and a date that parses.
Bound(r) ==
    /\ eventOperation(r.route) \in {"update", "delete"} => r.pathBinds
    /\ Lists(r) => r.userID # ES!BlankText /\ r.date # BadDate

\* decodeJSON, after the Content-Type: one JSON object without unknown fields.
Decoded(r) == WritesEvent(r) => r.decodes

\* The status of a request that never reaches the application, or 0.
EarlyStatus(r) ==
    CASE r.route = "GET /hello" -> 200
      [] r.route = "unmatched" -> 404
      [] ~Bound(r) -> 400
      [] Bound(r) /\ WritesEvent(r) /\ ~r.isJSON -> 415
      [] OTHER -> IF \/ ~Decoded(r)
                     \/ WritesEvent(r) /\ (TooLong(r.seconds) \/ ~ES!ValidateEvent(newStorageEvent(r)))
                  THEN 400 ELSE 0

\* writeApplicationError, or the success status of the handler.
StatusOf(r, result) ==
    CASE result = "invalid" -> 400
      [] result = "notFound" -> 404
      [] result \in {"exists", "busy"} -> 409
      [] result = "canceled" -> 500
      [] result = "ok" -> (CASE eventOperation(r.route) = "create" -> 201
                             [] eventOperation(r.route) = "delete" -> 204
                             [] OTHER -> 200)

\* Every request has a counted route, is GET /hello or matches no route; a body
\* carries an integer number of seconds or none; and Requests holds the events
\* of the bodies that are accepted.
ASSUME HttpAssumption ==
    \A r \in HttpRequests :
        /\ eventOperation(r.route) \in Operations \/ r.route \in {"GET /hello", "unmatched"}
        /\ WritesEvent(r) =>
              /\ r.seconds # NoSeconds => r.seconds \in Int
              /\ EarlyStatus(r) = 0 => newStorageEvent(r) \in Requests

\* A listing's date is a day, and for a month its first day and the first day of
\* the next month are in MonthStarts.
ASSUME DatesAssumption ==
    /\ Requests \subseteq ES!Event
    /\ \A r \in HttpRequests : Lists(r) /\ r.date # BadDate =>
          /\ r.date \in Nat
          /\ r.route = "GET /events/month" =>
                \A k \in {MonthOf(r.date), MonthOf(r.date) + 1} :
                    \E m \in MonthStarts : MonthOf(m) = k

-----------------------------------------------------------------------------
ApiInit ==
    /\ StoreInit
    /\ request = [h \in Handlers |-> NoHandler]
    /\ status = [h \in Handlers |-> 0]
    /\ operations = [o \in Operations |-> [success |-> 0, error |-> 0]]
    /\ served = 0

\* A request arrives; it is refused at once or goes to the application.
Serve(h, r) ==
    /\ served < MaxServed
    /\ served' = served + 1
    /\ request' = [request EXCEPT ![h] = r]
    /\ \/ EarlyStatus(r) = 0 /\ Invoke(h, CallOf(r)) /\ UNCHANGED status
       \/ /\ EarlyStatus(r) # 0
          /\ pc[h] = "idle"
          /\ Goto(h, "returned")
          /\ status' = [status EXCEPT ![h] = EarlyStatus(r)]
          /\ UNCHANGED <<store, writer, readers, call, cancelled, reply, listVars>>
    /\ UNCHANGED operations

\* The handler writes the response of the application's result.
Answer(h) ==
    /\ pc[h] = "returned"
    /\ status[h] = 0
    /\ status' = [status EXCEPT ![h] = StatusOf(request[h], reply[h])]
    /\ UNCHANGED <<storageVars, request, operations, served>>

\* Mutant: every answer below 500 counts as a success.
SucceededUnlessBroken(s) == s < 500

\* status >= 200 && status < 300
Succeeded(s) == s >= 200 /\ s < 300

\* The metrics middleware, after the handler: ObserveEventOperation.
Observe(h) ==
    LET op == eventOperation(request[h].route)
    IN  /\ status[h] # 0
        /\ Done(h)
        /\ operations' =
              IF op = "" THEN operations
              ELSE IF Succeeded(status[h]) THEN [operations EXCEPT ![op].success = @ + 1]
              ELSE [operations EXCEPT ![op].error = @ + 1]
        /\ request' = [request EXCEPT ![h] = NoHandler]
        /\ status' = [status EXCEPT ![h] = 0]
        /\ UNCHANGED served

InStorage(h) == CallStep(h) /\ UNCHANGED <<request, status, operations, served>>
ClientLeaves(h) == Disconnect(h) /\ UNCHANGED <<request, status, operations, served>>

\* No further request arrives; CallReturns says that the ones in progress end.
Finished == served = MaxServed /\ UNCHANGED apiVars

\* No request is in progress.
Quiet == \A h \in Handlers : pc[h] = "idle"

ApiNext ==
    \/ \E h \in Handlers :
          InStorage(h) \/ ClientLeaves(h) \/ Answer(h) \/ Observe(h)
          \/ \E r \in HttpRequests : Serve(h, r)
    \/ Finished

ApiSpec == ApiInit /\ [][ApiNext]_apiVars

\* Goroutines run, and sync.RWMutex lets nobody starve.
FairApiSpec ==
    /\ ApiSpec
    /\ \A h \in Handlers :
          WF_storageVars(CallStep(h)) /\ SF_storageVars(Lock(h)) /\ SF_storageVars(RLock(h))

-----------------------------------------------------------------------------
\* What the operators read in the metrics is what happened: when no request is
\* in progress, the successful creations minus the successful deletions are the
\* events in the calendar, whatever was refused, cancelled or overlapped.
MetricsBalance ==
    Quiet => operations["create"].success - operations["delete"].success
                 = Cardinality(DOMAIN store)

\* The reminder that is stored is the one a client asked for: the conversion to
\* nanoseconds never wraps around, not even to a valid duration.
ReminderAsRequested ==
    \A i \in DOMAIN store :
        \E r \in HttpRequests :
            /\ WritesEvent(r) /\ r.id = i /\ r.startAt = store[i].startAt
            /\ store[i].notifyBefore = IF r.seconds = NoSeconds THEN 0 ELSE r.seconds * Second

\* The days a listing is about: a day, the week from it, the month around it.
DaysOf(r) ==
    {d \in 0..(Interval(r)[2] + 7) :
        CASE r.route = "GET /events/day" -> d = r.date
          [] r.route = "GET /events/week" -> d >= r.date /\ d < r.date + 7
          [] r.route = "GET /events/month" -> MonthOf(d) = MonthOf(r.date)}

\* The slice that is returned to h holds, in order, the events of the user that
\* take place on one of the days, and no others.
MeetsDays(h) ==
    /\ {listing'[h][n] : n \in 1..Len(listing'[h])} =
          {store[i] : i \in {j \in DOMAIN store :
              /\ store[j].userID = request[h].userID
              /\ \E t \in store[j].startAt..(store[j].endAt - 1) :
                    t \div DayLength \in DaysOf(request[h])}}
    /\ \A m, n \in 1..Len(listing'[h]) :
          m < n => ES!Before(listing'[h][m], listing'[h][n])

\* A successful listing answers the question although the map is visited event
\* by event and writers are waiting: it has the right events as of the moment
\* the read lock is released.
ListingMeetsDays == [][\A h \in Handlers : FinishList(h) => MeetsDays(h)]_apiVars
=============================================================================
