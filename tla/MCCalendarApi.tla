---------------------------- MODULE MCCalendarApi ----------------------------
EXTENDS CalendarApi

MCBody(route, i, s, e, n) ==
    [route |-> route, pathBinds |-> TRUE, isJSON |-> TRUE, decodes |-> TRUE, id |-> i, title |-> "a",
     startAt |-> s, endAt |-> e, userID |-> "u", seconds |-> n]

\* Days have two instants; months begin on days 1, 3 and 5.  The largest number
\* of seconds in a duration is 3 (MaxInt = 15, Second = 4); 8 would wrap to 0.
MCWriteRequests ==
    {MCBody("POST /events", 1, 5, 7, NoSeconds), MCBody("POST /events", 2, 6, 8, 3),
     MCBody("POST /events", 2, 3, 5, 1), MCBody("POST /events", 2, 8, 10, 8), MCBody("PUT /events/{eventId}", 1, 7, 8, 4),
     MCBody("PUT /events/{eventId}", 1, 8, 9, 1),
     [MCBody("POST /events", 2, 6, 8, 3) EXCEPT !.isJSON = FALSE],
     [MCBody("POST /events", 2, 6, 8, 3) EXCEPT !.decodes = FALSE],
     [MCBody("POST /events", 2, 6, 8, 3) EXCEPT !.title = ""],
     [MCBody("PUT /events/{eventId}", 1, 8, 9, 1) EXCEPT !.pathBinds = FALSE]}

MCList(route, u, d) == [route |-> route, userID |-> u, date |-> d]
MCHttpRequests ==
    MCWriteRequests \cup
    {[route |-> "DELETE /events/{eventId}", pathBinds |-> TRUE, id |-> 1], [route |-> "GET /hello"],
     MCList("GET /events/day", "u", 0),
     [route |-> "unmatched"], MCList("GET /events/day", "u", 2), MCList("GET /events/day", "", 3),
     MCList("GET /events/week", "u", 4), MCList("GET /events/month", "u", 4),
     MCList("GET /events/month", "u", BadDate)}

MCMonthStarts == {1, 3, 5}
MCRequests == {newStorageEvent(r) : r \in MCWriteRequests}
=============================================================================
