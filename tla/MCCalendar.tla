------------------------------ MODULE MCCalendar ------------------------------
EXTENDS Calendar

Request(i, t, s, n) ==
    [id |-> i, title |-> t, startAt |-> s, endAt |-> s + 1, userID |-> "u", notifyBefore |-> n]

\* One event that is renamed or moved, and another one.
MCRequests == {Request(1, "a", 2, 2), Request(1, "b", 2, 2), Request(2, "c", 1, 1)}
MCCutoffs == {}
===============================================================================
