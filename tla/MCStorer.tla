------------------------------ MODULE MCStorer ------------------------------
EXTENDS StorerSystem

Note(i, t) == [eventID |-> i, title |-> t, eventAt |-> 1, userID |-> "u"]

\* Two versions of one event, another event, and JSON without a title.
MCIncoming == {Note(1, "a"), Note(1, "b"), Note(2, "a"), Note(1, "")}
=============================================================================
