----------------------------- MODULE MCScheduler -----------------------------
EXTENDS Scheduler, TLC

Request(i, t, s, n) ==
    [id |-> i, title |-> t, startAt |-> s, endAt |-> s + 1, userID |-> "u", notifyBefore |-> n]

\* Two events, the first of which is renamed, moved or silenced by updates.
MCRequests ==
    {Request(1, "a", 2, 2), Request(1, "b", 2, 2), Request(1, "a", 1, 1),
     Request(2, "c", 3, 3), Request(2, "", 3, 3)}

\* For one scheduler also a longer event, which overlaps the others: nobody may
\* be booked twice.
MCMoreRequests == MCRequests \cup {[Request(2, "c", 1, 1) EXCEPT !.endAt = 3]}

SchedulerSymmetry == Permutations(Schedulers)
MCCutoffs == {}
=============================================================================
