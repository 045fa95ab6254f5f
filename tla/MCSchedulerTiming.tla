-------------------------- MODULE MCSchedulerTiming --------------------------
EXTENDS SchedulerTiming

\* Interval 3, MaxCycle 2 and one failure: 8 is enough; two short reminders,
\* one refused event, one that has to wait for it.
MCEvents ==
    <<[start |-> 6, notify |-> 1], [start |-> 11, notify |-> 8], [start |-> 12, notify |-> 2],
      [start |-> 13, notify |-> 8], [start |-> 14, notify |-> 4], [start |-> 15, notify |-> 9]>>
MCRejected == {5}
=============================================================================
