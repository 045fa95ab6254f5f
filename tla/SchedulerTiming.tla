--------------------------- MODULE SchedulerTiming ---------------------------
(***************************************************************************)
(* The clock of Scheduler.Run: a first cycle at once, then a ticker that   *)
(* keeps at most one tick, and cycles that take time.  Which reminders are *)
(* sent in time, and what the metrics say about it.  (Scheduler models     *)
(* what a cycle does to table and topic; here a cycle publishes an event   *)
(* and marks it in one step.)                                              *)
(*                                                                         *)
(* Events is the table in the order start_at, id; those in Rejected have a *)
(* message that Kafka refuses every time.  A cycle takes at most MaxCycle, *)
(* at most MaxFailures fail for another reason, time ends at Horizon.      *)
(***************************************************************************)
EXTENDS Integers, Sequences, FiniteSets

CONSTANTS Events, Rejected, Interval, MaxCycle, MaxFailures, Horizon

ASSUME TimingAssumption ==
    /\ Events \in Seq([start : Int, notify : Nat])
    /\ Rejected \subseteq DOMAIN Events
    /\ Interval \in Nat \ {0} /\ MaxCycle \in Nat /\ MaxFailures \in Nat /\ Horizon \in Nat

VARIABLES
    now,
    tick,         \* a tick is in the channel of the ticker
    untilTick,    \* time to its next tick, 0 before newTicker
    running,      \* RunOnce is in progress
    startedAt,    \* the instant of the current or last cycle
    sent,         \* the events published and marked
    failures,     \* transient failures so far
    lastSuccess,  \* last_success_timestamp_seconds, -1 while unset
    cycles        \* cycles_total by result

timingVars == <<now, tick, untilTick, running, startedAt, sent, failures, lastSuccess, cycles>>

TimingInit ==
    /\ now \in 0..Interval
    /\ tick = FALSE /\ untilTick = 0
    /\ running = TRUE /\ startedAt = now   \* runAndLog before newTicker
    /\ sent = {} /\ failures = 0
    /\ lastSuccess = -1 /\ cycles = [success |-> 0, error |-> 0]

\* Mutant: events that have begun are still listed.
DueForEver(e, at) == Events[e].start - Events[e].notify <= at

\* start_at > $1 AND start_at <= $1 + notify_before
Due(e, at) == Events[e].start - Events[e].notify <= at /\ Events[e].start > at

Pending(at) == {e \in DOMAIN Events : Due(e, at) /\ e \notin sent}
First(S) == CHOOSE e \in S : \A f \in S : e <= f

\* Time passes.  The process is never idle with a tick in the channel, and a
\* cycle ends in time; a tick that finds the channel full is dropped.
Elapse ==
    /\ now < Horizon
    /\ running => now - startedAt < MaxCycle
    /\ ~running => ~tick
    /\ now' = now + 1
    /\ untilTick' = IF untilTick = 0 THEN 0 ELSE IF untilTick = 1 THEN Interval ELSE untilTick - 1
    /\ tick' = (tick \/ untilTick = 1)
    /\ UNCHANGED <<running, startedAt, sent, failures, lastSuccess, cycles>>

\* case <-ticks: s.runAndLog(ctx, s.now())
Begin ==
    /\ ~running /\ tick
    /\ tick' = FALSE /\ running' = TRUE /\ startedAt' = now
    /\ UNCHANGED <<now, untilTick, sent, failures, lastSuccess, cycles>>

\* publish: the next event of the cycle.
Publish ==
    /\ running /\ Pending(startedAt) # {}
    /\ First(Pending(startedAt)) \notin Rejected
    /\ sent' = sent \cup {First(Pending(startedAt))}
    /\ UNCHANGED <<now, tick, untilTick, running, startedAt, failures, lastSuccess, cycles>>

\* Mutant: the timestamp is set after every cycle.
ObserveAnyCycle(success) ==
    /\ cycles' = IF success THEN [cycles EXCEPT !.success = @ + 1] ELSE [cycles EXCEPT !.error = @ + 1]
    /\ lastSuccess' = now

ObserveSchedulerCycle(success) ==
    /\ cycles' = IF success THEN [cycles EXCEPT !.success = @ + 1] ELSE [cycles EXCEPT !.error = @ + 1]
    /\ lastSuccess' = IF success THEN now ELSE lastSuccess

\* RunOnce returns; after the first cycle the ticker is created.
End(success) ==
    /\ running' = FALSE
    /\ ObserveSchedulerCycle(success)
    /\ untilTick' = IF untilTick = 0 THEN Interval ELSE untilTick
    /\ UNCHANGED <<now, tick, startedAt, sent>>

Succeed == running /\ Pending(startedAt) = {} /\ End(TRUE) /\ UNCHANGED failures
RejectEvent ==
    /\ running /\ Pending(startedAt) # {}
    /\ First(Pending(startedAt)) \in Rejected
    /\ End(FALSE)
    /\ UNCHANGED failures
Fail == running /\ failures < MaxFailures /\ End(FALSE) /\ failures' = failures + 1

Over == now = Horizon /\ ~running /\ ~tick /\ UNCHANGED timingVars

TimingNext == Elapse \/ Begin \/ Publish \/ Succeed \/ RejectEvent \/ Fail \/ Over
TimingSpec == TimingInit /\ [][TimingNext]_timingVars

-----------------------------------------------------------------------------
\* The longest time between two cycles: the ticker only exists once the first
\* cycle is over, later a cycle may overrun one tick.
LargestOf(a, b) == IF a > b THEN a ELSE b
Gap == Interval + MaxCycle
Enough == Gap + MaxFailures * LargestOf(Interval, MaxCycle)

\* A reminder whose notify_before covers the first gap and the failed cycles is
\* never missed, unless an event before it in the listing is refused by Kafka.
NeverMissed ==
    \A e \in DOMAIN Events :
        /\ Events[e].notify >= Enough
        /\ Events[e].start - Events[e].notify >= Interval   \* the window opens after the start
        /\ Events[e].start <= now
        /\ ~running
        /\ \A f \in Rejected : e < f
        => e \in sent

\* One instant serves a whole cycle, so a reminder may be sent when its event
\* has begun, but never later than the length of a cycle, and never early.
SentNearWindow ==
    [][\A e \in sent' \ sent :
          /\ now >= Events[e].start - Events[e].notify
          /\ now < Events[e].start + MaxCycle]_timingVars

\* A reminder is sent, and around the right time.
SentInTime == []NeverMissed /\ SentNearWindow

\* The timestamp that is monitored tells the truth: every reminder that became
\* due a cycle's length before it, of an event that has not begun, is sent.
HealthyMeansSent ==
    \A e \in DOMAIN Events :
        /\ lastSuccess >= 0
        /\ Events[e].start - Events[e].notify <= lastSuccess - MaxCycle
        /\ Events[e].start > lastSuccess
        => e \in sent
=============================================================================
