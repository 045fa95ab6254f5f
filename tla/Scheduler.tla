------------------------------ MODULE Scheduler ------------------------------
(***************************************************************************)
(* calendar_scheduler (internal/scheduler): every process repeats a cycle  *)
(* that deletes expired events, lists the events whose reminder is due,    *)
(* publishes each of them to Kafka and then marks it in the events table.  *)
(* The cycle works from a snapshot: clients of the API change the table    *)
(* between any two of its calls, other schedulers may be running, any call *)
(* may fail with or without having had its effect, and the process may be  *)
(* cancelled (SIGTERM) or die anywhere.                                    *)
(*                                                                         *)
(* Bounds: clients make at most MaxWrites creations and updates, at most   *)
(* MaxFaults failures, signals and crashes happen, at most MaxLate writes  *)
(* are late at a time (0: a write is appended before Send returns, or      *)
(* never), and the clock stops at MaxTime.  The two counters are also what *)
(* NoSpuriousPublish counts.                                               *)
(***************************************************************************)
EXTENDS EventStorage, NotificationTopic

CONSTANTS
    Schedulers,   \* scheduler processes
    BatchSize,    \* Config.BatchSize
    Retention,    \* Config.RetentionYears, in time units
    MaxTime, MaxWrites, MaxFaults, MaxLate

ASSUME SchedulerAssumption ==
    /\ IsFiniteSet(Schedulers)
    /\ BatchSize \in Nat \ {0}
    /\ Retention \in Nat \ {0}
    /\ MaxTime \in Nat
    /\ MaxWrites \in Nat
    /\ MaxFaults \in Nat
    /\ MaxLate \in Nat

VARIABLES
    clock,      \* time.Now()
    pc,         \* where each scheduler is
    now,        \* the instant its cycle works with
    batch,      \* snapshots it still has to publish, the first one in progress
    full,       \* len(events) == BatchSize
    stale,      \* staleSnapshot
    cancelled,  \* its context is done
    writes,     \* successful CreateEvent and UpdateEvent calls so far
    faults      \* failures, signals and crashes so far

cycleVars == <<now, batch, full, stale>>
schedulerVars == <<pc, now, batch, full, stale, cancelled>>
vars == <<events, topic, late, clock, pc, now, batch, full, stale, cancelled,
          writes, faults>>

\* down: not running; wait: the select of Run; the others: inside RunOnce.
InCycle == {"cleanup", "list", "publish", "mark"}
Locations == {"down", "wait"} \cup InCycle

\* The message publish builds from a snapshot.
NotificationOf(e) ==
    [eventID |-> e.id, title |-> e.title, eventAt |-> e.startAt, userID |-> e.userID]

\* The element of the batch the range loop is at.
Current(s) == CHOOSE e \in batch[s] : \A q \in batch[s] : ~Before(q, e)

Init ==
    /\ StorageInit
    /\ TopicInit
    /\ clock = 0
    /\ pc = [s \in Schedulers |-> "down"]
    /\ now = [s \in Schedulers |-> 0]
    /\ batch = [s \in Schedulers |-> {}]
    /\ full = [s \in Schedulers |-> FALSE]
    /\ stale = [s \in Schedulers |-> FALSE]
    /\ cancelled = [s \in Schedulers |-> FALSE]
    /\ writes = 0
    /\ faults = 0

Goto(s, to) == pc' = [pc EXCEPT ![s] = to]

\* Leaving RunOnce, its locals die.
Return(s, to) ==
    /\ Goto(s, to)
    /\ now' = [now EXCEPT ![s] = 0]
    /\ batch' = [batch EXCEPT ![s] = {}]
    /\ full' = [full EXCEPT ![s] = FALSE]
    /\ stale' = [stale EXCEPT ![s] = FALSE]

Fault == faults < MaxFaults /\ faults' = faults + 1

-----------------------------------------------------------------------------
(* The process: main starts it, Run makes a first cycle at once.            *)

\* Mutant: the cycle is given the retention cutoff instead of the time.
BeginCycleAtCutoff(s) ==
    /\ Goto(s, "cleanup")
    /\ now' = [now EXCEPT ![s] = clock - Retention]
    /\ UNCHANGED <<batch, full, stale>>

\* RunOnce begins: it keeps the instant it was given for the whole cycle.
BeginCycle(s) ==
    /\ Goto(s, "cleanup")
    /\ now' = [now EXCEPT ![s] = clock]
    /\ UNCHANGED <<batch, full, stale>>

Start(s) ==
    /\ pc[s] = "down"
    /\ BeginCycle(s)
    /\ cancelled' = [cancelled EXCEPT ![s] = FALSE]
    /\ UNCHANGED <<events, topicVars, clock, writes, faults>>

\* case <-ticks.  With a done context RunOnce returns before its first call.
Tick(s) ==
    /\ pc[s] = "wait"
    /\ ~cancelled[s]
    /\ BeginCycle(s)
    /\ UNCHANGED <<events, topicVars, clock, cancelled, writes, faults>>

\* SIGINT, SIGTERM or SIGHUP ends the context.
Cancel(s) ==
    /\ pc[s] # "down"
    /\ ~cancelled[s]
    /\ Fault
    /\ cancelled' = [cancelled EXCEPT ![s] = TRUE]
    /\ UNCHANGED <<events, topicVars, clock, pc, cycleVars, writes>>

\* case <-ctx.Done(): Run returns and the process exits.
Stop(s) ==
    /\ pc[s] = "wait"
    /\ cancelled[s]
    /\ Goto(s, "down")
    /\ UNCHANGED <<events, topicVars, clock, cycleVars, cancelled, writes, faults>>

\* The next call or loop test sees the done context and RunOnce returns.
Abort(s) ==
    /\ pc[s] \in InCycle
    /\ cancelled[s]
    /\ Return(s, "wait")
    /\ UNCHANGED <<events, topicVars, clock, cancelled, writes, faults>>

\* The message being sent stays on its way to the broker.
BecomesLate(s) ==
    /\ pc[s] = "publish"
    /\ Cardinality(late) < MaxLate
    /\ late' = late \cup {NotificationOf(Current(s))}

\* The process dies.
Crash(s) ==
    /\ pc[s] # "down"
    /\ Fault
    /\ Return(s, "down")
    /\ UNCHANGED late \/ BecomesLate(s)
    /\ UNCHANGED <<events, topic, clock, cancelled, writes>>

-----------------------------------------------------------------------------
(* RunOnce.                                                                 *)

\* Mutant: one unit too much is kept.
ExpiredLate(s) == now[s] - Retention - 1

\* The cutoff: now.AddDate(-RetentionYears, 0, 0).
Expired(s) == now[s] - Retention

\* DeleteEventsBefore(now - RetentionYears)
Cleanup(s) ==
    /\ pc[s] = "cleanup"
    /\ ~cancelled[s]
    /\ DeleteEventsBefore(Expired(s))
    /\ Goto(s, "list")
    /\ UNCHANGED <<topicVars, clock, cycleVars, cancelled, writes, faults>>

\* Mutant: an empty list does not end the loop.
ListForever(s) ==
    LET due == ListEventsForNotification(now[s], BatchSize)
    IN  /\ pc[s] = "list"
        /\ ~cancelled[s]
        /\ \/ due = {} /\ UNCHANGED <<pc, cycleVars>>
           \/ /\ due # {}
              /\ Goto(s, "publish")
              /\ batch' = [batch EXCEPT ![s] = due]
              /\ full' = [full EXCEPT ![s] = Cardinality(due) = BatchSize]
              /\ stale' = [stale EXCEPT ![s] = FALSE]
              /\ UNCHANGED now
        /\ UNCHANGED <<events, topicVars, clock, cancelled, writes, faults>>

\* ListEventsForNotification: nothing is due, or a fresh batch to publish.
List(s) ==
    LET due == ListEventsForNotification(now[s], BatchSize)
    IN  /\ pc[s] = "list"
        /\ ~cancelled[s]
        /\ \/ due = {} /\ Return(s, "wait")
           \/ /\ due # {}
              /\ Goto(s, "publish")
              /\ batch' = [batch EXCEPT ![s] = due]
              /\ full' = [full EXCEPT ![s] = Cardinality(due) = BatchSize]
              /\ stale' = [stale EXCEPT ![s] = FALSE]
              /\ UNCHANGED now
        /\ UNCHANGED <<events, topicVars, clock, cancelled, writes, faults>>

\* producer.Send is acknowledged.
Publish(s) ==
    /\ pc[s] = "publish"
    /\ ~cancelled[s]
    /\ AppendToTopic(NotificationOf(Current(s)))
    /\ Goto(s, "mark")
    /\ UNCHANGED <<events, late, clock, cycleVars, cancelled, writes, faults>>

\* Send is acknowledged after the library retried a write that timed out.
PublishRetried(s) ==
    /\ ~cancelled[s]
    /\ Fault
    /\ BecomesLate(s)
    /\ AppendToTopic(NotificationOf(Current(s)))
    /\ Goto(s, "mark")
    /\ UNCHANGED <<events, clock, cycleVars, cancelled, writes>>

\* The rest of the loop body: the next event, the next batch, or the end.
AfterMark(s, marked) ==
    LET rest == batch[s] \ {Current(s)}
        isStale == stale[s] \/ ~marked
    IN  \/ /\ rest # {}
           /\ Goto(s, "publish")
           /\ batch' = [batch EXCEPT ![s] = rest]
           /\ stale' = [stale EXCEPT ![s] = isStale]
           /\ UNCHANGED <<now, full>>
        \/ /\ rest = {}
           /\ full[s] \/ isStale
           /\ Goto(s, "list")
           /\ batch' = [batch EXCEPT ![s] = {}]
           /\ full' = [full EXCEPT ![s] = FALSE]
           /\ stale' = [stale EXCEPT ![s] = FALSE]
           /\ UNCHANGED now
        \/ /\ rest = {}
           /\ ~full[s] /\ ~isStale
           /\ Return(s, "wait")

Mark(s) ==
    /\ pc[s] = "mark"
    /\ ~cancelled[s]
    /\ MarkNotificationSent(Current(s))
    /\ AfterMark(s, WillMark(Current(s)))
    /\ UNCHANGED <<topicVars, clock, cancelled, writes, faults>>

\* A call of RunOnce reports an error and the cycle ends; the next tick tries
\* again.  The statement or the write may have been carried out all the same.
CallFails(s) ==
    /\ pc[s] \in InCycle
    /\ Fault
    /\ Return(s, "wait")
    /\ \/ UNCHANGED <<events, topicVars>>
       \/ pc[s] = "cleanup" /\ DeleteEventsBefore(Expired(s)) /\ UNCHANGED topicVars
       \/ pc[s] = "mark" /\ MarkNotificationSent(Current(s)) /\ UNCHANGED topicVars
       \/ /\ pc[s] = "publish"
          /\ AppendToTopic(NotificationOf(Current(s)))
          /\ UNCHANGED <<events, late>>
       \/ BecomesLate(s) /\ UNCHANGED <<events, topic>>
    /\ UNCHANGED <<clock, cancelled, writes>>

-----------------------------------------------------------------------------
(* The environment.                                                         *)

ClientWrites ==
    /\ writes < MaxWrites
    /\ writes' = writes + 1
    /\ \E e \in Requests : CreateEvent(e) \/ UpdateEvent(e)
    /\ UNCHANGED <<topicVars, clock, schedulerVars, faults>>

ClientDeletes ==
    /\ \E r \in events : DeleteEvent(r.id)
    /\ UNCHANGED <<topicVars, clock, schedulerVars, writes, faults>>

\* Only the second and further copies of a late write count as new faults.
LateWriteLands ==
    /\ \E p \in late :
          \/ LateAppend(p, FALSE) /\ UNCHANGED faults
          \/ LateAppend(p, TRUE) /\ Fault
    /\ UNCHANGED <<events, clock, schedulerVars, writes>>

TimePasses ==
    /\ clock < MaxTime
    /\ clock' = clock + 1
    /\ UNCHANGED <<events, topicVars, schedulerVars, writes, faults>>

RunOnce(s) == Cleanup(s) \/ List(s) \/ Publish(s) \/ Mark(s) \/ Abort(s)

SchedulerStep(s) ==
    \/ RunOnce(s) \/ Start(s) \/ Tick(s) \/ Stop(s)
    \/ Cancel(s) \/ Crash(s) \/ PublishRetried(s) \/ CallFails(s)

Next ==
    \/ \E s \in Schedulers : SchedulerStep(s)
    \/ ClientWrites \/ ClientDeletes \/ LateWriteLands \/ TimePasses

Spec == Init /\ [][Next]_vars

\* Calls return, the ticker ticks, and an operator starts a process again.
Fairness ==
    \A s \in Schedulers :
        WF_vars(RunOnce(s)) /\ WF_vars(Tick(s)) /\ WF_vars(Stop(s)) /\ WF_vars(Start(s))

FairSpec == Spec /\ Fairness

-----------------------------------------------------------------------------
TypeOK ==
    /\ StorageTypeOK
    /\ TopicTypeOK
    /\ clock \in Nat
    /\ pc \in [Schedulers -> Locations]
    /\ now \in [Schedulers -> Nat]
    /\ batch \in [Schedulers -> SUBSET Row]
    /\ full \in [Schedulers -> BOOLEAN]
    /\ stale \in [Schedulers -> BOOLEAN]
    /\ cancelled \in [Schedulers -> BOOLEAN]
    /\ writes \in Nat
    /\ faults \in Nat

\* A reminder is never lost behind its mark: if a row is marked as sent, the
\* notification of the row as it is now has been appended to the topic, however
\* clients, schedulers and failures interleaved (MarkNotificationSent compares
\* the snapshot, UpdateEvent resets the mark, publish marks after Send).
MarkedIsPublished == \A r \in events : r.sent => NotificationOf(r) \in Published

\* The inductive invariant behind it: inside the loop there is an event in
\* progress, and once the loop is at its mark it has been published.
LoopHasEvent == \A s \in Schedulers : pc[s] \in {"publish", "mark"} => batch[s] # {}
PublishedBeforeMark ==
    \A s \in Schedulers : pc[s] = "mark" => NotificationOf(Current(s)) \in Published
IInv == TypeOK /\ LoopHasEvent /\ MarkedIsPublished /\ PublishedBeforeMark

\* Every event in the table or in hand is valid, so the Validate call of publish
\* cannot fail and a stored row cannot block the cycles.
OnlyValidEvents ==
    /\ \A r \in events : ValidateEvent(r)
    /\ \A s \in Schedulers : \A e \in batch[s] : ValidateEvent(e)

\* A reminder is published again only because of a new write, a competing
\* scheduler or a failure: without faults a scheduler publishes every written
\* version of an event at most once, and every fault costs one copy at most.
NoSpuriousPublish == Len(topic) <= Cardinality(Schedulers) * writes + faults

LastWordOn(id, m) ==
    \E i \in 1..Len(topic) :
        /\ topic[i] = m
        /\ \A j \in (i + 1)..Len(topic) : topic[j] # Malformed => topic[j].eventID # id

\* With one scheduler and no late write, the newest notification of a marked
\* event is the one of its current content, so a storer that has read the whole
\* topic ends with it: RunOnce never publishes an outdated snapshot after the
\* mark of a newer one.
MarkIsLastWord == \A r \in events : r.sent => LastWordOn(r.id, NotificationOf(r))

\* A cycle ends: the loop of RunOnce that lists again after a full batch or a
\* stale snapshot does not spin forever.
CycleEnds ==
    \A s \in Schedulers : pc[s] \in InCycle ~> pc[s] \notin InCycle

\* README, part 14: the reminder is on, its time has come, the event has not begun.
DueAt(e, t) == e.notifyBefore > 0 /\ e.startAt - e.notifyBefore <= t /\ t < e.startAt

\* An event that started before the retention period is removed.
ExpiredGoesAway ==
    \A e \in Requests :
        (\E r \in events : r.id = e.id /\ r.startAt < clock - Retention)
            ~> ~(\E r \in events : r.id = e.id /\ r.startAt < clock - Retention)
=============================================================================
