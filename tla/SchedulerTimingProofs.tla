------------------------ MODULE SchedulerTimingProofs ------------------------
(***************************************************************************)
(* Theorems about the clock of Scheduler.Run, for any table, interval,     *)
(* length of a cycle and number of failures.                               *)
(***************************************************************************)
EXTENDS SchedulerTiming, WellFoundedInduction, TLAPS

Opens(e) == Events[e].start - Events[e].notify

LEMMA EventTypes ==
    /\ DOMAIN Events \subseteq Nat
    /\ \A e \in DOMAIN Events : Events[e].start \in Int /\ Events[e].notify \in Nat /\ Opens(e) \in Int
<1> DEFINE R == [start : Int, notify : Nat]
<1>1. Events \in Seq(R)
    BY TimingAssumption
<1>2. DOMAIN Events = 1..Len(Events) /\ Len(Events) \in Nat
    BY <1>1
<1>3. \A e \in DOMAIN Events : Events[e] \in R
    <2> HIDE DEF R
    <2> QED
        BY <1>1, <1>2
<1> QED
    BY <1>2, <1>3 DEF Opens

\* The listing has a first event.
LEMMA FirstIsFirst ==
    ASSUME NEW S, S \subseteq DOMAIN Events, S # {}
    PROVE  First(S) \in S /\ \A f \in S : First(S) <= f
<1>1. S \subseteq Nat
    BY EventTypes
<1>2. PICK m \in S : \A n \in S : ~(<<n, m>> \in OpToRel(<, Nat))
    BY <1>1, NatLessThanWellFounded, WFMin
<1>3. \A n \in S : <<n, m>> \in Nat \X Nat
    BY <1>1
<1>4. \A n \in S : ~(n < m)
    BY <1>2, <1>3 DEF OpToRel
<1>5. \A n \in S : m <= n
    BY <1>1, <1>4
<1> QED
    BY <1>5 DEF First

-----------------------------------------------------------------------------
(* The clock.                                                               *)

TimingTypes ==
    /\ now \in Nat /\ startedAt \in Nat /\ failures \in Nat /\ lastSuccess \in Int
    /\ tick \in BOOLEAN /\ running \in BOOLEAN
    /\ untilTick \in 0..Interval /\ sent \subseteq DOMAIN Events
    /\ startedAt <= now /\ failures <= MaxFailures

\* A cycle is as old as it may get.  Only the first runs without a ticker, and it
\* begins in the first interval; a later one finds the next tick an interval
\* after its start at the latest.
CycleClock ==
    /\ running => now <= startedAt + MaxCycle
    /\ untilTick = 0 => running /\ ~tick /\ startedAt <= Interval
    /\ running /\ untilTick # 0 => tick \/ now + untilTick <= startedAt + Interval

\* When the next cycle begins, while none is running.
NextStart == IF tick THEN now ELSE now + untilTick

\* The cycle that may find e in its window begins before this.
Longest == LargestOf(Interval, MaxCycle)
Deadline(e) == Opens(e) + Gap + failures * Longest

Covered(e) ==
    /\ Events[e].notify >= Enough
    /\ Opens(e) >= Interval
    /\ \A f \in Rejected : e < f

\* A covered reminder that is not sent meets a cycle before its deadline.
InTime ==
    \A e \in DOMAIN Events :
        Covered(e) /\ e \notin sent =>
            /\ running => startedAt < Deadline(e)
            /\ ~running => NextStart < Deadline(e)

TimingInv == TimingTypes /\ CycleClock /\ InTime /\ HealthyMeansSent

LEMMA Numbers ==
    /\ Interval \in Nat /\ Interval >= 1 /\ MaxCycle \in Nat /\ MaxFailures \in Nat
    /\ Longest \in Nat /\ Longest >= 1 /\ Longest >= Interval /\ Longest >= MaxCycle
    /\ Gap \in Nat /\ Gap = Interval + MaxCycle
BY TimingAssumption DEF Longest, LargestOf, Gap

LEMMA DeadlineGrows ==
    ASSUME NEW k \in Nat, NEW m \in Nat, k <= m
    PROVE  /\ k * Longest \in Nat /\ (k + 1) * Longest = k * Longest + Longest
           /\ k * Longest <= m * Longest
BY Numbers

\* The deadline is within the window, whatever failed so far.
LEMMA DeadlineBeforeStart ==
    ASSUME failures \in Nat, failures <= MaxFailures, NEW e \in DOMAIN Events, Covered(e)
    PROVE  Deadline(e) \in Int /\ Deadline(e) <= Events[e].start /\ Deadline(e) >= Opens(e) + Gap
<1>1. failures * Longest <= MaxFailures * Longest /\ failures * Longest \in Nat
    BY Numbers, DeadlineGrows
<1>2. MaxFailures * Longest \in Nat
    BY Numbers
<1> DEFINE a == failures * Longest  b == MaxFailures * Longest
<1>3. Enough = Gap + b
    BY DEF Enough, Longest
<1>4. Deadline(e) = Opens(e) + Gap + a
    BY DEF Deadline
<1>5. a <= b /\ a \in Nat /\ b \in Nat
    BY <1>1, <1>2
<1> HIDE DEF a, b
<1>6. Events[e].start \in Int /\ Events[e].notify \in Nat /\ Opens(e) = Events[e].start - Events[e].notify
    BY EventTypes DEF Opens
<1>7. Events[e].notify >= Enough
    BY DEF Covered
<1> QED
    BY <1>3, <1>4, <1>5, <1>6, <1>7, Numbers

-----------------------------------------------------------------------------
(* The steps.                                                               *)

LEMMA ElapseKeeps ==
    ASSUME TimingInv, Elapse
    PROVE  TimingInv'
<1> USE Numbers
<1>t. /\ now \in Nat /\ startedAt \in Nat /\ tick \in BOOLEAN /\ running \in BOOLEAN
      /\ untilTick \in 0..Interval /\ startedAt <= now /\ failures \in Nat /\ failures <= MaxFailures
    BY DEF TimingInv, TimingTypes
<1>1. /\ running => now - startedAt < MaxCycle
      /\ ~running => ~tick
      /\ now' = now + 1
      /\ untilTick' = IF untilTick = 0 THEN 0 ELSE IF untilTick = 1 THEN Interval ELSE untilTick - 1
      /\ UNCHANGED <<running, startedAt, sent, failures, lastSuccess>>
    BY DEF Elapse
<1>2. (tick' <=> tick \/ untilTick = 1) /\ tick' \in BOOLEAN
    <2>1. tick' = (tick \/ untilTick = 1)
        BY DEF Elapse
    <2> QED
        BY <1>t, <2>1
<1>3. TimingTypes'
    BY <1>t, <1>1, <1>2 DEF TimingInv, TimingTypes
<1>4. CycleClock'
    BY <1>t, <1>1, <1>2 DEF TimingInv, CycleClock
<1>5. ~running => NextStart' = NextStart
    BY <1>t, <1>1, <1>2 DEF TimingInv, CycleClock, NextStart
<1>6. InTime'
    <2> SUFFICES ASSUME NEW e \in DOMAIN Events, Covered(e), e \notin sent
                 PROVE  /\ running => startedAt < Deadline(e)
                        /\ ~running => NextStart' < Deadline(e)
        BY <1>1 DEF InTime, Covered, Deadline, Opens
    <2> QED
        BY <1>5 DEF TimingInv, InTime
<1>7. HealthyMeansSent'
    BY <1>1 DEF TimingInv, HealthyMeansSent
<1> QED
    BY <1>3, <1>4, <1>6, <1>7 DEF TimingInv

LEMMA BeginKeeps ==
    ASSUME TimingInv, Begin
    PROVE  TimingInv'
<1> USE Numbers
<1>t. /\ now \in Nat /\ untilTick \in 0..Interval
    BY DEF TimingInv, TimingTypes
<1>1. /\ ~running /\ tick /\ tick' = FALSE /\ running' = TRUE /\ startedAt' = now
      /\ UNCHANGED <<now, untilTick, sent, failures, lastSuccess>>
    BY DEF Begin
<1>2. tick' \in BOOLEAN /\ running' \in BOOLEAN /\ running' /\ ~tick'
    BY <1>1
<1>3. TimingTypes'
    BY <1>t, <1>1, <1>2 DEF TimingInv, TimingTypes
<1>4. CycleClock'
    BY <1>t, <1>1, <1>2 DEF TimingInv, CycleClock
<1>5. InTime'
    <2> SUFFICES ASSUME NEW e \in DOMAIN Events, Covered(e), e \notin sent
                 PROVE  startedAt' < Deadline(e)
        BY <1>1, <1>2 DEF InTime, Covered, Deadline, Opens
    <2> QED
        BY <1>1 DEF TimingInv, InTime, NextStart
<1>6. HealthyMeansSent'
    BY <1>1 DEF TimingInv, HealthyMeansSent
<1> QED
    BY <1>3, <1>4, <1>5, <1>6 DEF TimingInv

\* The event that is published is one of the pending ones.
LEMMA PublishKeeps ==
    ASSUME TimingInv, Publish
    PROVE  /\ TimingInv'
           /\ \A e \in sent' \ sent : e \in Pending(startedAt)
<1>1. /\ sent' = sent \cup {First(Pending(startedAt))} /\ Pending(startedAt) # {}
      /\ UNCHANGED <<now, tick, untilTick, running, startedAt, failures, lastSuccess>>
    BY DEF Publish
<1>2. Pending(startedAt) \subseteq DOMAIN Events
    BY DEF Pending
<1>3. First(Pending(startedAt)) \in Pending(startedAt)
    BY <1>1, <1>2, FirstIsFirst
<1>4. TimingTypes'
    BY <1>1, <1>2, <1>3 DEF TimingInv, TimingTypes
<1>5. CycleClock' /\ HealthyMeansSent'
    BY <1>1 DEF TimingInv, CycleClock, HealthyMeansSent
<1>6. InTime'
    <2> SUFFICES ASSUME NEW e \in DOMAIN Events, Covered(e), e \notin sent'
                 PROVE  /\ running => startedAt < Deadline(e)
                        /\ ~running => NextStart < Deadline(e)
        BY <1>1 DEF InTime, Covered, Deadline, Opens, NextStart
    <2> QED
        BY <1>1 DEF TimingInv, InTime
<1> QED
    BY <1>1, <1>3, <1>4, <1>5, <1>6 DEF TimingInv

\* What is still to be sent of an event when its cycle ends without a failure:
\* nothing, if the cycle began in the window.
LEMMA CycleSends ==
    ASSUME TimingInv, Succeed \/ RejectEvent,
           NEW e \in DOMAIN Events, Covered(e), Due(e, startedAt)
    PROVE  e \in sent
<1> SUFFICES ASSUME e \notin sent
             PROVE  FALSE
    OBVIOUS
<1>1. e \in Pending(startedAt)
    BY DEF Pending
<1>2. RejectEvent /\ First(Pending(startedAt)) \in Rejected
    BY <1>1 DEF Succeed, RejectEvent
<1>3. Pending(startedAt) \subseteq DOMAIN Events
    BY DEF Pending
<1>4. First(Pending(startedAt)) <= e /\ First(Pending(startedAt)) \in DOMAIN Events
    BY <1>1, <1>3, FirstIsFirst
<1>5. e < First(Pending(startedAt))
    BY <1>2 DEF Covered
<1>6. e \in Nat /\ First(Pending(startedAt)) \in Nat
    BY <1>4, EventTypes
<1> QED
    BY <1>4, <1>5, <1>6

LEMMA EndKeeps ==
    ASSUME TimingInv, Succeed \/ RejectEvent \/ Fail
    PROVE  TimingInv'
<1> USE Numbers
<1>t. /\ now \in Nat /\ startedAt \in Nat /\ untilTick \in 0..Interval /\ startedAt <= now
      /\ failures \in Nat /\ failures <= MaxFailures /\ tick \in BOOLEAN /\ lastSuccess \in Int
    BY DEF TimingInv, TimingTypes
<1>1. /\ running /\ running' = FALSE
      /\ untilTick' = IF untilTick = 0 THEN Interval ELSE untilTick
      /\ UNCHANGED <<now, tick, startedAt, sent>>
    BY DEF Succeed, RejectEvent, Fail, End
<1>2. \/ Succeed /\ lastSuccess' = now /\ failures' = failures
      \/ RejectEvent /\ lastSuccess' = lastSuccess /\ failures' = failures
      \/ Fail /\ lastSuccess' = lastSuccess /\ failures' = failures + 1 /\ failures < MaxFailures
    BY DEF Succeed, RejectEvent, Fail, End, ObserveSchedulerCycle
<1>3. running' \in BOOLEAN /\ ~running'
    BY <1>1
<1>4. TimingTypes'
    <2>1. failures' \in Nat /\ failures' <= MaxFailures /\ lastSuccess' \in Int
        BY <1>t, <1>2
    <2>2. untilTick' \in 0..Interval
        BY <1>t, <1>1
    <2> QED
        BY <1>1, <1>3, <2>1, <2>2 DEF TimingInv, TimingTypes
<1>5. untilTick' # 0
    BY <1>t, <1>1
<1>6. CycleClock'
    BY <1>3, <1>5 DEF CycleClock
<1>7. /\ NextStart' <= startedAt + Gap
      /\ startedAt > Interval => NextStart' <= startedAt + Longest
      /\ untilTick # 0 => NextStart' <= startedAt + Longest
      /\ NextStart' \in Nat
    BY <1>t, <1>1 DEF TimingInv, CycleClock, NextStart
<1>8. InTime'
    <2> SUFFICES ASSUME NEW e \in DOMAIN Events, Covered(e), e \notin sent
                 PROVE  NextStart' < Deadline(e)'
        BY <1>1, <1>3 DEF InTime, Covered, Opens
    <2>1. startedAt < Deadline(e)
        BY <1>1 DEF TimingInv, InTime
    <2>2. Deadline(e) \in Int /\ Deadline(e) <= Events[e].start /\ Deadline(e) >= Opens(e) + Gap
        BY <1>t, DeadlineBeforeStart
    <2>3. Opens(e) \in Int /\ Opens(e) >= Interval /\ Events[e].start \in Int
        BY EventTypes DEF Covered
    <2>4. CASE startedAt < Opens(e)
        <3>1. NextStart' < Opens(e) + Gap
            BY <1>t, <1>7, <2>3, <2>4
        <3>2. Deadline(e)' \in Int /\ Deadline(e)' >= Opens(e) + Gap
            <4>1. failures' \in Nat /\ failures' * Longest \in Nat
                BY <1>4, DeadlineGrows DEF TimingTypes
            <4>2. Deadline(e)' = Opens(e) + Gap + failures' * Longest
                BY DEF Deadline, Opens
            <4> QED
                BY <2>3, <4>1, <4>2
        <3> QED
            BY <1>7, <2>3, <3>1, <3>2
    <2>5. CASE startedAt >= Opens(e)
        <3>1. Due(e, startedAt)
            BY <1>t, <2>1, <2>2, <2>3, <2>5 DEF Due, Opens
        <3>2. failures' = failures + 1
            BY <1>2, <3>1, CycleSends
        <3>3. Deadline(e)' = Deadline(e) + Longest
            <4>1. failures' * Longest = failures * Longest + Longest /\ failures * Longest \in Nat
                BY <1>t, <3>2, DeadlineGrows
            <4>2. Deadline(e)' = Opens(e) + Gap + failures' * Longest
                BY DEF Deadline, Opens
            <4>3. Deadline(e) = Opens(e) + Gap + failures * Longest
                BY DEF Deadline
            <4> QED
                BY <2>3, <4>1, <4>2, <4>3
        <3>4. CASE untilTick # 0
            BY <1>t, <1>7, <2>1, <2>2, <3>3, <3>4
        <3>5. CASE untilTick = 0
            <4>1. startedAt = Opens(e)
                BY <1>t, <2>3, <2>5, <3>5 DEF TimingInv, CycleClock
            <4> QED
                BY <1>t, <1>7, <2>2, <2>3, <3>3, <4>1
        <3> QED
            BY <3>4, <3>5
    <2> QED
        BY <1>t, <2>3, <2>4, <2>5
<1>9. HealthyMeansSent'
    <2>1. CASE lastSuccess' = lastSuccess
        BY <1>1, <2>1 DEF TimingInv, HealthyMeansSent
    <2>2. CASE Succeed /\ lastSuccess' = now
        <3> SUFFICES ASSUME NEW e \in DOMAIN Events,
                            Events[e].start - Events[e].notify <= now - MaxCycle,
                            Events[e].start > now
                     PROVE  e \in sent
            BY <1>1, <2>2 DEF HealthyMeansSent
        <3>1. now <= startedAt + MaxCycle
            BY <1>1 DEF TimingInv, CycleClock
        <3>2. Due(e, startedAt)
            BY <1>t, <3>1, EventTypes DEF Due
        <3> QED
            BY <2>2, <3>2 DEF Succeed, Pending
    <2> QED
        BY <1>2, <2>1, <2>2
<1> QED
    BY <1>4, <1>6, <1>8, <1>9 DEF TimingInv

LEMMA TimingInvInit == TimingInit => TimingInv
<1> USE Numbers
<1> SUFFICES ASSUME TimingInit
             PROVE  TimingInv
    OBVIOUS
<1>1. /\ now \in 0..Interval /\ untilTick = 0 /\ startedAt = now /\ sent = {} /\ failures = 0
      /\ lastSuccess = -1 /\ running /\ ~tick
    BY DEF TimingInit
<1>2. running \in BOOLEAN /\ tick \in BOOLEAN
    BY DEF TimingInit
<1>3. TimingTypes
    BY <1>1, <1>2 DEF TimingTypes
<1>4. CycleClock
    BY <1>1 DEF CycleClock
<1>5. InTime
    <2> SUFFICES ASSUME NEW e \in DOMAIN Events, Covered(e)
                 PROVE  startedAt < Deadline(e)
        BY <1>1 DEF InTime
    <2>1. Deadline(e) \in Int /\ Deadline(e) >= Opens(e) + Gap
        BY <1>1, DeadlineBeforeStart
    <2>2. Opens(e) \in Int /\ Opens(e) >= Interval
        BY EventTypes DEF Covered
    <2> QED
        BY <1>1, <2>1, <2>2
<1>6. HealthyMeansSent
    BY <1>1 DEF HealthyMeansSent
<1> QED
    BY <1>3, <1>4, <1>5, <1>6 DEF TimingInv

LEMMA TimingInvNext == TimingInv /\ [TimingNext]_timingVars => TimingInv'
<1> SUFFICES ASSUME TimingInv, [TimingNext]_timingVars
             PROVE  TimingInv'
    OBVIOUS
<1>1. CASE UNCHANGED timingVars
    BY <1>1 DEF timingVars, TimingInv, TimingTypes, CycleClock, InTime, HealthyMeansSent, Covered,
        Deadline, Opens, NextStart
<1> QED
    BY <1>1, ElapseKeeps, BeginKeeps, PublishKeeps, EndKeeps DEF TimingNext, Over

-----------------------------------------------------------------------------
\* A fresh last_success_timestamp_seconds is the truth, for any table, interval
\* and length of a cycle: every reminder that became due a cycle's length before
\* it, of an event that has not begun, is sent.
THEOREM HealthyAlwaysMeansSent == TimingSpec => []HealthyMeansSent
<1>1. TimingInv => HealthyMeansSent
    BY DEF TimingInv
<1> QED
    BY <1>1, TimingInvInit, TimingInvNext, PTL DEF TimingSpec

\* Reminders are sent in time, for any table, interval, length of a cycle and
\* number of failed cycles: one whose notify_before covers the longest gap between
\* two cycles and the failures is never missed, and none is sent before its window
\* or later than a cycle's length after it.
THEOREM AlwaysSentInTime == TimingSpec => SentInTime
<1>1. TimingInv => NeverMissed
    <2> SUFFICES ASSUME TimingInv, NEW e \in DOMAIN Events,
                        Covered(e), Events[e].start <= now, ~running, e \notin sent
                 PROVE  FALSE
        BY DEF NeverMissed, Covered, Opens
    <2>1. NextStart < Deadline(e)
        BY DEF TimingInv, InTime
    <2>2. /\ now \in Nat /\ untilTick \in 0..Interval /\ Interval \in Nat
          /\ failures \in Nat /\ failures <= MaxFailures
        BY Numbers DEF TimingInv, TimingTypes
    <2>3. Deadline(e) \in Int /\ Deadline(e) <= Events[e].start /\ Events[e].start \in Int
        BY <2>2, DeadlineBeforeStart, EventTypes
    <2>4. NextStart \in Int /\ now <= NextStart
        BY <2>2 DEF NextStart
    <2> QED
        BY <2>1, <2>2, <2>3, <2>4
<1> DEFINE Near == \A e \in sent' \ sent : /\ now >= Events[e].start - Events[e].notify
                                           /\ now < Events[e].start + MaxCycle
<1>2. TimingInv /\ [TimingNext]_timingVars => [Near]_timingVars
    <2> SUFFICES ASSUME TimingInv, TimingNext
                 PROVE  Near
        OBVIOUS
    <2>1. CASE sent' = sent
        BY <2>1
    <2>2. CASE Publish
        <3> SUFFICES ASSUME NEW e \in sent' \ sent
                     PROVE  now >= Events[e].start - Events[e].notify /\ now < Events[e].start + MaxCycle
            OBVIOUS
        <3>1. e \in DOMAIN Events /\ Due(e, startedAt)
            BY <2>2, PublishKeeps DEF Pending
        <3>2. /\ running /\ now \in Nat /\ startedAt \in Nat /\ startedAt <= now
              /\ now <= startedAt + MaxCycle
            BY <2>2 DEF Publish, TimingInv, TimingTypes, CycleClock
        <3> QED
            BY <3>1, <3>2, EventTypes, Numbers DEF Due
    <2> QED
        BY <2>1, <2>2 DEF TimingNext, Elapse, Begin, Succeed, RejectEvent, Fail, End, Over, timingVars
<1> QED
    BY <1>1, <1>2, TimingInvInit, TimingInvNext, PTL DEF TimingSpec, SentInTime, SentNearWindow
=============================================================================
