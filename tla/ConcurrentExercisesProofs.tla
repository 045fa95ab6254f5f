---------------------- MODULE ConcurrentExercisesProofs ----------------------
(***************************************************************************)
(* Proofs about the three concurrent programs of the course, for any       *)
(* number of tasks, workers, stages, values and chunks.                    *)
(***************************************************************************)
EXTENDS ConcurrentExercises, FiniteSetTheorems, TLAPS

-----------------------------------------------------------------------------
(* hw05: the inductive invariant of Run.                                    *)

Busy == {w \in Workers : worker[w] = "run"}
InHand == {w \in Workers : worker[w] \in {"run", "send"}}

\* The failures that the coordinator has not received yet.
Unreported == {w \in Workers : worker[w] = "send" /\ outcome[w] = "error"}

\* Every task that was handed out has succeeded, has failed or runs, once.
TasksAccounted ==
    /\ IsFiniteSet(okTasks) /\ IsFiniteSet(badTasks)
    /\ okTasks \cup badTasks \cup {task[w] : w \in Busy} = 0..(nextTaskIndex - 1)
    /\ \A w \in Busy : task[w] \notin okTasks \cup badTasks
    /\ \A v, w \in Busy : task[v] = task[w] => v = w
    /\ nextTaskIndex = Cardinality(okTasks) + Cardinality(badTasks) + Cardinality(Busy)

\* The coordinator's counters, behind by the results that are still to be sent.
CountersRight ==
    /\ runningTasks = Cardinality(InHand)
    /\ m > 0 => /\ errorsCount + Cardinality(Unreported) = Cardinality(badTasks)
                /\ errorsLimitExceeded <=> errorsCount >= m
    /\ m <= 0 => ~errorsLimitExceeded

\* After the loop nothing runs and nothing more is to be handed out.
LoopOver ==
    /\ nextTaskIndex <= TaskCount
    /\ coordinator # "loop" =>
          runningTasks = 0 /\ (errorsLimitExceeded \/ nextTaskIndex = TaskCount)
    /\ coordinator = "returned" => \A w \in Workers : worker[w] = "done"

RunInv == TypeOK /\ TasksAccounted /\ CountersRight /\ LoopOver /\ BoundedWork

\* There are WorkerCount workers, and finitely many in any state.
LEMMA WorkersFinite ==
    /\ WorkerCount \in Nat /\ IsFiniteSet(Workers) /\ Cardinality(Workers) = WorkerCount
    /\ \A S : S \subseteq Workers => IsFiniteSet(S) /\ Cardinality(S) \in Nat
<1>1. WorkerCount \in Nat /\ WorkerCount >= 1
    BY RunAssumption DEF WorkerCount
<1>2. IsFiniteSet(Workers) /\ Cardinality(Workers) = WorkerCount
    BY <1>1, FS_Interval DEF Workers
<1> QED
    BY <1>1, <1>2, FS_Subset, FS_CardinalityType

\* A set that gains or loses an element changes its size by one.
LEMMA OneMore ==
    ASSUME NEW S, IsFiniteSet(S), NEW x, x \notin S
    PROVE  /\ IsFiniteSet(S \cup {x}) /\ Cardinality(S) \in Nat
           /\ Cardinality(S \cup {x}) = Cardinality(S) + 1
BY FS_AddElement, FS_CardinalityType

\* With a worker that waits for a task, at most WorkerCount - 1 run or report.
LEMMA RoomForOne ==
    ASSUME TypeOK, NEW w \in Workers, worker[w] = "receive"
    PROVE  Cardinality(Busy) + Cardinality(Unreported) + 1 <= WorkerCount
<1>1. /\ Busy \subseteq Workers /\ Unreported \subseteq Workers
      /\ Busy \cap Unreported = {} /\ w \notin Busy \cup Unreported
    BY DEF Busy, Unreported
<1>2. IsFiniteSet(Busy) /\ IsFiniteSet(Unreported)
      /\ Cardinality(Busy) \in Nat /\ Cardinality(Unreported) \in Nat
    BY <1>1, WorkersFinite
<1>3. /\ IsFiniteSet(Busy \cup Unreported)
      /\ Cardinality(Busy \cup Unreported) = Cardinality(Busy) + Cardinality(Unreported)
    <2>1. Cardinality(Busy \cap Unreported) = 0
        BY <1>1, FS_EmptySet
    <2> QED
        <3>1. /\ IsFiniteSet(Busy \cup Unreported)
              /\ Cardinality(Busy \cup Unreported) =
                    Cardinality(Busy) + Cardinality(Unreported) - Cardinality(Busy \cap Unreported)
            BY <1>2, FS_Union
        <3> QED
            BY <1>2, <2>1, <3>1
<1>4. Cardinality((Busy \cup Unreported) \cup {w}) = Cardinality(Busy) + Cardinality(Unreported) + 1
    BY <1>1, <1>3, OneMore
<1>5. Cardinality((Busy \cup Unreported) \cup {w}) <= WorkerCount
    BY <1>1, WorkersFinite, FS_Subset
<1> QED
    BY <1>4, <1>5

\* The coordinator hands a task to w.
LEMMA DispatchKeeps ==
    ASSUME RunInv, NEW w \in Workers, Dispatch(w)
    PROVE  RunInv'
<1>t. TypeOK
    BY DEF RunInv
<1>1. /\ worker[w] = "receive" /\ worker' = [worker EXCEPT ![w] = "run"]
      /\ task' = [task EXCEPT ![w] = nextTaskIndex]
      /\ nextTaskIndex' = nextTaskIndex + 1 /\ runningTasks' = runningTasks + 1
      /\ UNCHANGED <<m, coordinator, errorsCount, errorsLimitExceeded, taskChannelClosed,
                     outcome, okTasks, badTasks>>
      /\ ~errorsLimitExceeded /\ nextTaskIndex < TaskCount /\ coordinator = "loop"
    BY DEF Dispatch, HasTaskToDispatch
<1>2. /\ worker'[w] = "run" /\ \A v \in Workers \ {w} : worker'[v] = worker[v]
      /\ task'[w] = nextTaskIndex /\ \A v \in Workers \ {w} : task'[v] = task[v]
    BY <1>t, <1>1 DEF TypeOK
<1>3. /\ Busy' = Busy \cup {w} /\ w \notin Busy
      /\ InHand' = InHand \cup {w} /\ w \notin InHand
      /\ Unreported' = Unreported
    BY <1>1, <1>2 DEF Busy, InHand, Unreported
<1>4. /\ IsFiniteSet(Busy) /\ IsFiniteSet(InHand) /\ IsFiniteSet(Unreported)
      /\ Cardinality(Busy) \in Nat /\ Cardinality(InHand) \in Nat /\ Cardinality(Unreported) \in Nat
    <2>1. Busy \subseteq Workers /\ InHand \subseteq Workers /\ Unreported \subseteq Workers
        BY DEF Busy, InHand, Unreported
    <2> QED
        BY <2>1, WorkersFinite
<1>5. /\ Cardinality(Busy') = Cardinality(Busy) + 1
      /\ Cardinality(InHand') = Cardinality(InHand) + 1
    BY <1>3, <1>4, OneMore
<1>6. /\ Cardinality(okTasks) \in Nat /\ Cardinality(badTasks) \in Nat
      /\ nextTaskIndex \in Nat /\ errorsCount \in Nat /\ m \in Int /\ WorkerCount \in Nat
    BY <1>t, FS_CardinalityType, RunAssumption, WorkersFinite DEF RunInv, TasksAccounted, TypeOK
<1>7. TypeOK'
    BY <1>t, <1>1 DEF TypeOK
<1>8. TasksAccounted'
    <2>1. 0..(nextTaskIndex' - 1) = 0..(nextTaskIndex - 1) \cup {nextTaskIndex}
        BY <1>1, <1>6
    <2>2. {task'[v] : v \in Busy'} = {task[v] : v \in Busy} \cup {nextTaskIndex}
        BY <1>2, <1>3 DEF Busy
    <2>3. okTasks' \cup badTasks' \cup {task'[v] : v \in Busy'} = 0..(nextTaskIndex' - 1)
        BY <1>1, <2>1, <2>2 DEF RunInv, TasksAccounted
    <2>4. \A v \in Busy : task[v] \in 0..(nextTaskIndex - 1)
        BY DEF RunInv, TasksAccounted
    <2>5. \A x \in okTasks \cup badTasks : x \in 0..(nextTaskIndex - 1)
        BY DEF RunInv, TasksAccounted
    <2>6. nextTaskIndex \notin 0..(nextTaskIndex - 1)
        BY <1>6
    <2>7. \A v \in Busy' : task'[v] \notin okTasks' \cup badTasks'
        BY <1>1, <1>2, <1>3, <2>5, <2>6 DEF RunInv, TasksAccounted, Busy
    <2>8. \A u, v \in Busy' : task'[u] = task'[v] => u = v
        BY <1>2, <1>3, <2>4, <2>6 DEF RunInv, TasksAccounted, Busy
    <2>9. nextTaskIndex' = Cardinality(okTasks') + Cardinality(badTasks') + Cardinality(Busy')
        BY <1>1, <1>4, <1>5, <1>6 DEF RunInv, TasksAccounted
    <2> QED
        BY <1>1, <2>3, <2>7, <2>8, <2>9 DEF RunInv, TasksAccounted
<1>9. CountersRight'
    BY <1>1, <1>3, <1>4, <1>5 DEF RunInv, CountersRight
<1>10. LoopOver'
    BY <1>1, <1>6, RunAssumption DEF RunInv, LoopOver
<1>11. BoundedWork'
    <2> SUFFICES ASSUME m > 0
                 PROVE  nextTaskIndex + 1 <= Cardinality(okTasks) + WorkerCount + m - 1
        BY <1>1 DEF BoundedWork, WorkerCount
    <2>1. errorsCount < m /\ errorsCount + Cardinality(Unreported) = Cardinality(badTasks)
        BY <1>1, <1>6 DEF RunInv, CountersRight
    <2>2. Cardinality(Busy) + Cardinality(Unreported) + 1 <= WorkerCount
        BY <1>t, <1>1, RoomForOne
    <2>3. nextTaskIndex = Cardinality(okTasks) + Cardinality(badTasks) + Cardinality(Busy)
        BY DEF RunInv, TasksAccounted
    <2> QED
        BY <1>4, <1>6, <2>1, <2>2, <2>3
<1> QED
    BY <1>7, <1>8, <1>9, <1>10, <1>11 DEF RunInv

\* The coordinator receives the result of w.
LEMMA CollectKeeps ==
    ASSUME RunInv, NEW w \in Workers, Collect(w)
    PROVE  RunInv'
<1>t. TypeOK
    BY DEF RunInv
<1>1. /\ worker[w] = "send" /\ worker' = [worker EXCEPT ![w] = "receive"]
      /\ runningTasks' = runningTasks - 1 /\ CountResult(outcome[w])
      /\ UNCHANGED <<m, coordinator, nextTaskIndex, taskChannelClosed, task, outcome,
                     okTasks, badTasks>>
      /\ coordinator = "loop"
    BY DEF Collect
<1>2. worker'[w] = "receive" /\ \A v \in Workers \ {w} : worker'[v] = worker[v]
    BY <1>t, <1>1 DEF TypeOK
<1>3. /\ Busy' = Busy
      /\ InHand = InHand' \cup {w} /\ w \notin InHand'
      /\ outcome[w] = "error" => Unreported = Unreported' \cup {w} /\ w \notin Unreported'
      /\ outcome[w] # "error" => Unreported' = Unreported
    BY <1>1, <1>2 DEF Busy, InHand, Unreported
<1>4. /\ IsFiniteSet(InHand') /\ IsFiniteSet(Unreported')
      /\ Cardinality(InHand') \in Nat /\ Cardinality(Unreported') \in Nat
    <2>1. InHand' \subseteq Workers /\ Unreported' \subseteq Workers
        BY DEF InHand, Unreported
    <2> QED
        BY <2>1, WorkersFinite
<1>5. /\ Cardinality(InHand) = Cardinality(InHand') + 1
      /\ outcome[w] = "error" => Cardinality(Unreported) = Cardinality(Unreported') + 1
    BY <1>3, <1>4, OneMore
<1>6. runningTasks' = Cardinality(InHand')
    BY <1>1, <1>4, <1>5 DEF RunInv, CountersRight
<1>7. m \in Int /\ errorsCount \in Nat
    BY <1>t, RunAssumption DEF TypeOK
<1>8. CASE outcome[w] = "error" /\ m > 0
    <2>1. /\ errorsCount' = errorsCount + 1
          /\ errorsLimitExceeded' = (errorsCount' >= m)
        BY <1>1, <1>8 DEF CountResult
    <2>2. errorsLimitExceeded' \in BOOLEAN /\ (errorsLimitExceeded' <=> errorsCount' >= m)
        <3>1. CASE errorsCount' >= m
            <4>1. errorsLimitExceeded' = TRUE
                BY <2>1, <3>1, Zenon
            <4> QED
                BY <3>1, <4>1
        <3>2. CASE ~(errorsCount' >= m)
            <4>1. (errorsCount' >= m) = FALSE
                BY <1>7, <2>1, <3>2
            <4>2. errorsLimitExceeded' = FALSE
                BY <2>1, <4>1, Zenon
            <4> QED
                BY <3>2, <4>2
        <3> QED
            BY <3>1, <3>2
    <2>3. CountersRight'
        BY <1>1, <1>3, <1>4, <1>5, <1>6, <1>7, <1>8, <2>1, <2>2 DEF RunInv, CountersRight
    <2>4. TypeOK'
        BY <1>t, <1>1, <1>4, <1>6, <1>7, <2>1, <2>2 DEF TypeOK
    <2> QED
        BY <1>1, <1>3, <2>3, <2>4 DEF RunInv, TasksAccounted, LoopOver, BoundedWork
<1>9. CASE ~(outcome[w] = "error" /\ m > 0)
    <2>1. UNCHANGED <<errorsCount, errorsLimitExceeded>>
        BY <1>1, <1>9 DEF CountResult
    <2>2. CountersRight'
        BY <1>1, <1>3, <1>4, <1>5, <1>6, <1>7, <1>9, <2>1 DEF RunInv, CountersRight
    <2>3. TypeOK'
        BY <1>t, <1>1, <1>4, <1>6, <2>1 DEF TypeOK
    <2> QED
        BY <1>1, <1>3, <2>2, <2>3 DEF RunInv, TasksAccounted, LoopOver, BoundedWork
<1> QED
    BY <1>8, <1>9

\* A task returns in worker w.
LEMMA FinishKeeps ==
    ASSUME RunInv, NEW w \in Workers, Finish(w)
    PROVE  RunInv'
<1>t. TypeOK
    BY DEF RunInv
<1>1. /\ worker[w] = "run" /\ worker' = [worker EXCEPT ![w] = "send"]
      /\ \/ /\ outcome' = [outcome EXCEPT ![w] = "nil"]
            /\ okTasks' = okTasks \cup {task[w]} /\ badTasks' = badTasks
         \/ /\ outcome' = [outcome EXCEPT ![w] = "error"]
            /\ badTasks' = badTasks \cup {task[w]} /\ okTasks' = okTasks
      /\ UNCHANGED <<coordinator, m, nextTaskIndex, runningTasks, errorsCount, errorsLimitExceeded,
                     taskChannelClosed, task>>
    BY DEF Finish, loopVars
<1>2. /\ worker'[w] = "send" /\ \A v \in Workers \ {w} : worker'[v] = worker[v]
      /\ \A v \in Workers \ {w} : outcome'[v] = outcome[v]
      /\ okTasks' # okTasks => outcome'[w] = "nil"
      /\ badTasks' # badTasks => outcome'[w] = "error"
      /\ outcome'[w] = "nil" => okTasks' = okTasks \cup {task[w]} /\ badTasks' = badTasks
      /\ outcome'[w] = "error" => badTasks' = badTasks \cup {task[w]} /\ okTasks' = okTasks
      /\ outcome'[w] \in {"nil", "error"}
    BY <1>t, <1>1 DEF TypeOK
<1>3. /\ Busy = Busy' \cup {w} /\ w \notin Busy' /\ w \in Busy
      /\ InHand' = InHand
      /\ outcome'[w] = "error" => Unreported' = Unreported \cup {w} /\ w \notin Unreported
      /\ outcome'[w] = "nil" => Unreported' = Unreported
    BY <1>1, <1>2 DEF Busy, InHand, Unreported
<1>4. /\ IsFiniteSet(Busy') /\ IsFiniteSet(Unreported)
      /\ Cardinality(Busy') \in Nat /\ Cardinality(Unreported) \in Nat
    <2>1. Busy' \subseteq Workers /\ Unreported \subseteq Workers
        BY DEF Busy, Unreported
    <2> QED
        BY <2>1, WorkersFinite
<1>5. /\ Cardinality(Busy) = Cardinality(Busy') + 1
      /\ outcome'[w] = "error" => Cardinality(Unreported') = Cardinality(Unreported) + 1
    BY <1>3, <1>4, OneMore
<1>6. /\ IsFiniteSet(okTasks) /\ IsFiniteSet(badTasks)
      /\ Cardinality(okTasks) \in Nat /\ Cardinality(badTasks) \in Nat
      /\ task[w] \notin okTasks /\ task[w] \notin badTasks /\ task[w] \in Nat
      /\ errorsCount \in Nat /\ nextTaskIndex \in Nat /\ m \in Int /\ WorkerCount \in Nat
    BY <1>t, <1>3, FS_CardinalityType, RunAssumption, WorkersFinite
       DEF RunInv, TasksAccounted, TypeOK
<1>7. /\ IsFiniteSet(okTasks') /\ IsFiniteSet(badTasks')
      /\ outcome'[w] = "nil" => Cardinality(okTasks') = Cardinality(okTasks) + 1
      /\ outcome'[w] = "error" => Cardinality(badTasks') = Cardinality(badTasks) + 1
    BY <1>2, <1>6, OneMore
<1>8. okTasks' \cup badTasks' = okTasks \cup badTasks \cup {task[w]}
    BY <1>1
<1>9. TypeOK'
    BY <1>t, <1>1, <1>6 DEF TypeOK
<1>10. TasksAccounted'
    <2>1. {task'[v] : v \in Busy'} \cup {task[w]} = {task[v] : v \in Busy}
        BY <1>1, <1>3
    <2>2. okTasks' \cup badTasks' \cup {task'[v] : v \in Busy'} = 0..(nextTaskIndex' - 1)
        BY <1>1, <1>8, <2>1 DEF RunInv, TasksAccounted
    <2>3. \A v \in Busy' : task'[v] \notin okTasks' \cup badTasks'
        BY <1>1, <1>3, <1>8 DEF RunInv, TasksAccounted
    <2>4. \A u, v \in Busy' : task'[u] = task'[v] => u = v
        BY <1>1, <1>3 DEF RunInv, TasksAccounted
    <2>5. nextTaskIndex = Cardinality(okTasks) + Cardinality(badTasks) + Cardinality(Busy)
        BY DEF RunInv, TasksAccounted
    <2>6. nextTaskIndex' = Cardinality(okTasks') + Cardinality(badTasks') + Cardinality(Busy')
        BY <1>1, <1>2, <1>4, <1>5, <1>6, <1>7, <2>5
    <2> QED
        BY <1>7, <2>2, <2>3, <2>4, <2>6 DEF TasksAccounted
<1>11. CountersRight'
    BY <1>1, <1>2, <1>3, <1>4, <1>5, <1>6, <1>7 DEF RunInv, CountersRight
<1>12. LoopOver'
    <2>1. coordinator # "returned"
        BY <1>1 DEF RunInv, LoopOver
    <2> QED
        BY <1>1, <2>1 DEF RunInv, LoopOver
<1>13. BoundedWork'
    BY <1>1, <1>2, <1>6, <1>7 DEF RunInv, BoundedWork
<1> QED
    BY <1>9, <1>10, <1>11, <1>12, <1>13 DEF RunInv

\* The other steps of the coordinator and of the workers.
LEMMA OtherStepsKeep ==
    ASSUME RunInv, CloseTasks \/ Return \/ (\E w \in Workers : Leave(w))
    PROVE  RunInv'
<1>t. TypeOK
    BY DEF RunInv
<1>1. CASE CloseTasks
    <2>1. /\ coordinator = "loop" /\ ~LoopContinues /\ coordinator' = "wait" /\ taskChannelClosed' = TRUE
          /\ UNCHANGED <<m, nextTaskIndex, runningTasks, errorsCount, errorsLimitExceeded,
                         worker, task, outcome, okTasks, badTasks>>
        BY <1>1 DEF CloseTasks, loopVars
    <2>2. runningTasks = 0 /\ (errorsLimitExceeded \/ nextTaskIndex = TaskCount)
        BY <1>t, <2>1, RunAssumption DEF RunInv, LoopOver, LoopContinues, HasTaskToDispatch, TypeOK
    <2> QED
        BY <1>t, <2>1, <2>2 DEF RunInv, TypeOK, TasksAccounted, CountersRight, LoopOver, BoundedWork,
                                Busy, InHand, Unreported
<1>2. CASE Return
    BY <1>t, <1>2 DEF Return, loopVars, RunInv, TypeOK, TasksAccounted, CountersRight, LoopOver,
                      BoundedWork, Busy, InHand, Unreported
<1>3. ASSUME NEW w \in Workers, Leave(w)
      PROVE  RunInv'
    <2>1. /\ worker[w] = "receive" /\ worker' = [worker EXCEPT ![w] = "done"]
          /\ UNCHANGED <<coordinator, m, nextTaskIndex, runningTasks, errorsCount, errorsLimitExceeded,
                         taskChannelClosed, task, outcome, okTasks, badTasks>>
        BY <1>3 DEF Leave, loopVars
    <2>2. worker'[w] = "done" /\ \A v \in Workers \ {w} : worker'[v] = worker[v]
        BY <1>t, <2>1 DEF TypeOK
    <2>3. Busy' = Busy /\ InHand' = InHand /\ Unreported' = Unreported
        BY <2>1, <2>2 DEF Busy, InHand, Unreported
    <2>4. TypeOK'
        BY <1>t, <2>1 DEF TypeOK
    <2>5. TasksAccounted' /\ CountersRight' /\ BoundedWork'
        BY <2>1, <2>3 DEF RunInv, TasksAccounted, CountersRight, BoundedWork
    <2>6. LoopOver'
        BY <2>1, <2>2 DEF RunInv, LoopOver
    <2> QED
        BY <2>4, <2>5, <2>6 DEF RunInv
<1> QED
    BY <1>1, <1>2, <1>3

LEMMA InitRunInv == Init => RunInv
<1> SUFFICES ASSUME Init
             PROVE  RunInv
    OBVIOUS
<1>1. TypeOK
    BY DEF Init, TypeOK
<1>2. Busy = {} /\ InHand = {} /\ Unreported = {} /\ okTasks = {} /\ badTasks = {}
    BY DEF Init, Busy, InHand, Unreported
<1>3. /\ Cardinality(Busy) = 0 /\ Cardinality(InHand) = 0 /\ Cardinality(Unreported) = 0
      /\ Cardinality(okTasks) = 0 /\ Cardinality(badTasks) = 0
      /\ IsFiniteSet(okTasks) /\ IsFiniteSet(badTasks)
    BY <1>2, FS_EmptySet
<1>4. TasksAccounted
    <2>1. nextTaskIndex = 0 /\ 0..(nextTaskIndex - 1) = {}
        BY DEF Init
    <2> QED
        BY <1>2, <1>3, <2>1 DEF TasksAccounted
<1>5. CountersRight
    <2>1. m \in Int /\ runningTasks = 0 /\ errorsCount = 0 /\ errorsLimitExceeded = FALSE
        BY RunAssumption DEF Init
    <2>2. m > 0 => ~(errorsCount >= m)
        BY <2>1
    <2> QED
        BY <1>3, <2>1, <2>2 DEF CountersRight
<1>6. LoopOver
    BY RunAssumption DEF Init, LoopOver
<1>7. BoundedWork
    <2>1. nextTaskIndex = 0 /\ m \in Int /\ WorkerCount \in Nat /\ WorkerCount >= 1
        BY RunAssumption DEF Init, WorkerCount
    <2> QED
        BY <1>3, <2>1 DEF BoundedWork
<1> QED
    BY <1>1, <1>4, <1>5, <1>6, <1>7 DEF RunInv

LEMMA RunInvariant == ExercisesSpec => []RunInv
<1>1. ExercisesInit => RunInv
    BY InitRunInv DEF ExercisesInit
<1>2. RunInv /\ [ExercisesNext]_allVars => RunInv'
    <2> SUFFICES ASSUME RunInv, [ExercisesNext]_allVars
                 PROVE  RunInv'
        OBVIOUS
    <2>1. CASE UNCHANGED vars
        BY <2>1 DEF vars, RunInv, TypeOK, TasksAccounted, CountersRight, LoopOver, BoundedWork,
                    Busy, InHand, Unreported
    <2>2. CASE Next
        BY <2>1, <2>2, DispatchKeeps, CollectKeeps, FinishKeeps, OtherStepsKeep
           DEF Next, WorkerStep, Finished
    <2> QED
        BY <2>1, <2>2 DEF ExercisesNext, RunsPipeline, RunsTelnet, allVars
<1> QED
    BY <1>1, <1>2, PTL DEF ExercisesSpec

\* Run never starts more tasks than the assignment allows, for any number of
\* workers and tasks and any limit: at most n + m - 1 more than have succeeded.
THEOREM WorkAlwaysBounded == ExercisesSpec => []BoundedWork
BY RunInvariant, PTL DEF RunInv

\* What Run returns is what happened, for any number of workers and tasks and any
\* limit: ErrErrorsLimitExceeded if and only if m tasks failed, and every task that
\* was handed out has finished.
THEOREM RunAlwaysReportsRight == ExercisesSpec => []RunReportsRight
<1>1. RunInv => RunReportsRight
    <2> SUFFICES ASSUME RunInv, coordinator = "returned"
                 PROVE  /\ errorsLimitExceeded <=> m > 0 /\ Cardinality(badTasks) >= m
                        /\ okTasks \cup badTasks = 0..(nextTaskIndex - 1)
                        /\ ~errorsLimitExceeded => nextTaskIndex = TaskCount
                        /\ \A w \in Workers : worker[w] = "done"
        BY DEF RunReportsRight, VerdictIsRight, NothingLeftBehind
    <2>1. /\ \A w \in Workers : worker[w] = "done"
          /\ errorsLimitExceeded \/ nextTaskIndex = TaskCount
        BY DEF RunInv, LoopOver
    <2>2. Busy = {} /\ Unreported = {}
        BY <2>1 DEF Busy, Unreported
    <2>3. okTasks \cup badTasks = 0..(nextTaskIndex - 1)
        BY <2>2 DEF RunInv, TasksAccounted
    <2>4. m \in Int /\ errorsCount \in Nat /\ Cardinality(Unreported) = 0
        BY <2>2, FS_EmptySet, RunAssumption DEF RunInv, TypeOK
    <2>5. errorsLimitExceeded <=> m > 0 /\ Cardinality(badTasks) >= m
        <3>1. CASE m > 0
            <4>1. errorsCount = Cardinality(badTasks)
                BY <2>4, <3>1 DEF RunInv, CountersRight
            <4> QED
                BY <3>1, <4>1 DEF RunInv, CountersRight
        <3>2. CASE m <= 0
            BY <2>4, <3>2 DEF RunInv, CountersRight
        <3> QED
            BY <2>4, <3>1, <3>2
    <2> QED
        BY <2>1, <2>3, <2>5
<1> QED
    BY <1>1, RunInvariant, PTL

-----------------------------------------------------------------------------
(* hw06: the inductive invariant of ExecutePipeline.                        *)

PipelineTypes ==
    /\ st \in [P!Nodes -> {"top", "recv", "send", "drain", "ended"}]
    /\ val \in [P!Nodes -> Nat \X Nat]
    /\ closed \in [P!Nodes -> BOOLEAN]
    /\ next \in Nat \ {0}
    /\ inputClosed \in BOOLEAN
    /\ done \in BOOLEAN
    /\ lateReads \in Nat
    /\ output \in Seq(Nat \X Nat)

Gone(x) == st[x] \in {"drain", "ended"}

\* The number of values that node x has sent on: val[x] is the last it received.
Sent(x) == IF st[x] = "send" THEN val[x][1] - 1 ELSE val[x][1]

\* Neighbours agree on the values that went from one to the other, unless done
\* made one of them drop a value, after which it sends no more.
Neighbours ==
    /\ val[0][1] = next - 1
    /\ \A x \in P!Nodes \ {P!Last} : val[x + 1][1] = Sent(x) \/ (done /\ (Gone(x) \/ Gone(x + 1)))
    /\ Len(output) = Sent(P!Last) \/ (done /\ Gone(P!Last))
    /\ \A x \in P!Nodes : st[x] = "send" => val[x][2] = (x + 1) \div 2 /\ val[x][1] > 0

\* Without done, a node whose output is closed has passed on all of the input.
ClosedComplete ==
    /\ inputClosed => next = InputLength + 1
    /\ \A x \in P!Nodes : closed[x] /\ ~done => st[x] = "ended" /\ val[x][1] = InputLength
    /\ \A x \in P!Nodes : st[x] = "drain" => done

\* The one late read is the select that finds the input and done both ready.
OneLateRead ==
    /\ st[0] # "drain"
    /\ lateReads <= 1
    /\ lateReads = 1 => done /\ st[0] \in {"send", "top", "ended"}

PipelineInv ==
    PipelineTypes /\ Neighbours /\ ClosedComplete /\ OneLateRead /\ P!OrderKept

LEMMA NodesAreNumbers ==
    /\ P!Last \in Nat /\ 0 \in P!Nodes /\ P!Last \in P!Nodes
    /\ \A x \in P!Nodes : x \in Nat /\ x <= P!Last
    /\ \A x \in P!Nodes \ {P!Last} : x + 1 \in P!Nodes
    /\ \A x \in P!Nodes \ {0} : x - 1 \in P!Nodes \ {P!Last}
    /\ P!IsForward(0) /\ P!IsForward(P!Last) /\ (P!Last + 1) \div 2 = Stages
BY ExercisesAssumption DEF P!Last, P!Nodes, P!IsForward

\* A stage raises the number of stages passed, a forwarding goroutine does not.
LEMMA StagesPassed ==
    ASSUME NEW x \in Nat
    PROVE  (x + 2) \div 2 = (x + 1) \div 2 + IF P!IsForward(x + 1) THEN 0 ELSE 1
BY DEF P!IsForward

\* A goroutine passes the select at the top of its loop.
LEMMA LoopTopKeeps ==
    ASSUME PipelineInv, NEW i \in P!Nodes, P!LoopTop(i)
    PROVE  PipelineInv'
<1> USE NodesAreNumbers
<1>t. PipelineTypes
    BY DEF PipelineInv
<1>1. /\ st[i] = "top" /\ ~done /\ st' = [st EXCEPT ![i] = "recv"]
      /\ UNCHANGED <<val, closed, next, inputClosed, done, lateReads, reading, output>>
    BY DEF P!LoopTop
<1>2. st'[i] = "recv" /\ \A x \in P!Nodes \ {i} : st'[x] = st[x]
    BY <1>t, <1>1 DEF PipelineTypes
<1>3. PipelineTypes'
    BY <1>t, <1>1 DEF PipelineTypes
<1>4. \A x \in P!Nodes : Sent(x)' = Sent(x) /\ (Gone(x) => Gone(x)') /\ (st'[x] = "send" => st[x] = "send")
    BY <1>1, <1>2 DEF Sent, Gone
<1>5. Neighbours'
    BY <1>1, <1>4 DEF PipelineInv, Neighbours
<1>6. ClosedComplete' /\ OneLateRead' /\ P!OrderKept'
    BY <1>1, <1>2 DEF PipelineInv, ClosedComplete, OneLateRead, P!OrderKept
<1> QED
    BY <1>3, <1>5, <1>6 DEF PipelineInv

\* The first goroutine takes a value from the caller.
LEMMA ReadInputKeeps ==
    ASSUME PipelineInv, P!ReadInput
    PROVE  PipelineInv'
<1> USE NodesAreNumbers
<1>t. PipelineTypes
    BY DEF PipelineInv
<1>1. /\ st[0] = "recv" /\ st' = [st EXCEPT ![0] = "send"] /\ val' = [val EXCEPT ![0] = <<next, 0>>]
      /\ next' = next + 1 /\ ~inputClosed
      /\ lateReads' = IF done THEN lateReads + 1 ELSE lateReads
      /\ UNCHANGED <<closed, inputClosed, done, reading, output>>
    BY DEF P!ReadInput, PipelineInv, OneLateRead
<1>2. /\ st'[0] = "send" /\ \A x \in P!Nodes \ {0} : st'[x] = st[x]
      /\ val'[0] = <<next, 0>> /\ \A x \in P!Nodes \ {0} : val'[x] = val[x]
    BY <1>t, <1>1 DEF PipelineTypes
<1>3. next \in Nat /\ next > 0 /\ lateReads = 0
    BY <1>t, <1>1 DEF PipelineTypes, PipelineInv, OneLateRead
<1>4. PipelineTypes'
    BY <1>t, <1>1, <1>3, SMTT(30) DEF PipelineTypes
<1>5. /\ Sent(0)' = next - 1 /\ Sent(0) = val[0][1] /\ val[0][1] = next - 1
      /\ ~Gone(0)
    BY <1>1, <1>2, <1>3 DEF Sent, Gone, PipelineInv, Neighbours
<1>6. \A x \in P!Nodes : Sent(x)' = Sent(x) /\ (Gone(x) => Gone(x)')
    BY <1>2, <1>5 DEF Sent, Gone
<1>7. Neighbours'
    <2>1. val'[0][1] = next' - 1
        BY <1>1, <1>2, <1>3
    <2>2. \A x \in P!Nodes \ {P!Last} :
              val'[x + 1][1] = Sent(x)' \/ (done' /\ (Gone(x)' \/ Gone(x + 1)'))
        <3> TAKE x \in P!Nodes \ {P!Last}
        <3>1. x + 1 \in P!Nodes \ {0}
            OBVIOUS
        <3>2. val'[x + 1] = val[x + 1] /\ done' = done
            BY <1>1, <1>2, <3>1
        <3> QED
            BY <1>6, <3>1, <3>2 DEF PipelineInv, Neighbours
    <2>3. Len(output') = Sent(P!Last)' \/ (done' /\ Gone(P!Last)')
        BY <1>1, <1>6 DEF PipelineInv, Neighbours
    <2>4. \A x \in P!Nodes : st'[x] = "send" => val'[x][2] = (x + 1) \div 2 /\ val'[x][1] > 0
        <3>1. val'[0][2] = (0 + 1) \div 2 /\ val'[0][1] > 0
            BY <1>2, <1>3
        <3>2. \A x \in P!Nodes \ {0} : st'[x] = "send" => val'[x][2] = (x + 1) \div 2 /\ val'[x][1] > 0
            BY <1>2 DEF PipelineInv, Neighbours
        <3> QED
            BY <3>1, <3>2
    <2> QED
        BY <2>1, <2>2, <2>3, <2>4 DEF Neighbours
<1>8. ClosedComplete' /\ OneLateRead' /\ P!OrderKept'
    BY <1>1, <1>2, <1>3 DEF PipelineInv, ClosedComplete, OneLateRead, P!OrderKept
<1> QED
    BY <1>4, <1>7, <1>8 DEF PipelineInv

\* Goroutine n hands its value to the next one.
LEMMA TransferKeeps ==
    ASSUME PipelineInv, NEW i \in P!Nodes, P!Transfer(i)
    PROVE  PipelineInv'
<1> USE NodesAreNumbers
<1>t. PipelineTypes
    BY DEF PipelineInv
<1> DEFINE k == i + 1
<1>1. /\ i < P!Last /\ st[i] = "send" /\ st[k] \in {"recv", "drain"}
      /\ st' = [st EXCEPT ![i] = P!SentBy(i), ![k] = IF @ = "drain" THEN @ ELSE "send"]
      /\ val' = IF st[k] = "drain" THEN val
                ELSE [val EXCEPT ![k] = <<val[i][1], val[i][2] + IF P!IsForward(k) THEN 0 ELSE 1>>]
      /\ UNCHANGED <<closed, next, inputClosed, done, lateReads, reading, output>>
    BY DEF P!Transfer
<1>2. k \in P!Nodes /\ k # i /\ k # 0 /\ i \in Nat
    BY <1>1
<1> HIDE DEF k
<1>3. /\ P!SentBy(i) \in {"top", "recv"} /\ (i = 0 => P!SentBy(i) = "top")
    BY DEF P!SentBy
<1>4. /\ st'[i] = P!SentBy(i) /\ st'[k] = IF st[k] = "drain" THEN "drain" ELSE "send"
      /\ \A x \in P!Nodes \ {i, k} : st'[x] = st[x]
    BY <1>t, <1>1, <1>2 DEF PipelineTypes
<1>5. val[i][1] \in Nat /\ val[i][2] \in Nat /\ val[i][1] > 0 /\ val[i][2] = (i + 1) \div 2
    BY <1>t, <1>1 DEF PipelineTypes, PipelineInv, Neighbours
<1>6. /\ \A x \in P!Nodes \ {k} : val'[x] = val[x]
      /\ st[k] = "drain" => val'[k] = val[k]
      /\ st[k] # "drain" => val'[k] = <<val[i][1], (k + 1) \div 2>>
    <2>1. val[i][2] + (IF P!IsForward(k) THEN 0 ELSE 1) = (k + 1) \div 2
        <3>1. k + 1 = i + 2 /\ i + 1 = k
            BY <1>2 DEF k
        <3> QED
            BY <1>2, <1>5, <3>1, StagesPassed
    <2> QED
        BY <1>t, <1>1, <1>2, <2>1 DEF PipelineTypes
<1>7. PipelineTypes'
    <2>1. (k + 1) \div 2 \in Nat
        BY <1>2
    <2>2. st' \in [P!Nodes -> {"top", "recv", "send", "drain", "ended"}]
        BY <1>t, <1>1, <1>2, <1>3 DEF PipelineTypes
    <2>3. val' \in [P!Nodes -> Nat \X Nat]
        BY <1>t, <1>1, <1>2, <1>5, <1>6, <2>1 DEF PipelineTypes
    <2> QED
        BY <1>t, <1>1, <2>2, <2>3 DEF PipelineTypes
<1>8. /\ \A x \in P!Nodes \ {i} : Sent(x)' = Sent(x)
      /\ st[k] # "drain" => val'[k][1] = Sent(i)'
      /\ \A x \in P!Nodes : Gone(x)' <=> Gone(x)
    <2>1. Sent(i)' = val[i][1]
        BY <1>2, <1>3, <1>4, <1>6 DEF Sent
    <2>2. \A x \in P!Nodes : Gone(x)' <=> Gone(x)
        BY <1>1, <1>2, <1>3, <1>4 DEF Gone
    <2>3. Sent(k)' = Sent(k)
        <3>1. CASE st[k] = "drain"
            BY <1>2, <1>4, <1>6, <3>1 DEF Sent
        <3>2. CASE st[k] # "drain"
            <4>1. ~Gone(i) /\ ~Gone(k) /\ st[k] = "recv"
                BY <1>1, <3>2 DEF Gone
            <4>2. val[k][1] = Sent(i)
                BY <1>1, <1>2, <4>1 DEF PipelineInv, Neighbours, k
            <4>3. Sent(i) = val[i][1] - 1 /\ Sent(k) = val[k][1]
                BY <1>1, <4>1 DEF Sent
            <4>4. Sent(k)' = val[i][1] - 1
                BY <1>2, <1>4, <1>5, <1>6, <3>2 DEF Sent
            <4> QED
                BY <4>2, <4>3, <4>4
        <3> QED
            BY <3>1, <3>2
    <2>4. \A x \in P!Nodes \ {i, k} : Sent(x)' = Sent(x)
        BY <1>4, <1>6 DEF Sent
    <2> QED
        BY <1>6, <2>1, <2>2, <2>3, <2>4
<1>9. Neighbours'
    <2>1. val'[0][1] = next' - 1
        BY <1>1, <1>2, <1>6 DEF PipelineInv, Neighbours
    <2>2. \A x \in P!Nodes \ {P!Last} :
              val'[x + 1][1] = Sent(x)' \/ (done' /\ (Gone(x)' \/ Gone(x + 1)'))
        <3> TAKE x \in P!Nodes \ {P!Last}
        <3>1. CASE x = i
            <4>1. CASE st[k] = "drain"
                <5>1. done' /\ Gone(k)'
                    BY <1>1, <1>2, <1>8, <4>1 DEF PipelineInv, ClosedComplete, Gone
                <5> QED
                    BY <3>1, <5>1 DEF k
            <4>2. CASE st[k] # "drain"
                <5>1. val'[i + 1][1] = Sent(i)'
                    BY <1>8, <4>2 DEF k
                <5>2. Sent(x)' = Sent(i)'
                    BY <3>1 DEF Sent
                <5> QED
                    BY <3>1, <5>1, <5>2
            <4> QED
                BY <4>1, <4>2
        <3>2. CASE x # i
            <4>1. x + 1 \in P!Nodes /\ x + 1 # k
                BY <1>2, <3>2 DEF k
            <4> QED
                BY <1>1, <1>6, <1>8, <3>2, <4>1 DEF PipelineInv, Neighbours
        <3> QED
            BY <3>1, <3>2
    <2>3. Len(output') = Sent(P!Last)' \/ (done' /\ Gone(P!Last)')
        BY <1>1, <1>8 DEF PipelineInv, Neighbours
    <2>4. \A x \in P!Nodes : st'[x] = "send" => val'[x][2] = (x + 1) \div 2 /\ val'[x][1] > 0
        <3> TAKE x \in P!Nodes
        <3>1. CASE x = k
            BY <1>4, <1>2, <1>5, <1>6, <3>1
        <3>2. CASE x # k
            BY <1>3, <1>4, <1>6, <3>2 DEF PipelineInv, Neighbours
        <3> QED
            BY <3>1, <3>2
    <2> QED
        BY <2>1, <2>2, <2>3, <2>4 DEF Neighbours
<1>10. ClosedComplete'
    BY <1>1, <1>2, <1>3, <1>4, <1>6, ZenonT(30) DEF PipelineInv, ClosedComplete
<1>11. OneLateRead' /\ P!OrderKept'
    BY <1>1, <1>2, <1>3, <1>4 DEF PipelineInv, OneLateRead, P!OrderKept
<1> QED
    BY <1>7, <1>9, <1>10, <1>11 DEF PipelineInv

\* A goroutine leaves: its source is closed, or a select took done.
LEMMA LeavingKeeps ==
    ASSUME PipelineInv, NEW i \in P!Nodes, P!EndOfSource(i) \/ P!Stop(i)
    PROVE  PipelineInv'
<1> USE NodesAreNumbers
<1>t. PipelineTypes
    BY DEF PipelineInv
<1> DEFINE to == st'[i]
<1>1. /\ st' = [st EXCEPT ![i] = to] /\ to \in {"drain", "ended"} /\ (to = "drain" => done /\ i # 0)
      /\ closed' = [closed EXCEPT ![i] = TRUE]
      /\ ~done => st[i] = "recv" /\ to = "ended" /\ P!SourceClosed(i)
      /\ st[i] = "send" => done
      /\ UNCHANGED <<val, next, inputClosed, done, lateReads, reading, output>>
    <2>1. CASE P!EndOfSource(i)
        BY <1>t, <2>1 DEF P!EndOfSource, PipelineTypes, PipelineInv, ClosedComplete
    <2>2. CASE P!Stop(i)
        BY <1>t, <2>2 DEF P!Stop, P!Drains, PipelineTypes
    <2> QED
        BY <2>1, <2>2
<1> HIDE DEF to
<1>2. /\ st'[i] = to /\ closed'[i] = TRUE
      /\ \A x \in P!Nodes \ {i} : st'[x] = st[x] /\ closed'[x] = closed[x]
    BY <1>t, <1>1 DEF PipelineTypes
<1>3. PipelineTypes'
    BY <1>t, <1>1 DEF PipelineTypes
<1>4. /\ Gone(i)' /\ \A x \in P!Nodes : Gone(x) => Gone(x)'
      /\ \A x \in P!Nodes \ {i} : Sent(x)' = Sent(x)
      /\ ~done => Sent(i)' = Sent(i)
    BY <1>1, <1>2 DEF Sent, Gone
<1>5. Neighbours'
    <2>1. \A x \in P!Nodes \ {P!Last} :
              val'[x + 1][1] = Sent(x)' \/ (done' /\ (Gone(x)' \/ Gone(x + 1)'))
        <3> TAKE x \in P!Nodes \ {P!Last}
        <3>1. val[x + 1][1] = Sent(x) \/ (done /\ (Gone(x) \/ Gone(x + 1)))
            BY DEF PipelineInv, Neighbours
        <3>2. x + 1 \in P!Nodes
            OBVIOUS
        <3> QED
            BY <1>1, <1>4, <3>1, <3>2
    <2>2. Len(output') = Sent(P!Last)' \/ (done' /\ Gone(P!Last)')
        BY <1>1, <1>4 DEF PipelineInv, Neighbours
    <2>3. \A x \in P!Nodes : st'[x] = "send" => st[x] = "send"
        BY <1>1, <1>2
    <2> QED
        BY <1>1, <2>1, <2>2, <2>3 DEF PipelineInv, Neighbours
<1>6. ClosedComplete'
    <2>1. ASSUME ~done
          PROVE  val[i][1] = InputLength
        <3>1. CASE i = 0
            BY <1>1, <2>1, <3>1, ExercisesAssumption
               DEF P!SourceClosed, PipelineInv, ClosedComplete, Neighbours
        <3>2. CASE i # 0
            <4>1. i - 1 \in P!Nodes \ {P!Last} /\ (i - 1) + 1 = i
                <5>1. i \in Nat /\ i \in P!Nodes \ {0}
                    BY <3>2
                <5> QED
                    BY <5>1
            <4>2. st[i - 1] = "ended" /\ val[i - 1][1] = InputLength
                BY <1>1, <2>1, <3>2, <4>1 DEF P!SourceClosed, PipelineInv, ClosedComplete
            <4>3. val[i][1] = Sent(i - 1)
                BY <2>1, <4>1 DEF PipelineInv, Neighbours
            <4> QED
                BY <4>2, <4>3 DEF Sent
        <3> QED
            BY <3>1, <3>2
    <2> QED
        BY <1>1, <1>2, <2>1 DEF PipelineInv, ClosedComplete
<1>7. OneLateRead' /\ P!OrderKept'
    BY <1>1, <1>2 DEF PipelineInv, OneLateRead, P!OrderKept
<1> QED
    BY <1>3, <1>5, <1>6, <1>7 DEF PipelineInv

\* The consumer reads a value.
LEMMA ConsumeKeeps ==
    ASSUME PipelineInv, P!Consume
    PROVE  PipelineInv'
<1> USE NodesAreNumbers
<1>t. PipelineTypes
    BY DEF PipelineInv
<1>1. /\ st[P!Last] = "send" /\ st' = [st EXCEPT ![P!Last] = "top"]
      /\ output' = Append(output, val[P!Last])
      /\ UNCHANGED <<val, closed, next, inputClosed, done, lateReads, reading>>
    BY DEF P!Consume
<1>2. st'[P!Last] = "top" /\ \A x \in P!Nodes \ {P!Last} : st'[x] = st[x]
    BY <1>t, <1>1 DEF PipelineTypes
<1>3. /\ val[P!Last] \in Nat \X Nat /\ val[P!Last][2] = Stages
      /\ Sent(P!Last) = val[P!Last][1] - 1 /\ Sent(P!Last)' = val[P!Last][1]
      /\ Len(output) = Sent(P!Last)
    BY <1>t, <1>1, <1>2 DEF PipelineTypes, PipelineInv, Neighbours, Sent, Gone
<1>4. /\ Len(output) \in Nat /\ Len(output') = Len(output) + 1
      /\ \A i \in 1..Len(output) : output'[i] = output[i]
      /\ output'[Len(output) + 1] = val[P!Last] /\ output' \in Seq(Nat \X Nat)
    BY <1>t, <1>1, <1>3 DEF PipelineTypes
<1>5. val[P!Last] = <<Len(output) + 1, Stages>>
    BY <1>3, <1>4
<1>6. PipelineTypes'
    BY <1>t, <1>1, <1>4 DEF PipelineTypes
<1>7. Neighbours'
    <2>1. \A x \in P!Nodes \ {P!Last} : Sent(x)' = Sent(x)
        BY <1>1, <1>2 DEF Sent
    <2>2. \A x \in P!Nodes : Gone(x)' <=> Gone(x)
        BY <1>1, <1>2 DEF Gone
    <2>3. \A x \in P!Nodes \ {P!Last} :
              val'[x + 1][1] = Sent(x)' \/ (done' /\ (Gone(x)' \/ Gone(x + 1)'))
        BY <1>1, <2>1, <2>2 DEF PipelineInv, Neighbours
    <2>4. \A x \in P!Nodes : st'[x] = "send" => st[x] = "send"
        BY <1>1, <1>2
    <2>5. Len(output') = Sent(P!Last)'
        BY <1>3, <1>4
    <2> QED
        BY <1>1, <2>3, <2>4, <2>5 DEF PipelineInv, Neighbours
<1>8. ClosedComplete' /\ OneLateRead'
    BY <1>1, <1>2 DEF PipelineInv, ClosedComplete, OneLateRead
<1>9. P!OrderKept'
    <2> SUFFICES ASSUME NEW i \in 1..Len(output')
                 PROVE  output'[i] = <<i, Stages>>
        BY DEF P!OrderKept
    <2>1. CASE i = Len(output) + 1
        BY <1>4, <1>5, <2>1
    <2>2. CASE i # Len(output) + 1
        <3>1. i \in 1..Len(output)
            BY <1>4, <2>2
        <3> QED
            BY <1>4, <3>1 DEF PipelineInv, P!OrderKept
    <2> QED
        BY <2>1, <2>2
<1> QED
    BY <1>6, <1>7, <1>8, <1>9 DEF PipelineInv

\* The caller stops reading, or closes the input or done.
LEMMA CallerKeeps ==
    ASSUME PipelineInv, P!StopReading \/ P!CloseInput \/ P!CloseDone \/ UNCHANGED pipelineVars
    PROVE  PipelineInv'
<1>1. /\ UNCHANGED <<st, val, closed, next, lateReads, output>>
      /\ done => done'
      /\ inputClosed' /\ ~inputClosed => next = InputLength + 1
    BY DEF P!StopReading, P!CloseInput, P!CloseDone, pipelineVars, PipelineInv, PipelineTypes
<1>2. done' \in BOOLEAN /\ inputClosed' \in BOOLEAN
    BY DEF P!StopReading, P!CloseInput, P!CloseDone, pipelineVars, PipelineInv, PipelineTypes
<1>3. PipelineTypes'
    BY <1>1, <1>2 DEF PipelineInv, PipelineTypes
<1>4. Neighbours'
    BY <1>1 DEF PipelineInv, Neighbours, Sent, Gone
<1>5. ClosedComplete' /\ OneLateRead' /\ P!OrderKept'
    BY <1>1, <1>2 DEF PipelineInv, PipelineTypes, ClosedComplete, OneLateRead, P!OrderKept
<1> QED
    BY <1>3, <1>4, <1>5 DEF PipelineInv

LEMMA InitPipelineInv == P!Init => PipelineInv
<1> USE NodesAreNumbers
<1> SUFFICES ASSUME P!Init
             PROVE  PipelineInv
    OBVIOUS
<1>1. /\ \A x \in P!Nodes : st[x] \in {"top", "recv"} /\ val[x][1] = 0 /\ closed[x] = FALSE
      /\ next = 1 /\ inputClosed = FALSE /\ done = FALSE /\ lateReads = 0 /\ output = <<>>
      /\ st[0] = "top"
    BY DEF P!Init
<1>2. PipelineTypes
    <2>1. st \in [P!Nodes -> {"top", "recv", "send", "drain", "ended"}]
        BY DEF P!Init
    <2>2. val \in [P!Nodes -> Nat \X Nat]
        BY DEF P!Init
    <2>3. closed \in [P!Nodes -> BOOLEAN]
        BY DEF P!Init
    <2>4. inputClosed \in BOOLEAN /\ done \in BOOLEAN
        BY <1>1
    <2>5. next \in Nat \ {0} /\ lateReads \in Nat /\ output \in Seq(Nat \X Nat)
        BY <1>1
    <2> QED
        BY <2>1, <2>2, <2>3, <2>4, <2>5 DEF PipelineTypes
<1>3. \A x \in P!Nodes : Sent(x) = 0
    BY <1>1 DEF Sent
<1>4. Neighbours
    <2>1. val[0][1] = next - 1 /\ Len(output) = Sent(P!Last)
        BY <1>1, <1>3
    <2>2. \A x \in P!Nodes \ {P!Last} : val[x + 1][1] = Sent(x)
        BY <1>1, <1>3
    <2>3. \A x \in P!Nodes : st[x] # "send"
        BY <1>1
    <2> QED
        BY <2>1, <2>2, <2>3 DEF Neighbours
<1>5. ClosedComplete
    <2>1. ~inputClosed /\ \A x \in P!Nodes : ~closed[x] /\ st[x] # "drain"
        BY <1>1
    <2> QED
        BY <2>1 DEF ClosedComplete
<1>6. OneLateRead /\ P!OrderKept
    BY <1>1 DEF OneLateRead, P!OrderKept
<1> QED
    BY <1>2, <1>4, <1>5, <1>6 DEF PipelineInv

\* ExecutePipeline is faithful to its input, for any number of stages and values
\* and however done interrupts it: the output is the input in order, each value
\* through every stage, complete unless done was closed, and after done at most
\* one more value is taken from the caller.
THEOREM PipelineAlwaysFaithful == ExercisesSpec => []PipelineIsFaithful
<1>1. ExercisesInit => PipelineInv
    BY InitPipelineInv DEF ExercisesInit
<1>2. PipelineInv /\ [ExercisesNext]_allVars => PipelineInv'
    <2> SUFFICES ASSUME PipelineInv, [ExercisesNext]_allVars
                 PROVE  PipelineInv'
        OBVIOUS
    <2>1. CASE P!Next
        BY <2>1, LoopTopKeeps, ReadInputKeeps, TransferKeeps, LeavingKeeps, ConsumeKeeps, CallerKeeps
           DEF P!Next, P!NodeStep
    <2>2. CASE UNCHANGED pipelineVars
        BY <2>2, CallerKeeps
    <2> QED
        BY <2>1, <2>2 DEF ExercisesNext, RunsParallel, RunsTelnet, allVars
<1>3. PipelineInv => PipelineIsFaithful
    <2> SUFFICES ASSUME PipelineInv
                 PROVE  PipelineIsFaithful
        OBVIOUS
    <2>1. ASSUME closed[P!Last], ~done
          PROVE  Len(output) = InputLength
        <3>1. st[P!Last] = "ended" /\ val[P!Last][1] = InputLength
            BY <2>1, NodesAreNumbers DEF PipelineInv, ClosedComplete
        <3> QED
            BY <2>1, <3>1 DEF PipelineInv, Neighbours, Sent
    <2> QED
        BY <2>1 DEF PipelineInv, OneLateRead, PipelineIsFaithful, P!CompleteUnlessDone, P!InputLeftAlone
<1> QED
    BY <1>1, <1>2, <1>3, PTL DEF ExercisesSpec

-----------------------------------------------------------------------------
(* hw11: the inductive invariant of the session.                            *)

SessionInv ==
    /\ inputLeft \in Nat /\ written \in Nat /\ wire \in Nat /\ printed \in Nat /\ peerSent \in Nat
    /\ sendDone \in {"none", "nil", "err"} /\ receiveDone \in {"none", "nil", "err"}
    /\ pc \in {"select", "grace", "close", "report", "returned"}
    /\ broken \in BOOLEAN /\ open \in BOOLEAN /\ peerClosed \in BOOLEAN
    /\ transferErr \in {"nil", "err"}
       \* What is not yet through is still there.
    /\ written + inputLeft = InputChunks
    /\ printed + wire = peerSent
       \* A copy ends without an error when all of it is through, and with one
       \* because an end of it failed, until runSession closes the client.
    /\ sendDone = "nil" => inputLeft = 0
    /\ receiveDone = "nil" => peerClosed /\ wire = 0
    /\ open /\ sendDone = "err" => broken \/ input = "failed"
    /\ open /\ receiveDone = "err" => broken \/ sink = "failed"
    /\ pc \in {"select", "grace", "close"} => open
       \* What runSession remembers of it.
    /\ pc = "select" => transferErr = "nil"
    /\ pc = "grace" => transferErr = "nil" /\ operation = "send" /\ message = "EOF" /\ sendDone = "nil"
    /\ transferErr = "err" =>
          IF operation = "send" THEN sendDone = "err" /\ (broken \/ input = "failed")
          ELSE receiveDone = "err" /\ (broken \/ sink = "failed")
    /\ pc \in {"close", "report", "returned"} /\ transferErr = "nil" =>
          /\ message = "EOF" => sendDone = "nil"
          /\ message = "ClosedByPeer" => receiveDone = "nil"

\* The copies.
LEMMA CopyStepKeeps ==
    ASSUME SessionInv, T!SendChunk \/ T!SendReturns \/ T!ReceiveChunk \/ T!ReceiveReturns
    PROVE  SessionInv'
<1> USE DEF T!mainVars, T!dataVars, T!stateVars, T!doneVars, T!Running
<1>1. CASE T!SendChunk
    <2>1. broken' \in BOOLEAN
        BY <1>1 DEF SessionInv, T!SendChunk
    <2> QED
        BY <1>1, <2>1 DEF SessionInv, T!SendChunk
<1>2. CASE T!SendReturns
    BY <1>2 DEF SessionInv, T!SendReturns
<1>3. CASE T!ReceiveChunk
    BY <1>3 DEF SessionInv, T!ReceiveChunk
<1>4. CASE T!ReceiveReturns
    BY <1>4 DEF SessionInv, T!ReceiveReturns
<1> QED
    BY <1>1, <1>2, <1>3, <1>4

\* runSession.
LEMMA SessionStepKeeps ==
    ASSUME SessionInv, T!SessionStep
    PROVE  SessionInv'
<1> USE DEF T!mainVars, T!dataVars, T!stateVars, T!doneVars
<1>1. CASE T!Select
    BY <1>1 DEF SessionInv, T!Select
<1>2. CASE T!Grace
    BY <1>2 DEF SessionInv, T!Grace
<1>3. CASE T!Close
    BY <1>3 DEF SessionInv, T!Close
<1>4. CASE T!Report
    BY <1>4 DEF SessionInv, T!Report
<1> QED
    BY <1>1, <1>2, <1>3, <1>4 DEF T!SessionStep

\* The user, the peer and the network.
LEMMA SurroundingsKeep ==
    ASSUME SessionInv,
           \/ T!Interrupt \/ T!EndInput \/ T!OutputEnds \/ T!PeerSends \/ T!PeerStalls
           \/ T!PeerCloses \/ T!Reset \/ UNCHANGED telnetVars
    PROVE  SessionInv'
<1> USE DEF T!mainVars, T!dataVars, T!stateVars, T!doneVars, T!Surroundings
<1>1. CASE T!Interrupt \/ T!EndInput \/ T!OutputEnds \/ T!PeerStalls
    BY <1>1 DEF SessionInv, T!Interrupt, T!EndInput, T!OutputEnds, T!PeerStalls
<1>2. CASE T!PeerSends
    BY <1>2 DEF SessionInv, T!PeerSends
<1>3. CASE T!PeerCloses
    BY <1>3 DEF SessionInv, T!PeerCloses
<1>4. CASE T!Reset
    BY <1>4 DEF SessionInv, T!Reset
<1>5. CASE UNCHANGED telnetVars
    BY <1>5 DEF SessionInv, telnetVars
<1> QED
    BY <1>1, <1>2, <1>3, <1>4, <1>5

\* What the telnet client reports is what happened, for inputs and answers of any
\* length: its messages mean that everything is through, and the errors it prints
\* come from the input, the output or the connection of the copy they name and not
\* from its own Close.
THEOREM SessionAlwaysReportsRight == ExercisesSpec => []SessionReportsRight
<1>1. ExercisesInit => SessionInv
    <2> SUFFICES ASSUME ExercisesInit
                 PROVE  SessionInv
        OBVIOUS
    <2>1. /\ pc = "select" /\ transferErr = "nil"
          /\ inputLeft = InputChunks /\ written = 0 /\ peerSent = 0 /\ wire = 0 /\ printed = 0
          /\ broken = FALSE /\ open = TRUE /\ peerClosed = FALSE
          /\ sendDone = "none" /\ receiveDone = "none"
        BY DEF ExercisesInit, T!Init
    <2>2. broken \in BOOLEAN /\ open \in BOOLEAN /\ peerClosed \in BOOLEAN
        BY <2>1
    <2> QED
        BY <2>1, <2>2, ExercisesAssumption DEF SessionInv
<1>2. SessionInv /\ [ExercisesNext]_allVars => SessionInv'
    <2> SUFFICES ASSUME SessionInv, [ExercisesNext]_allVars
                 PROVE  SessionInv'
        OBVIOUS
    <2>1. CASE T!Next
        <3>1. T!Returned => UNCHANGED telnetVars
            BY DEF T!Returned, T!vars, T!mainVars, T!dataVars, T!stateVars, T!doneVars, telnetVars
        <3> QED
            BY <2>1, <3>1, CopyStepKeeps, SessionStepKeeps, SurroundingsKeep DEF T!Next
    <2>2. CASE UNCHANGED telnetVars
        BY <2>2, SurroundingsKeep
    <2> QED
        BY <2>1, <2>2 DEF ExercisesNext, RunsParallel, RunsPipeline, allVars
<1>3. SessionInv => SessionReportsRight
    BY DEF SessionInv, SessionReportsRight, T!SuccessIsComplete, T!Succeeded, T!ErrorHasCause
<1> QED
    BY <1>1, <1>2, <1>3, PTL DEF ExercisesSpec
=============================================================================
