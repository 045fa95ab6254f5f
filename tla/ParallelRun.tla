----------------------------- MODULE ParallelRun -----------------------------
(***************************************************************************)
(* hw05_parallel_execution: Run executes a list of tasks in n goroutines   *)
(* and stops handing out tasks after m errors.  A coordinator and the      *)
(* workers talk over two unbuffered channels, so a send and its receive    *)
(* are one step of both.                                                   *)
(***************************************************************************)
EXTENDS Integers, FiniteSets

CONSTANTS
    TaskCount,   \* len(tasks)
    n,           \* the argument of Run; it may be zero or negative
    Limits       \* the values of its argument m, also zero or negative

ASSUME RunAssumption == TaskCount \in Nat /\ n \in Int /\ Limits \subseteq Int

VARIABLES
    m,
    coordinator,          \* "loop", "wait" (workers.Wait) or "returned"
    nextTaskIndex, runningTasks, errorsCount, errorsLimitExceeded,
    taskChannelClosed,
    worker,               \* where each goroutine is
    task,                 \* the index of its task
    outcome,              \* what task() returned
    okTasks, badTasks     \* history: tasks that returned nil, or an error

vars == <<m, coordinator, nextTaskIndex, runningTasks, errorsCount, errorsLimitExceeded,
          taskChannelClosed, worker, task, outcome, okTasks, badTasks>>
loopVars == <<m, nextTaskIndex, runningTasks, errorsCount, errorsLimitExceeded>>

Tasks == 0..(TaskCount - 1)

\* if n <= 0 { n = 1 }
WorkerCount == IF n <= 0 THEN 1 ELSE n
Workers == 1..WorkerCount

Init ==
    /\ m \in Limits
    /\ coordinator = "loop"
    /\ nextTaskIndex = 0
    /\ runningTasks = 0
    /\ errorsCount = 0
    /\ errorsLimitExceeded = FALSE
    /\ taskChannelClosed = FALSE
    /\ worker = [w \in Workers |-> "receive"]
    /\ task = [w \in Workers |-> 0]
    /\ outcome = [w \in Workers |-> "nil"]
    /\ okTasks = {}
    /\ badTasks = {}

-----------------------------------------------------------------------------
(* The coordinator.                                                         *)

\* Mutant: tasks are handed out whatever the number of errors.
HasTaskToDispatchAlways == nextTaskIndex < TaskCount

\* taskOutput is not nil.
HasTaskToDispatch == ~errorsLimitExceeded /\ nextTaskIndex < TaskCount

\* The condition of the for loop.
LoopContinues == runningTasks > 0 \/ HasTaskToDispatch

\* case taskOutput <- nextTask, received by w.
Dispatch(w) ==
    /\ coordinator = "loop"
    /\ HasTaskToDispatch
    /\ worker[w] = "receive"
    /\ worker' = [worker EXCEPT ![w] = "run"]
    /\ task' = [task EXCEPT ![w] = nextTaskIndex]
    /\ nextTaskIndex' = nextTaskIndex + 1
    /\ runningTasks' = runningTasks + 1
    /\ UNCHANGED <<m, coordinator, errorsCount, errorsLimitExceeded, taskChannelClosed,
                   outcome, okTasks, badTasks>>

\* Mutant: m <= 0 is not special.
CountResultAnyLimit(err) ==
    IF err = "error"
    THEN errorsCount' = errorsCount + 1 /\ errorsLimitExceeded' = (errorsCount' >= m)
    ELSE UNCHANGED <<errorsCount, errorsLimitExceeded>>

CountResult(err) ==
    IF err = "error" /\ m > 0
    THEN errorsCount' = errorsCount + 1 /\ errorsLimitExceeded' = (errorsCount' >= m)
    ELSE UNCHANGED <<errorsCount, errorsLimitExceeded>>

\* case taskErr := <-resultChannel, sent by w.
Collect(w) ==
    /\ coordinator = "loop"
    /\ LoopContinues
    /\ worker[w] = "send"
    /\ worker' = [worker EXCEPT ![w] = "receive"]
    /\ runningTasks' = runningTasks - 1
    /\ CountResult(outcome[w])
    /\ UNCHANGED <<m, coordinator, nextTaskIndex, taskChannelClosed, task, outcome,
                   okTasks, badTasks>>

\* The loop is over: close(taskChannel).
CloseTasks ==
    /\ coordinator = "loop"
    /\ ~LoopContinues
    /\ coordinator' = "wait"
    /\ taskChannelClosed' = TRUE
    /\ UNCHANGED <<loopVars, worker, task, outcome, okTasks, badTasks>>

\* workers.Wait() and the return.
Return ==
    /\ coordinator = "wait"
    /\ \A w \in Workers : worker[w] = "done"
    /\ coordinator' = "returned"
    /\ UNCHANGED <<loopVars, taskChannelClosed, worker, task, outcome, okTasks, badTasks>>

-----------------------------------------------------------------------------
(* runWorker.                                                               *)

\* task() returns, with or without an error.
Finish(w) ==
    /\ worker[w] = "run"
    /\ worker' = [worker EXCEPT ![w] = "send"]
    /\ \/ /\ outcome' = [outcome EXCEPT ![w] = "nil"]
          /\ okTasks' = okTasks \cup {task[w]}
          /\ UNCHANGED badTasks
       \/ /\ outcome' = [outcome EXCEPT ![w] = "error"]
          /\ badTasks' = badTasks \cup {task[w]}
          /\ UNCHANGED okTasks
    /\ UNCHANGED <<coordinator, loopVars, taskChannelClosed, task>>

\* The range over the closed channel ends: workers.Done().
Leave(w) ==
    /\ worker[w] = "receive"
    /\ taskChannelClosed
    /\ worker' = [worker EXCEPT ![w] = "done"]
    /\ UNCHANGED <<coordinator, loopVars, taskChannelClosed, task, outcome, okTasks, badTasks>>

\* Run has returned; nothing happens any more.
Finished == coordinator = "returned" /\ UNCHANGED vars

WorkerStep(w) == Dispatch(w) \/ Collect(w) \/ Finish(w) \/ Leave(w)

Next == (\E w \in Workers : WorkerStep(w)) \/ CloseTasks \/ Return \/ Finished

Spec == Init /\ [][Next]_vars

\* Goroutines are scheduled and every task returns.
FairSpec ==
    /\ Spec
    /\ WF_vars(CloseTasks) /\ WF_vars(Return)
    /\ \A w \in Workers : WF_vars(WorkerStep(w))

-----------------------------------------------------------------------------
TypeOK ==
    /\ m \in Limits
    /\ coordinator \in {"loop", "wait", "returned"}
    /\ nextTaskIndex \in Nat
    /\ runningTasks \in Nat
    /\ errorsCount \in Nat
    /\ errorsLimitExceeded \in BOOLEAN
    /\ taskChannelClosed \in BOOLEAN
    /\ worker \in [Workers -> {"receive", "run", "send", "done"}]
    /\ task \in [Workers -> Nat]
    /\ outcome \in [Workers -> {"nil", "error"}]
    /\ okTasks \subseteq Nat
    /\ badTasks \subseteq Nat

\* With an error limit, Run starts at most n + m - 1 tasks more than it has seen
\* succeed: the assignment's bound of n + m tasks when all of them fail, for any
\* order of results.
BoundedWork ==
    m > 0 => nextTaskIndex <= Cardinality(okTasks) + WorkerCount + m - 1

\* The verdict is right: Run returns ErrErrorsLimitExceeded if and only if there
\* is a limit and at least m of the tasks it started failed, the ones that were
\* still running when the limit was reached included.
VerdictIsRight ==
    coordinator = "returned" =>
        (errorsLimitExceeded <=> m > 0 /\ Cardinality(badTasks) >= m)

\* Without that error every task has been executed, and in any case every task
\* that was started has finished and its goroutine is gone when Run returns.
NothingLeftBehind ==
    coordinator = "returned" =>
        /\ okTasks \cup badTasks = 0..(nextTaskIndex - 1)
        /\ ~errorsLimitExceeded => nextTaskIndex = TaskCount
        /\ \A w \in Workers : worker[w] = "done"

\* Run returns, whatever the tasks do: no send on a channel waits forever.
RunReturns == <>(coordinator = "returned")
=============================================================================
