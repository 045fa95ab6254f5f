--------------------------- MODULE ServiceProcess ---------------------------
(***************************************************************************)
(* calendar_scheduler and calendar_storer, whose run is the same: connect  *)
(* the storage, prepare the Kafka topic, create the Kafka client, run the  *)
(* process and its metrics server as one unit (monitoring.RunWithServer),  *)
(* and close what was opened, in the reverse order.                        *)
(***************************************************************************)
EXTENDS HttpServer, Sequences

VARIABLES
    runPc,      \* the stage of run (only calendar can be "killed")
    signalled,  \* SIGINT, SIGTERM or SIGHUP has arrived
    cancelled,  \* the deferred or explicit cancel of RunWithServer's runCtx
    resources,  \* the open resources: the storage and the Kafka client
    deferred,   \* the deferred closes, the last one first
    process,    \* the goroutine of process.Run: none, running, or what it left in its channel
    exitErr     \* the error run returns

serviceVars == <<serverVars, runPc, signalled, cancelled, resources, deferred, process, exitErr>>
runVars == <<runPc, signalled, cancelled, resources, deferred, process, exitErr>>

RunCtxDone == signalled \/ cancelled

ServiceInit ==
    /\ ServerInit
    /\ runPc = "connect" /\ signalled = FALSE /\ cancelled = FALSE
    /\ resources = {} /\ deferred = <<>>
    /\ process = "none" /\ exitErr = "nil"

Unwind(err) == runPc' = "unwind" /\ exitErr' = err

\* run opens a resource and defers its Close.
Open(resource, next) ==
    /\ resources' = resources \cup {resource}
    /\ deferred' = <<resource>> \o deferred
    /\ runPc' = next
    /\ UNCHANGED exitErr

Fail(err) == Unwind(err) /\ UNCHANGED <<resources, deferred>>

Signal ==
    /\ ~signalled /\ runPc # "exited"
    /\ signalled' = TRUE
    /\ UNCHANGED <<serverVars, runPc, cancelled, resources, deferred, process, exitErr>>

\* connectStorage: a failed ping, a timeout or a signal closes the handle again.
ConnectStorage ==
    /\ runPc = "connect"
    /\ Open("storage", "topic") \/ Fail("connect")
    /\ UNCHANGED <<serverVars, signalled, cancelled, process>>

\* EnsureTopic: a cancelled start is not an error.
PrepareTopic ==
    /\ runPc = "topic"
    /\ \/ runPc' = "create" /\ UNCHANGED <<exitErr, resources, deferred>>
       \/ signalled /\ Fail("nil")
       \/ Fail("topic")
    /\ UNCHANGED <<serverVars, signalled, cancelled, process>>

\* NewProducer or NewConsumer, then scheduler.New or storer.New.
CreateClient ==
    /\ runPc = "create" /\ "kafka" \notin resources
    /\ Open("kafka", "create")
    /\ UNCHANGED <<serverVars, signalled, cancelled, process>>
CreateProcess ==
    /\ runPc = "create" /\ "kafka" \in resources
    /\ \/ Fail("create") /\ UNCHANGED <<process, startPc>>
       \/ /\ runPc' = "select" /\ process' = "running" /\ startPc' = "entry"
          /\ UNCHANGED <<exitErr, resources, deferred>>
    /\ UNCHANGED <<signalled, cancelled, serving, serveErr, stopErr, startErr, handled>>

\* process.Run ends with its context, or fails.
ProcessReturns ==
    /\ process = "running"
    /\ process' = "failed" \/ (RunCtxDone /\ process' = "nil")
    /\ UNCHANGED <<serverVars, runPc, signalled, cancelled, resources, deferred, exitErr>>

ProcessEnded == process \in {"nil", "failed"}
ServerEnded == startPc = "returned"

\* Mutant: nobody tells the other component.
SelectFirstUncancelled(first) ==
    /\ runPc = "select"
    /\ IF first = "process" THEN ProcessEnded ELSE ServerEnded
    /\ runPc' = IF first = "process" THEN "awaitServer" ELSE "awaitProcess"
    /\ UNCHANGED <<serverVars, signalled, cancelled, resources, deferred, process, exitErr>>

\* RunWithServer: whichever component stops first cancels the other.
SelectFirst(first) ==
    /\ runPc = "select"
    /\ IF first = "process" THEN ProcessEnded ELSE ServerEnded
    /\ cancelled' = TRUE
    /\ runPc' = IF first = "process" THEN "awaitServer" ELSE "awaitProcess"
    /\ UNCHANGED <<serverVars, signalled, resources, deferred, process, exitErr>>

\* ... and awaits it; the error of the first one wins.
AwaitOther(first) ==
    /\ runPc = IF first = "process" THEN "awaitServer" ELSE "awaitProcess"
    /\ ProcessEnded /\ ServerEnded
    /\ LET errs == IF first = "process" THEN <<process, startErr>> ELSE <<startErr, process>>
       IN  Unwind(IF errs[1] # "nil" THEN errs[1] ELSE errs[2])
    /\ UNCHANGED <<serverVars, signalled, cancelled, resources, deferred, process>>

\* Mutant: the deferred functions stop with the first one.
CloseFirst ==
    /\ runPc = "unwind" /\ deferred # <<>>
    /\ resources' = resources \ {Head(deferred)}
    /\ deferred' = <<>>
    /\ UNCHANGED <<serverVars, runPc, signalled, cancelled, process, exitErr>>

\* A deferred Close; its error is only logged.
Close ==
    /\ runPc = "unwind" /\ deferred # <<>>
    /\ resources' = resources \ {Head(deferred)}
    /\ deferred' = Tail(deferred)
    /\ UNCHANGED <<serverVars, runPc, signalled, cancelled, process, exitErr>>

Exit ==
    /\ runPc = "unwind" /\ deferred = <<>>
    /\ runPc' = "exited"
    /\ UNCHANGED <<serverVars, signalled, cancelled, resources, deferred, process, exitErr>>

Exited == runPc = "exited" /\ UNCHANGED serviceVars

MainStep ==
    \/ ConnectStorage \/ PrepareTopic \/ CreateClient \/ CreateProcess
    \/ \E first \in {"process", "server"} : SelectFirst(first) \/ AwaitOther(first)
    \/ Close \/ Exit

ServiceNext ==
    \/ MainStep \/ Signal \/ ProcessReturns \/ Exited
    \/ runPc # "exited" /\ UNCHANGED runVars
       /\ (ServerStep(RunCtxDone) \/ Listen \/ AcceptFails \/ \E r \in Requests : Arrive(r) \/ Answered(r))

ServiceSpec == ServiceInit /\ [][ServiceNext]_serviceVars

-----------------------------------------------------------------------------
\* The deferred closes of run never pull the storage or the Kafka client from
\* under the process that uses them.
ProcessHasItsResources == process = "running" => resources = {"storage", "kafka"}

\* When run returns, everything it opened is closed, of its goroutines process,
\* Start and ListenAndServe none is left, and no port is held.  The goroutine of a
\* request survives run only if serving failed or the deadline of Shutdown passed,
\* and run does not keep that to itself.
NothingLeftRunning ==
    runPc = "exited" =>
        /\ resources = {}
        /\ process # "running"
        /\ startPc \in {"idle", "returned"}
        /\ serving # "open" /\ (serving # "new" => serveErr # "none")
        /\ Active # {} => (stopErr = "deadline" \/ serveErr = "failed") /\ exitErr # "nil"

\* run returns nil only when nothing failed: whichever of the process and the
\* metrics server was selected first, the error of the other one is not lost.
NoErrorLost ==
    runPc = "exited" /\ exitErr = "nil" =>
        /\ process # "failed"
        /\ serveErr # "failed"
        /\ stopErr = "nil"

\* A signal ends the command, whatever stage of its start it meets and however
\* long a request or a scrape of the metrics hangs.
Stopped == runPc \in {"exited", "killed"}
SignalStopsService == signalled ~> Stopped

\* The command does not live on without one of its parts: a failed process, or a
\* server that cannot listen or accept, brings it down.
FailureStopsService == (process = "failed" \/ serveErr = "failed") ~> Stopped
=============================================================================
