------------------------------ MODULE Commands ------------------------------
(***************************************************************************)
(* The commands of the calendar from start to exit: calendar, or one of    *)
(* calendar_scheduler and calendar_storer.  Their run functions share the  *)
(* HTTP server, the signal context and the error they return.              *)
(***************************************************************************)
EXTENDS ServiceProcess

VARIABLES command, backend, db, handleOpen, query

A == INSTANCE ApiProcess

apiOnly == <<backend, db, handleOpen, query>>
apiRunVars == <<runPc, signalled, exitErr, apiOnly>>
serviceOnly == <<cancelled, resources, deferred, process>>
commandVars == <<command, serviceVars, apiOnly>>

CommandsInit == command \in {"calendar", "service"} /\ ServiceInit /\ A!ProcessInit

CommandsNext ==
    \/ command = "service" /\ ServiceNext /\ UNCHANGED <<command, apiOnly>>
    \/ command = "calendar" /\ A!ProcessNext /\ UNCHANGED <<command, serviceOnly>>

\* The goroutines are scheduled, the timeouts of storage and shutdown expire,
\* the process heeds its context; a request or a scrape may hang for ever, and
\* neither a failure nor a signal is owed.
CommandsSpec ==
    /\ CommandsInit /\ [][CommandsNext]_commandVars
    /\ WF_serviceVars(command = "service" /\ MainStep)
    /\ WF_serviceVars(command = "service" /\ ServerStep(RunCtxDone) /\ UNCHANGED runVars)
    /\ WF_serviceVars(command = "service" /\ RunCtxDone /\ ProcessReturns)
    /\ WF_commandVars(command = "calendar" /\ A!MainStep /\ UNCHANGED <<command, serviceOnly>>)
    /\ WF_serverVars(command = "calendar" /\ ServerStep(signalled) /\ UNCHANGED apiRunVars)
    /\ WF_serverVars(Listen)

-----------------------------------------------------------------------------
\* No deferred close takes a resource from its user: scheduler and storer have
\* their storage and Kafka client as long as they run, and a request of the API
\* finds the storage closed only if serving or Shutdown failed.
ResourcesOutliveUsers ==
    ProcessHasItsResources /\ (command = "calendar" => A!StorageOutlivesRequests)

\* When run returns, no port, resource or database handle is left and none of the
\* goroutines it started; a request outlives it only after a failed serve or a
\* Shutdown past its deadline, which run then reports.
NothingLeftOpen == NothingLeftRunning /\ (command = "calendar" => A!HandleClosed)

\* run returns nil only when nothing failed, in the process, in serving or in the
\* shutdown, and after every request that was accepted has been answered.
SuccessIsReal == NoErrorLost /\ (command = "calendar" => A!GracefulExit)

\* A signal ends the command, whatever stage of its start it meets and however
\* long a request hangs; and it does not live on without one of its parts.
CommandStops == SignalStopsService /\ FailureStopsService
=============================================================================
