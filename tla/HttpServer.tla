----------------------------- MODULE HttpServer -----------------------------
(***************************************************************************)
(* Server.Start and Server.Stop, which the calendar API (internal/server/  *)
(* http) and the metrics endpoint (internal/monitoring) share word for     *)
(* word: a goroutine listens and serves, the caller selects between its    *)
(* result and the end of the context, then shuts down within a timeout.    *)
(* net/http is modelled from that use: Shutdown closes the listener, then  *)
(* waits for the requests in progress or for its deadline; the requests    *)
(* run in goroutines of their own and outlive both.                        *)
(***************************************************************************)
EXTENDS Naturals, FiniteSets

CONSTANT Requests   \* the HTTP requests that may arrive

VARIABLES
    startPc,    \* Start: idle, entry, select, shutdown, drain, returned
    serving,    \* http.Server: new, starting, open, shut; the listener is open in "open"
    serveErr,   \* the channel of ListenAndServe's result, "none" while empty
    stopErr,    \* the result of Stop
    startErr,   \* the result of Start
    handled     \* what became of each request: waiting, active, answered

serverVars == <<startPc, serving, serveErr, stopErr, startErr, handled>>

Active == {r \in Requests : handled[r] = "active"}

ServerInit ==
    /\ startPc = "idle" /\ serving = "new" /\ serveErr = "none"
    /\ stopErr = "nil" /\ startErr = "nil"
    /\ handled = [r \in Requests |-> "waiting"]

normalizeServerError(err) == IF err = "closed" THEN "nil" ELSE err

StartReturns(err) == startPc' = "returned" /\ startErr' = err

\* A context that is already done starts nothing.
Start(ctxDone) ==
    /\ startPc = "entry"
    /\ \/ ctxDone /\ StartReturns("nil") /\ UNCHANGED serving
       \/ ~ctxDone /\ startPc' = "select" /\ serving' = "starting" /\ UNCHANGED startErr
    /\ UNCHANGED <<serveErr, stopErr, handled>>

\* ListenAndServe binds the address, or fails, or finds the server shut down.
Listen ==
    /\ serving \in {"starting", "shut"} /\ serveErr = "none"
    /\ \/ serving = "starting" /\ serving' = "open" /\ UNCHANGED serveErr
       \/ serving = "starting" /\ serving' = "shut" /\ serveErr' = "failed"
       \/ serving = "shut" /\ serveErr' = "closed" /\ UNCHANGED serving
    /\ UNCHANGED <<startPc, stopErr, startErr, handled>>

\* Accepting connections fails for good.
AcceptFails ==
    /\ serving = "open"
    /\ serving' = "shut" /\ serveErr' = "failed"
    /\ UNCHANGED <<startPc, stopErr, startErr, handled>>

Arrive(r) ==
    /\ serving = "open" /\ handled[r] = "waiting"
    /\ handled' = [handled EXCEPT ![r] = "active"]
    /\ UNCHANGED <<startPc, serving, serveErr, stopErr, startErr>>

Answered(r) ==
    /\ handled[r] = "active"
    /\ handled' = [handled EXCEPT ![r] = "answered"]
    /\ UNCHANGED <<startPc, serving, serveErr, stopErr, startErr>>

\* The select of Start: the server stopped by itself, or the context is done
\* and Shutdown closes the listener.
Select(ctxDone) ==
    /\ startPc = "select"
    /\ \/ /\ serveErr # "none"
          /\ StartReturns(normalizeServerError(serveErr))
          /\ UNCHANGED serving
       \/ /\ ctxDone
          /\ startPc' = "shutdown" /\ serving' = "shut"
          /\ UNCHANGED startErr
    /\ UNCHANGED <<serveErr, stopErr, handled>>

\* Mutant: Shutdown does not wait for the requests in progress.
StopAtOnce ==
    /\ startPc = "shutdown"
    /\ stopErr' = "nil" /\ startPc' = "drain"
    /\ UNCHANGED <<serving, serveErr, startErr, handled>>

\* Shutdown ends with the last request, or with shutdownTimeout.
Stop ==
    /\ startPc = "shutdown"
    /\ \/ Active = {} /\ stopErr' = "nil"
       \/ stopErr' = "deadline"
    /\ startPc' = "drain"
    /\ UNCHANGED <<serving, serveErr, startErr, handled>>

\* Mutant: the result of serving is dropped once Shutdown succeeded.
DrainForgetful ==
    /\ startPc = "drain" /\ serveErr # "none"
    /\ StartReturns(stopErr)
    /\ UNCHANGED <<serving, serveErr, stopErr, handled>>

\* The serving goroutine is awaited; the error of Stop comes first.
Drain ==
    /\ startPc = "drain" /\ serveErr # "none"
    /\ StartReturns(IF stopErr # "nil" THEN stopErr ELSE normalizeServerError(serveErr))
    /\ UNCHANGED <<serving, serveErr, stopErr, handled>>

ServerStep(ctxDone) == Start(ctxDone) \/ Select(ctxDone) \/ Stop \/ Drain
=============================================================================
