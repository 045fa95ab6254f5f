----------------------------- MODULE ApiProcess -----------------------------
(***************************************************************************)
(* The calendar command: run connects the storage, serves the API until a  *)
(* signal or a failure, and closes the storage.  Each request works on the *)
(* storage in a goroutine of its own: sqlstorage hands out its *sql.DB     *)
(* under a lock and runs the query outside of it.                          *)
(***************************************************************************)
EXTENDS HttpServer

VARIABLES
    runPc,      \* the stage of run
    signalled,  \* the context of signal.NotifyContext is done
    backend,    \* config.Storage.Type
    db,         \* Storage.db is set
    handleOpen, \* the *sql.DB is open
    query,      \* how far the storage call of each request is
    exitErr     \* the error run returns

runVars == <<runPc, signalled, backend, db, handleOpen, query, exitErr>>
processVars == <<serverVars, runVars>>

ProcessInit ==
    /\ ServerInit
    /\ runPc = "connect" /\ signalled = FALSE /\ exitErr = "nil"
    /\ backend \in {"memory", "sql", "other"}
    /\ db = FALSE /\ handleOpen = FALSE
    /\ query = [r \in Requests |-> "none"]

\* newStorage: only the SQL storage connects, and it closes the handle of a
\* failed ping.
NewStorage ==
    /\ runPc = "connect"
    /\ \/ /\ backend \in {"memory", "sql"}
          /\ runPc' = "start"
          /\ db' = (backend = "sql") /\ handleOpen' = (backend = "sql")
          /\ UNCHANGED exitErr
       \/ /\ backend \in {"sql", "other"}
          /\ runPc' = "exited" /\ exitErr' = "connect"
          /\ UNCHANGED <<db, handleOpen>>
    /\ UNCHANGED <<serverVars, signalled, backend, query>>

\* A signal has its default effect until NotifyContext, and again while the
\* storage is closed: the deferred cancel of the context has run by then.
Signal ==
    /\ \/ runPc \in {"connect", "close"} /\ runPc' = "killed" /\ UNCHANGED signalled
       \/ runPc \in {"start", "serve"} /\ ~signalled /\ signalled' = TRUE /\ UNCHANGED runPc
    /\ UNCHANGED <<serverVars, backend, db, handleOpen, query, exitErr>>

StartServer ==
    /\ runPc = "start"
    /\ runPc' = "serve" /\ startPc' = "entry"
    /\ UNCHANGED <<serving, serveErr, stopErr, startErr, handled,
                   signalled, backend, db, handleOpen, query, exitErr>>

ServerReturned ==
    /\ runPc = "serve" /\ startPc = "returned"
    /\ runPc' = "close" /\ exitErr' = startErr
    /\ UNCHANGED <<serverVars, signalled, backend, db, handleOpen, query>>

\* database(): the handle, or ErrNotConnected.
GetDatabase(r) ==
    /\ handled[r] = "active" /\ query[r] = "none"
    /\ query' = [query EXCEPT ![r] = IF backend = "memory" \/ db THEN "started" ELSE "refused"]
    /\ UNCHANGED <<serverVars, runPc, signalled, backend, db, handleOpen, exitErr>>

\* The statement runs on the handle, if it is still open.
RunQuery(r) ==
    /\ query[r] = "started"
    /\ query' = [query EXCEPT ![r] = IF backend = "memory" \/ handleOpen THEN "done" ELSE "refused"]
    /\ UNCHANGED <<serverVars, runPc, signalled, backend, db, handleOpen, exitErr>>

Respond(r) == query[r] \in {"done", "refused"} /\ Answered(r) /\ UNCHANGED runVars

\* closeStorage: Close takes the pointer under the lock, then closes the handle.
CloseStorage ==
    /\ runPc = "close"
    /\ \/ db /\ db' = FALSE /\ UNCHANGED <<runPc, handleOpen>>
       \/ ~db /\ runPc' = "exited" /\ handleOpen' = FALSE /\ UNCHANGED db
    /\ UNCHANGED <<serverVars, signalled, backend, query, exitErr>>

Ended == runPc \in {"exited", "killed"}
MainStep == NewStorage \/ StartServer \/ ServerReturned \/ CloseStorage
RequestStep(r) ==
    GetDatabase(r) \/ RunQuery(r) \/ Respond(r) \/ (Arrive(r) /\ UNCHANGED runVars)

ProcessNext ==
    \/ MainStep \/ Signal
    \/ ~Ended /\ (\/ \E r \in Requests : RequestStep(r)
                  \/ (ServerStep(signalled) \/ Listen \/ AcceptFails) /\ UNCHANGED runVars)
    \/ Ended /\ UNCHANGED processVars

ProcessSpec == ProcessInit /\ [][ProcessNext]_processVars

-----------------------------------------------------------------------------
\* A graceful exit is graceful: when run returns nil, every request that was
\* accepted has been answered, none of them found the storage closed, and
\* serving did not fail.
GracefulExit ==
    runPc = "exited" /\ exitErr = "nil" =>
        /\ Active = {}
        /\ \A r \in Requests : query[r] # "refused"
        /\ serveErr # "failed"

\* The storage is only closed under a request when serving or Shutdown failed.
StorageOutlivesRequests ==
    \A r \in Requests : query[r] = "refused" => startErr # "nil"

\* The database handle does not survive run, whichever way run ends.
HandleClosed == runPc = "exited" => ~handleOpen /\ ~db
=============================================================================
