--------------------------- MODULE CommandsProofs ---------------------------
(***************************************************************************)
(* What the commands promise at their exit, proved for any set of          *)
(* requests.  None of the three invariants of Commands is inductive: each  *)
(* speaks of one moment, and rests on what run, Server.Start and the       *)
(* requests have done by then.  CommandInv says so stage by stage, for the *)
(* HTTP server (ServerInv), for calendar_scheduler and calendar_storer     *)
(* (ServiceInv) and for calendar (ApiInv).                                 *)
(***************************************************************************)
EXTENDS Commands, SequenceTheorems, TLAPS

ServerTypes ==
    /\ startPc \in {"idle", "entry", "select", "shutdown", "drain", "returned"}
    /\ serving \in {"new", "starting", "open", "shut"}
    /\ serveErr \in {"none", "failed", "closed"}
    /\ stopErr \in {"nil", "deadline"}
    /\ startErr \in {"nil", "failed", "deadline"}
    /\ handled \in [Requests -> {"waiting", "active", "answered"}]

\* How far the listener is at each stage of Start.
ListenerStage ==
    /\ startPc \in {"idle", "entry"} => serving = "new"
    /\ startPc = "select" =>
          \/ serving \in {"starting", "open"} /\ serveErr = "none"
          \/ serving = "shut" /\ serveErr = "failed"
    /\ startPc \in {"shutdown", "drain"} => serving = "shut"
    /\ startPc = "returned" => serving = "new" \/ (serving = "shut" /\ serveErr # "none")
    /\ serving = "new" => serveErr = "none" /\ Active = {}

\* What Stop and Start have reported at each stage, and what a nil stands for.
ReportStage ==
    /\ startPc \notin {"drain", "returned"} => stopErr = "nil"
    /\ startPc # "returned" => startErr = "nil"
    /\ startPc = "drain" /\ stopErr = "nil" => Active = {}
    /\ startPc = "returned" /\ startErr = "nil" =>
          Active = {} /\ stopErr = "nil" /\ serveErr # "failed"
    /\ startErr # "nil" => stopErr = "deadline" \/ serveErr = "failed"

ServerInv == ServerTypes /\ ListenerStage /\ ReportStage

\* The resources run holds are those whose close it has deferred.
Holding(set, closes) == resources = set /\ deferred = closes

ServiceInv ==
    /\ runPc \in {"connect", "topic", "create", "select", "awaitServer",
                  "awaitProcess", "unwind", "exited"}
    /\ process \in {"none", "running", "nil", "failed"}
    /\ runPc = "connect" => Holding({}, <<>>)
    /\ runPc = "topic" => Holding({"storage"}, <<"storage">>)
    /\ runPc = "create" =>
          \/ Holding({"storage"}, <<"storage">>)
          \/ Holding({"storage", "kafka"}, <<"kafka", "storage">>)
    /\ runPc \in {"connect", "topic", "create"} =>
          process = "none" /\ startPc = "idle" /\ exitErr = "nil"
    /\ runPc \in {"select", "awaitServer", "awaitProcess"} =>
          /\ Holding({"storage", "kafka"}, <<"kafka", "storage">>)
          /\ startPc # "idle" /\ process # "none"
    /\ runPc = "awaitServer" => process # "running"
    /\ runPc = "awaitProcess" => startPc = "returned"
    /\ runPc \in {"unwind", "exited"} =>
          /\ process # "running" /\ startPc \in {"idle", "returned"}
          /\ exitErr = "nil" => process # "failed" /\ startErr = "nil"
    /\ runPc = "unwind" =>
          \/ Holding({}, <<>>)
          \/ Holding({"storage"}, <<"storage">>)
          \/ Holding({"storage", "kafka"}, <<"kafka", "storage">>)
    /\ runPc = "exited" => resources = {}

ApiInv ==
    /\ runPc \in {"connect", "start", "serve", "close", "exited", "killed"}
    /\ resources = {} /\ process = "none"
    /\ backend \in {"memory", "sql", "other"}
    /\ db \in BOOLEAN /\ handleOpen \in BOOLEAN
    /\ query \in [Requests -> {"none", "started", "done", "refused"}]
    /\ runPc \in {"connect", "start"} => startPc = "idle"
    /\ runPc = "connect" => ~db /\ ~handleOpen
    /\ runPc \in {"start", "serve"} =>
          backend # "other" /\ db = (backend = "sql") /\ handleOpen = (backend = "sql")
    /\ runPc = "close" => startPc = "returned" /\ exitErr = startErr
    /\ runPc = "exited" =>
          /\ ~db /\ ~handleOpen
          /\ \/ startPc = "idle" /\ exitErr # "nil"
             \/ startPc = "returned" /\ exitErr = startErr
    /\ \A r \in Requests :
          /\ query[r] = "started" => handled[r] = "active"
          /\ handled[r] = "waiting" => query[r] = "none"
          /\ query[r] = "refused" => startErr # "nil"

CommandInv ==
    /\ ServerInv
    /\ command \in {"calendar", "service"}
    /\ command = "service" => ServiceInv
    /\ command = "calendar" => ApiInv

-----------------------------------------------------------------------------
\* The HTTP server on its own: every step of Start and Stop, of the serving
\* goroutine and of the requests keeps its stages and reports in step.
LEMMA ServerKeepsInv ==
    ASSUME NEW ctxDone, ServerInv,
           \/ ServerStep(ctxDone) \/ Listen \/ AcceptFails
           \/ \E r \in Requests : Arrive(r) \/ Answered(r)
    PROVE  ServerInv'
<1> USE DEF ServerInv, ServerTypes, ListenerStage, ReportStage, Active
<1>1. CASE Start(ctxDone)
  BY <1>1 DEF Start, StartReturns
<1>2. CASE Select(ctxDone)
  BY <1>2 DEF Select, StartReturns, normalizeServerError
<1>3. CASE Stop
  BY <1>3 DEF Stop
<1>4. CASE Drain
  BY <1>4 DEF Drain, StartReturns, normalizeServerError
<1>5. CASE Listen
  BY <1>5 DEF Listen
<1>6. CASE AcceptFails
  BY <1>6 DEF AcceptFails
<1>7. ASSUME NEW r \in Requests, Arrive(r)
      PROVE  ServerInv'
  BY <1>7 DEF Arrive
<1>8. ASSUME NEW r \in Requests, Answered(r)
      PROVE  ServerInv'
  <2>1. Active' \subseteq Active
    BY <1>8 DEF Answered
  <2> QED
    BY <1>8, <2>1 DEF Answered
<1> QED
  BY <1>1, <1>2, <1>3, <1>4, <1>5, <1>6, <1>7, <1>8 DEF ServerStep

\* A step that leaves the server alone keeps its invariant.
LEMMA ServerUnchanged == ServerInv /\ UNCHANGED serverVars => ServerInv'
BY DEF ServerInv, ServerTypes, ListenerStage, ReportStage, Active, serverVars

\* The deferred closes of run, last in first out.
LEMMA DeferredCloses ==
    /\ <<"storage">> \o <<>> = <<"storage">>
    /\ <<"kafka">> \o <<"storage">> = <<"kafka", "storage">>
    /\ Head(<<"storage">>) = "storage" /\ Tail(<<"storage">>) = <<>>
    /\ Head(<<"kafka", "storage">>) = "kafka" /\ Tail(<<"kafka", "storage">>) = <<"storage">>
    /\ <<"storage">> # <<>> /\ <<"kafka", "storage">> # <<>>
<1> DEFINE S == {"kafka", "storage"}
           both == <<"kafka">> \o <<"storage">>
<1>1. both \in Seq(S) /\ Len(both) = 2 /\ both[1] = "kafka" /\ both[2] = "storage"
  OBVIOUS
<1>2. <<"kafka", "storage">> \in Seq(S) /\ Len(<<"kafka", "storage">>) = 2
  OBVIOUS
<1>3. \A i \in 1 .. Len(both) : both[i] = <<"kafka", "storage">>[i]
  BY <1>1
<1>4. both = <<"kafka", "storage">>
  <2> HIDE DEF both, S
  <2> QED
    BY <1>1, <1>2, <1>3, SeqEqual
<1> QED
  BY <1>4

\* Every step of calendar_scheduler and calendar_storer, main goroutine and others.
LEMMA ServiceStep ==
    ASSUME ServerInv, ServiceInv, ServiceNext
    PROVE  ServerInv' /\ ServiceInv'
<1> USE DEF ServiceInv, Holding
<1>1. CASE ConnectStorage
  BY <1>1, ServerUnchanged, DeferredCloses DEF ConnectStorage, Open, Fail, Unwind, serverVars
<1>2. CASE PrepareTopic
  BY <1>2, ServerUnchanged DEF PrepareTopic, Fail, Unwind, serverVars, ServerInv, ReportStage
<1>3. CASE CreateClient
  BY <1>3, ServerUnchanged, DeferredCloses DEF CreateClient, Open, serverVars
<1>4. CASE CreateProcess
  <2>1. ServerInv'
    BY <1>4 DEF CreateProcess, ServerInv, ServerTypes, ListenerStage, ReportStage, Active
  <2> QED
    BY <1>4, <2>1 DEF CreateProcess, Fail, Unwind
<1>5. ASSUME NEW first \in {"process", "server"}, SelectFirst(first)
      PROVE  ServerInv' /\ ServiceInv'
  BY <1>5, ServerUnchanged DEF SelectFirst, ProcessEnded, ServerEnded, serverVars
<1>6. ASSUME NEW first \in {"process", "server"}, AwaitOther(first)
      PROVE  ServerInv' /\ ServiceInv'
  BY <1>6, ServerUnchanged DEF AwaitOther, ProcessEnded, ServerEnded, Unwind, serverVars
<1>7. CASE Close
  BY <1>7, ServerUnchanged, DeferredCloses DEF Close, serverVars
<1>8. CASE Exit
  BY <1>8, ServerUnchanged, DeferredCloses DEF Exit, serverVars
<1>9. CASE Signal
  BY <1>9, ServerUnchanged DEF Signal, serverVars
<1>10. CASE ProcessReturns
  BY <1>10, ServerUnchanged DEF ProcessReturns, serverVars
<1>11. CASE Exited
  BY <1>11, ServerUnchanged DEF Exited, serviceVars, serverVars
<1>12. ASSUME UNCHANGED runVars,
              \/ ServerStep(RunCtxDone) \/ Listen \/ AcceptFails
              \/ \E r \in Requests : Arrive(r) \/ Answered(r)
       PROVE  ServerInv' /\ ServiceInv'
  <2>1. ServerInv'
    BY <1>12, ServerKeepsInv
  <2>2. /\ startPc = "idle" => startPc' = "idle"
        /\ startPc = "returned" => startPc' = "returned"
        /\ startPc \in {"idle", "returned"} => startErr' = startErr
        /\ startPc # "idle" => startPc' # "idle"
    BY <1>12 DEF ServerStep, Start, Select, Stop, Drain, Listen, AcceptFails, Arrive, Answered,
                 StartReturns
  <2> QED
    BY <1>12, <2>1, <2>2 DEF runVars
<1> QED
  BY <1>1, <1>2, <1>3, <1>4, <1>5, <1>6, <1>7, <1>8, <1>9, <1>10, <1>11, <1>12
     DEF ServiceNext, MainStep

-----------------------------------------------------------------------------
\* The steps of the HTTP server are the same whichever command runs it.
LEMMA SameServer ==
    ASSUME NEW ctxDone, NEW r \in Requests
    PROVE  /\ A!ServerStep(ctxDone) <=> ServerStep(ctxDone)
           /\ A!Listen <=> Listen
           /\ A!AcceptFails <=> AcceptFails
           /\ A!Arrive(r) <=> Arrive(r)
           /\ A!Answered(r) <=> Answered(r)
           /\ A!Active = Active
<1>1. A!Start(ctxDone) <=> Start(ctxDone)
  BY DEF A!Start, Start, A!StartReturns, StartReturns
<1>2. A!Select(ctxDone) <=> Select(ctxDone)
  BY DEF A!Select, Select, A!StartReturns, StartReturns, A!normalizeServerError,
         normalizeServerError
<1>3. A!Active = Active
  BY DEF A!Active, Active
<1>4. A!Stop <=> Stop
  BY <1>3 DEF A!Stop, Stop
<1>5. A!Drain <=> Drain
  BY DEF A!Drain, Drain, A!StartReturns, StartReturns, A!normalizeServerError,
         normalizeServerError
<1>6. (A!Listen <=> Listen) /\ (A!AcceptFails <=> AcceptFails)
  BY DEF A!Listen, Listen, A!AcceptFails, AcceptFails
<1>7. (A!Arrive(r) <=> Arrive(r)) /\ (A!Answered(r) <=> Answered(r))
  BY DEF A!Arrive, Arrive, A!Answered, Answered
<1> QED
  BY <1>1, <1>2, <1>3, <1>4, <1>5, <1>6, <1>7 DEF A!ServerStep, ServerStep

\* Every step of calendar: its main goroutine, its server and its requests.
LEMMA ApiStep ==
    ASSUME ServerInv, ApiInv, A!ProcessNext, UNCHANGED serviceOnly
    PROVE  ServerInv' /\ ApiInv'
<1> USE DEF ApiInv, serviceOnly
<1>1. CASE A!NewStorage
  <2>1. ServerInv' /\ UNCHANGED <<startPc, startErr, handled, backend, query>>
    BY <1>1, ServerUnchanged DEF A!NewStorage, A!serverVars, serverVars
  <2>2. CASE runPc' = "start"
    <3>1. \/ backend = "memory" /\ db' = FALSE /\ handleOpen' = FALSE
          \/ backend = "sql" /\ db' = TRUE /\ handleOpen' = TRUE
      BY <1>1, <2>2, Zenon DEF A!NewStorage
    <3> QED
      BY <1>1, <2>1, <2>2, <3>1 DEF A!NewStorage
  <2>3. CASE runPc' = "exited"
    <3>1. db' = FALSE /\ handleOpen' = FALSE
      BY <1>1, <2>3, Zenon DEF A!NewStorage
    <3> QED
      BY <1>1, <2>1, <2>3, <3>1 DEF A!NewStorage
  <2> QED
    BY <1>1, <2>2, <2>3 DEF A!NewStorage
<1>2. CASE A!StartServer
  <2>1. ServerInv'
    BY <1>2 DEF A!StartServer, ServerInv, ServerTypes, ListenerStage, ReportStage, Active
  <2> QED
    BY <1>2, <2>1 DEF A!StartServer
<1>3. CASE A!ServerReturned
  BY <1>3, ServerUnchanged DEF A!ServerReturned, A!serverVars, serverVars
<1>4. CASE A!CloseStorage
  <2>1. ServerInv'
    BY <1>4, ServerUnchanged DEF A!CloseStorage, A!serverVars, serverVars
  <2>2. db' = FALSE
    BY <1>4, Zenon DEF A!CloseStorage
  <2>3. handleOpen' \in BOOLEAN /\ (runPc' = "exited" => handleOpen' = FALSE)
    BY <1>4 DEF A!CloseStorage
  <2> QED
    BY <1>4, <2>1, <2>2, <2>3 DEF A!CloseStorage, A!serverVars
<1>5. CASE A!Signal
  BY <1>5, ServerUnchanged DEF A!Signal, A!serverVars, serverVars
<1>6. CASE A!Ended /\ UNCHANGED A!processVars
  BY <1>6, ServerUnchanged DEF A!processVars, A!runVars, A!serverVars, serverVars
<1>7. ASSUME NEW r \in Requests, A!GetDatabase(r), ~A!Ended
      PROVE  ServerInv' /\ ApiInv'
  <2>1. ServerInv'
    BY <1>7, ServerUnchanged DEF A!GetDatabase, A!serverVars, serverVars
  <2>2. runPc \notin {"exited", "killed"} /\ r \in Active
    BY <1>7 DEF A!GetDatabase, A!Ended, Active
  <2>3. runPc = "serve" \/ startErr # "nil"
    BY <2>2 DEF ServerInv, ListenerStage, ReportStage
  <2> QED
    BY <1>7, <2>1, <2>3 DEF A!GetDatabase, A!serverVars
<1>8. ASSUME NEW r \in Requests, A!RunQuery(r), ~A!Ended
      PROVE  ServerInv' /\ ApiInv'
  <2>1. ServerInv'
    BY <1>8, ServerUnchanged DEF A!RunQuery, A!serverVars, serverVars
  <2>2. runPc \notin {"exited", "killed"} /\ r \in Active
    BY <1>8 DEF A!RunQuery, A!Ended, Active
  <2>3. runPc = "serve" \/ startErr # "nil"
    BY <2>2 DEF ServerInv, ListenerStage, ReportStage
  <2> QED
    BY <1>8, <2>1, <2>3 DEF A!RunQuery, A!serverVars
<1>9. ASSUME NEW r \in Requests, A!Respond(r)
      PROVE  ServerInv' /\ ApiInv'
  <2>1. Answered(r) /\ query[r] \in {"done", "refused"} /\ UNCHANGED A!runVars
    BY <1>9, SameServer DEF A!Respond
  <2>2. ServerInv'
    BY <2>1, ServerKeepsInv
  <2> QED
    BY <2>1, <2>2 DEF Answered, A!runVars, ServerInv, ServerTypes
<1>10. ASSUME NEW r \in Requests, A!Arrive(r), UNCHANGED A!runVars
       PROVE  ServerInv' /\ ApiInv'
  <2>1. Arrive(r)
    BY <1>10, SameServer
  <2>2. ServerInv'
    BY <2>1, ServerKeepsInv
  <2> QED
    BY <1>10, <2>1, <2>2 DEF Arrive, A!runVars, ServerInv, ServerTypes
<1>11. ASSUME A!ServerStep(signalled) \/ A!Listen \/ A!AcceptFails, UNCHANGED A!runVars
       PROVE  ServerInv' /\ ApiInv'
  <2>1. ServerStep(signalled) \/ Listen \/ AcceptFails
    BY <1>11 DEF A!ServerStep, A!Start, A!StartReturns, A!Select, A!normalizeServerError,
       A!Stop, A!Active, A!Drain, A!Listen, A!AcceptFails, ServerStep, Start, StartReturns,
       Select, normalizeServerError, Stop, Active, Drain, Listen, AcceptFails
  <2>2. ServerInv'
    BY <2>1, ServerKeepsInv
  <2>3. /\ startPc \in {"idle", "returned"} => UNCHANGED <<startPc, startErr>>
        /\ UNCHANGED handled
        /\ startErr # "nil" => UNCHANGED startErr
    BY <2>1 DEF ServerStep, Start, Select, Stop, Drain, Listen, AcceptFails, StartReturns,
       ServerInv, ReportStage
  <2> QED
    BY <1>11, <2>2, <2>3 DEF A!runVars
<1> QED
  BY <1>1, <1>2, <1>3, <1>4, <1>5, <1>6, <1>7, <1>8, <1>9, <1>10, <1>11
     DEF A!ProcessNext, A!MainStep, A!RequestStep

-----------------------------------------------------------------------------
\* Whichever command was started, each stage of it finds what the stages before
\* it left: the invariant that the three theorems below read off.
LEMMA CommandInvariant == CommandsSpec => []CommandInv
<1>1. CommandsInit => CommandInv
  <2> SUFFICES ASSUME CommandsInit
               PROVE  CommandInv
    OBVIOUS
  <2> USE DEF CommandsInit, ServiceInit, ServerInit
  <2>1. ServerInv
    BY DEF ServerInv, ServerTypes, ListenerStage, ReportStage, Active
  <2>2. ServiceInv
    BY DEF ServiceInv, Holding
  <2>3. ApiInv
    BY DEF ApiInv, A!ProcessInit
  <2> QED
    BY <2>1, <2>2, <2>3 DEF CommandInv
<1>2. CommandInv /\ [CommandsNext]_commandVars => CommandInv'
  <2> SUFFICES ASSUME CommandInv, [CommandsNext]_commandVars
               PROVE  CommandInv'
    OBVIOUS
  <2>1. CASE command = "service" /\ ServiceNext /\ UNCHANGED <<command, apiOnly>>
    BY <2>1, ServiceStep DEF CommandInv
  <2>2. CASE command = "calendar" /\ A!ProcessNext /\ UNCHANGED <<command, serviceOnly>>
    BY <2>2, ApiStep DEF CommandInv
  <2>3. CASE UNCHANGED commandVars
    <3>1. ServerInv'
      BY <2>3, ServerUnchanged DEF CommandInv, commandVars, serviceVars
    <3> QED
      BY <2>3, <3>1 DEF CommandInv, ServiceInv, Holding, ApiInv, commandVars, serviceVars,
                        serverVars, apiOnly
  <2> QED
    BY <2>1, <2>2, <2>3 DEF CommandsNext
<1> QED
  BY <1>1, <1>2, PTL DEF CommandsSpec

\* The deferred closes of run never take a resource from its user.  A process
\* runs only between the last Open and the first Close, because AwaitOther waits
\* for it; a request that GetDatabase or RunQuery refuses is one that is still
\* active after Start returned, and then Start did not return nil.
THEOREM ResourcesAlwaysOutliveUsers == CommandsSpec => []ResourcesOutliveUsers
<1>1. CommandInv => ResourcesOutliveUsers
  BY DEF CommandInv, ServiceInv, Holding, ApiInv, ResourcesOutliveUsers,
         ProcessHasItsResources, A!StorageOutlivesRequests
<1> QED
  BY <1>1, CommandInvariant, PTL

\* Whichever way run returns, no port, resource or handle survives it and neither
\* process, Start nor ListenAndServe goes on: the stages before "exited" leave
\* Start idle or returned, and a Start that returned left the listener unopened or
\* shut and its result delivered.  A request that goes on is one that Shutdown
\* gave up on, or that a failed serve left behind, and then run returns an error.
THEOREM NothingIsLeftOpen == CommandsSpec => []NothingLeftOpen
<1>1. CommandInv => NothingLeftOpen
  <2> SUFFICES ASSUME CommandInv, runPc = "exited"
               PROVE  NothingLeftRunning /\ (command = "calendar" => A!HandleClosed)
    BY DEF NothingLeftOpen, NothingLeftRunning, A!HandleClosed
  <2>1. Active # {} => (stopErr = "deadline" \/ serveErr = "failed") /\ exitErr # "nil"
    <3>1. startPc \in {"idle", "returned"} /\ (exitErr = "nil" => startErr = "nil")
      BY DEF CommandInv, ServiceInv, ApiInv, ServerInv, ReportStage
    <3>2. Active # {} => startPc = "returned" /\ startErr # "nil"
      BY <3>1 DEF CommandInv, ServerInv, ListenerStage, ReportStage
    <3> QED
      BY <3>1, <3>2 DEF CommandInv, ServerInv, ReportStage
  <2> QED
    BY <2>1 DEF CommandInv, ServerInv, ListenerStage, ServiceInv, ApiInv,
       NothingLeftRunning, A!HandleClosed
<1> QED
  BY <1>1, CommandInvariant, PTL

\* A nil from run is earned: it means that the process, the serving goroutine and
\* Shutdown all ended without an error and that no accepted request is unanswered
\* or was refused.
THEOREM SuccessIsAlwaysReal == CommandsSpec => []SuccessIsReal
<1>1. CommandInv => SuccessIsReal
  <2> SUFFICES ASSUME CommandInv, runPc = "exited", exitErr = "nil"
               PROVE  /\ process # "failed" /\ serveErr # "failed" /\ stopErr = "nil"
                      /\ command = "calendar" =>
                            A!Active = {} /\ \A r \in Requests : query[r] # "refused"
    BY DEF SuccessIsReal, NoErrorLost, A!GracefulExit
  <2>1. startErr = "nil" /\ startPc \in {"idle", "returned"} /\ process # "failed"
    BY DEF CommandInv, ServiceInv, ApiInv, ServerInv, ReportStage
  <2>2. Active = {} /\ serveErr # "failed" /\ stopErr = "nil"
    BY <2>1 DEF CommandInv, ServerInv, ListenerStage, ReportStage
  <2> QED
    BY <2>1, <2>2 DEF CommandInv, ApiInv, A!Active, Active
<1> QED
  BY <1>1, CommandInvariant, PTL
=============================================================================
