------------------------- MODULE ConcurrentExercises -------------------------
(***************************************************************************)
(* The three programs of the course that run goroutines of their own: Run  *)
(* of hw05, ExecutePipeline of hw06 and the session of the hw11 client.    *)
(* They never meet: a behaviour is one of them, and the others stay where  *)
(* they start.                                                             *)
(***************************************************************************)
EXTENDS ParallelRun, Sequences

CONSTANTS Stages, InputLength       \* of ExecutePipeline
CONSTANTS InputChunks, PeerChunks   \* of the telnet session

ASSUME ExercisesAssumption ==
    Stages \in Nat /\ InputLength \in Nat /\ InputChunks \in Nat /\ PeerChunks \in Nat

VARIABLES program,
          st, val, closed, next, inputClosed, done, lateReads, reading, output,
          pc, interrupted, inputLeft, input, written, peerSent, wire, printed,
          sink, peerClosed, peerStalled, broken, open, sendDone, receiveDone, transferErr, operation, message

P == INSTANCE Pipeline
T == INSTANCE TelnetSession WITH output <- printed

pipelineVars == <<st, val, closed, next, inputClosed, done, lateReads, reading, output>>
telnetVars == <<pc, interrupted, inputLeft, input, written, peerSent, wire, printed,
                sink, peerClosed, peerStalled, broken, open, sendDone, receiveDone, transferErr, operation, message>>
allVars == <<program, vars, pipelineVars, telnetVars>>

RunsParallel == program = "hw05" /\ UNCHANGED <<program, pipelineVars, telnetVars>>
RunsPipeline == program = "hw06" /\ UNCHANGED <<program, vars, telnetVars>>
RunsTelnet == program = "hw11" /\ UNCHANGED <<program, vars, pipelineVars>>

ExercisesInit == program \in {"hw05", "hw06", "hw11"} /\ Init /\ P!Init /\ T!Init

ExercisesNext ==
    \/ Next /\ RunsParallel
    \/ P!Next /\ RunsPipeline
    \/ T!Next /\ RunsTelnet

\* The fairness of each program: FairSpec of ParallelRun, Spec of Pipeline and
\* of TelnetSession.
ExercisesSpec ==
    /\ ExercisesInit /\ [][ExercisesNext]_allVars
    /\ WF_vars(program = "hw05" /\ CloseTasks)
    /\ WF_vars(program = "hw05" /\ Return)
    /\ \A w \in Workers : WF_vars(program = "hw05" /\ WorkerStep(w))
    /\ \A x \in P!Nodes : WF_pipelineVars(program = "hw06" /\ P!NodeStep(x))
    /\ WF_pipelineVars(program = "hw06" /\ P!Consume)
    /\ WF_telnetVars(program = "hw11" /\ T!SessionStep)
    /\ WF_telnetVars(program = "hw11" /\ ~T!SendBlocked /\ (T!SendChunk \/ T!SendReturns))
    /\ WF_telnetVars(program = "hw11" /\ ~T!ReceiveBlocked /\ (T!ReceiveChunk \/ T!ReceiveReturns))

-----------------------------------------------------------------------------
\* hw05: what Run reports is what happened. The verdict counts every failure, also
\* of tasks that were running when the limit was reached; without the error every
\* task was executed; and no task and no goroutine is left behind.
RunReportsRight == VerdictIsRight /\ NothingLeftBehind

\* hw06: the output is at all times the beginning of the input, in its order,
\* every value through every stage; it is complete unless done was closed; and
\* cancellation takes at most one more value from the caller's input.
PipelineIsFaithful == P!OrderKept /\ P!CompleteUnlessDone /\ P!InputLeftAlone

\* hw11: what the session reports is what happened. "...EOF" means that the whole
\* input went out, "...Connection was closed by peer" that everything the peer sent
\* is printed; an error names the copy it came from, and means that its input, its
\* output or the connection failed, not that the client closed them.
SessionReportsRight == T!SuccessIsComplete /\ T!ErrorHasCause

\* Nobody waits for ever: Run returns whatever its tasks do; after done every
\* goroutine of the pipeline and of its stages ends, although the caller may
\* neither read nor send any more, and without it a reader gets to the end of the
\* output; the session ends with an interrupt, and with the input or the peer unless
\* the other end has stopped reading for good.
ProgramsEnd ==
    /\ program = "hw05" => RunReturns
    /\ P!DoneEndsEverything /\ P!OutputEnds
    /\ T!SessionEnds
=============================================================================
