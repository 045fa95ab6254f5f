------------------------------ MODULE Pipeline ------------------------------
(***************************************************************************)
(* ExecutePipeline (hw06): a forwarding goroutine reads the input and one  *)
(* follows every stage, all over unbuffered channels.  Node 2k forwards    *)
(* the output of stage k, node 2k - 1 is stage k; node n sends on channel  *)
(* n, and the consumer reads the channel of the last node.  A stage is the *)
(* caller's (external): it handles its values in order and closes its      *)
(* output at the end of its input.  A value is <<number, stages passed>>.  *)
(***************************************************************************)
EXTENDS Naturals, Sequences

CONSTANTS Stages, InputLength

VARIABLES
    st,          \* forwarding: top, recv, send, drain, ended; stage: recv, send, ended
    val,         \* the value a node in "send" holds
    closed,      \* the channel of the node is closed
    next,        \* the next value of the caller's input
    inputClosed, \* the caller closed the input
    done,        \* the caller closed done
    lateReads,   \* values read from the input after that
    reading,     \* the consumer still reads
    output       \* what it has read

vars == <<st, val, closed, next, inputClosed, done, lateReads, reading, output>>

Last == 2 * Stages
Nodes == 0..Last
IsForward(n) == n % 2 = 0

Init ==
    /\ st = [n \in Nodes |-> IF IsForward(n) THEN "top" ELSE "recv"]
    /\ val = [n \in Nodes |-> <<0, 0>>]
    /\ closed = [n \in Nodes |-> FALSE]
    /\ next = 1 /\ inputClosed = FALSE
    /\ done = FALSE /\ lateReads = 0
    /\ reading = TRUE /\ output = <<>>

\* The channel of node n has just been read: a goroutine goes on.
SentBy(n) == IF IsForward(n) THEN "top" ELSE "recv"

\* for { select { case <-done: ...; default: } }
LoopTop(n) ==
    /\ IsForward(n) /\ st[n] = "top" /\ ~done
    /\ st' = [st EXCEPT ![n] = "recv"]
    /\ UNCHANGED <<val, closed, next, inputClosed, done, lateReads, reading, output>>

\* The first forwarding goroutine reads the caller's input.
ReadInput ==
    /\ st[0] \in {"recv", "drain"} /\ next <= InputLength /\ ~inputClosed
    /\ next' = next + 1
    /\ lateReads' = IF done THEN lateReads + 1 ELSE lateReads
    /\ IF st[0] = "recv"
       THEN st' = [st EXCEPT ![0] = "send"] /\ val' = [val EXCEPT ![0] = <<next, 0>>]
       ELSE UNCHANGED <<st, val>>
    /\ UNCHANGED <<closed, inputClosed, done, reading, output>>

\* Node n + 1 receives from node n; a draining goroutine drops the value.
Transfer(n) ==
    LET m == n + 1
    IN  /\ n < Last /\ st[n] = "send" /\ st[m] \in {"recv", "drain"}
        /\ st' = [st EXCEPT ![n] = SentBy(n), ![m] = IF @ = "drain" THEN @ ELSE "send"]
        /\ val' = IF st[m] = "drain" THEN val
                  ELSE [val EXCEPT ![m] = <<val[n][1], val[n][2] + IF IsForward(m) THEN 0 ELSE 1>>]
        /\ UNCHANGED <<closed, next, inputClosed, done, lateReads, reading, output>>

SourceClosed(n) == IF n = 0 THEN inputClosed ELSE closed[n - 1]

\* The source is closed: so is the output, and the goroutine ends.
EndOfSource(n) ==
    /\ st[n] \in {"recv", "drain"} /\ SourceClosed(n)
    /\ st' = [st EXCEPT ![n] = "ended"]
    /\ closed' = [closed EXCEPT ![n] = TRUE]
    /\ UNCHANGED <<val, next, inputClosed, done, lateReads, reading, output>>

\* Mutant: stages are not drained.
DrainsNothing(n) == FALSE

\* drainOnDone of the forwarding goroutine.
Drains(n) == n > 0

\* Mutant: a value that nobody is ready for is dropped.
StopOrDrop(n) ==
    /\ IsForward(n) /\ st[n] \in {"top", "recv", "send"} /\ (done \/ st[n] = "send")
    /\ closed' = [closed EXCEPT ![n] = done]
    /\ st' = [st EXCEPT ![n] = IF ~done THEN "top" ELSE IF Drains(n) THEN "drain" ELSE "ended"]
    /\ UNCHANGED <<val, next, inputClosed, done, lateReads, reading, output>>

\* A select takes <-done: stop() closes the output, then drains.  Every stage
\* returns a channel, so in # nil wherever drainOnDone holds.
Stop(n) ==
    /\ IsForward(n) /\ st[n] \in {"top", "recv", "send"} /\ done
    /\ closed' = [closed EXCEPT ![n] = TRUE]
    /\ st' = [st EXCEPT ![n] = IF Drains(n) THEN "drain" ELSE "ended"]
    /\ UNCHANGED <<val, next, inputClosed, done, lateReads, reading, output>>

\* The caller: reads the output, stops reading, closes the input or done.
Consume ==
    /\ reading /\ st[Last] = "send"
    /\ output' = Append(output, val[Last])
    /\ st' = [st EXCEPT ![Last] = "top"]
    /\ UNCHANGED <<val, closed, next, inputClosed, done, lateReads, reading>>
StopReading ==
    /\ reading /\ reading' = FALSE
    /\ UNCHANGED <<st, val, closed, next, inputClosed, done, lateReads, output>>
CloseInput ==
    /\ ~inputClosed /\ next = InputLength + 1 /\ inputClosed' = TRUE
    /\ UNCHANGED <<st, val, closed, next, done, lateReads, reading, output>>
CloseDone ==
    /\ ~done /\ done' = TRUE
    /\ UNCHANGED <<st, val, closed, next, inputClosed, lateReads, reading, output>>

NodeStep(n) == LoopTop(n) \/ Transfer(n) \/ EndOfSource(n) \/ Stop(n)

Next ==
    \/ \E n \in Nodes : NodeStep(n)
    \/ ReadInput \/ Consume \/ StopReading \/ CloseInput \/ CloseDone

\* Goroutines run; a consumer that reads takes what it is offered.  The caller
\* owes nothing else: no value, no close, no further read.
Spec == Init /\ [][Next]_vars /\ (\A n \in Nodes : WF_vars(NodeStep(n))) /\ WF_vars(Consume)

-----------------------------------------------------------------------------
\* The output is at all times the beginning of the input, in its order, every
\* value through every stage, also when done interrupts selects and stages.
OrderKept == \A i \in 1..Len(output) : output[i] = <<i, Stages>>

\* Without done, the end of the output means that all of the input came through.
CompleteUnlessDone == closed[Last] /\ ~done => Len(output) = InputLength

\* Cancellation does not eat the caller's input: one value at most may still be
\* taken by the select that finds both channels ready.
InputLeftAlone == lateReads <= 1

\* After done no goroutine stays behind, neither of ExecutePipeline nor of a
\* stage, even when the caller neither reads nor sends nor closes any more.
DoneEndsEverything == done ~> \A n \in Nodes : st[n] = "ended"

\* Without done, a consumer that keeps reading gets to the end of the output.
OutputEnds == []reading /\ <>inputClosed => <>closed[Last]
=============================================================================
