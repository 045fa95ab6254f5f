---------------------------- MODULE TelnetSession ----------------------------
(***************************************************************************)
(* The telnet client of hw11 after Connect: runSession starts a sending    *)
(* and a receiving goroutine, waits for one of them or for an interrupt,   *)
(* gives the peer a grace period at the end of the input, and closes the   *)
(* client.  Data are counted in chunks: InputChunks come from the standard *)
(* input, the peer sends at most PeerChunks.  The peer may close its side, *)
(* stop reading or stay silent, the connection may break; the input may    *)
(* fail or never end, the output may fail or stop taking data.             *)
(***************************************************************************)
EXTENDS Naturals

CONSTANTS InputChunks, PeerChunks

VARIABLES
    pc,           \* runSession: select, grace, close, report, returned
    interrupted,  \* the context of the session is done
    inputLeft,    \* chunks of the input not yet read
    input,        \* open; "ended": it ends after them; "failed": its Read fails
    written,      \* chunks written to the connection
    peerSent,     \* chunks the peer has sent
    wire,         \* of these, not yet read
    output,       \* of these, written to the output
    sink,         \* the output: writable, "stalled" for ever, or "failed"
    peerClosed,   \* the peer has closed its side
    peerStalled,  \* the peer has stopped reading for ever
    broken,       \* the connection is reset
    open,         \* client.Close has not been called
    sendDone, receiveDone,           \* results of the goroutines, "none" while running
    transferErr, operation, message  \* the variables of runSession

mainVars == <<pc, transferErr, operation, message>>
dataVars == <<inputLeft, written, peerSent, wire, output>>
stateVars == <<interrupted, input, sink, peerClosed, peerStalled, broken, open>>
doneVars == <<sendDone, receiveDone>>
vars == <<mainVars, dataVars, stateVars, doneVars>>

Running == pc # "returned"

Init ==
    /\ pc = "select" /\ transferErr = "nil" /\ operation = "" /\ message = ""
    /\ inputLeft = InputChunks /\ written = 0 /\ peerSent = 0 /\ wire = 0 /\ output = 0
    /\ interrupted = FALSE /\ input = "open" /\ sink = "writable"
    /\ peerClosed = FALSE /\ peerStalled = FALSE /\ broken = FALSE /\ open = TRUE
    /\ sendDone = "none" /\ receiveDone = "none"

-----------------------------------------------------------------------------
\* Send: io.Copy from the input to the connection.  Writing to a peer that has
\* closed may bring a reset.
SendChunk ==
    /\ Running /\ sendDone = "none" /\ open /\ ~broken /\ input # "failed" /\ inputLeft > 0
    /\ inputLeft' = inputLeft - 1 /\ written' = written + 1
    /\ broken' \in {FALSE, peerClosed}
    /\ UNCHANGED <<mainVars, doneVars, peerSent, wire, output, interrupted, input, sink,
                   peerClosed, peerStalled, open>>

SendReturns ==
    /\ Running /\ sendDone = "none"
    /\ \/ open /\ inputLeft = 0 /\ input = "ended" /\ sendDone' = "nil"
       \/ (~open \/ input = "failed" \/ (broken /\ inputLeft > 0)) /\ sendDone' = "err"
    /\ UNCHANGED <<mainVars, dataVars, stateVars, receiveDone>>

\* A Write to the connection has no deadline: a peer that does not read may keep
\* it for ever.
SendBlocked == peerStalled /\ open /\ ~broken /\ inputLeft > 0

\* Receive: io.Copy from the connection to the output.
ReceiveChunk ==
    /\ Running /\ receiveDone = "none" /\ open /\ ~broken /\ sink # "failed" /\ wire > 0
    /\ wire' = wire - 1 /\ output' = output + 1
    /\ UNCHANGED <<mainVars, doneVars, stateVars, inputLeft, written, peerSent>>

ReceiveReturns ==
    /\ Running /\ receiveDone = "none"
    /\ \/ open /\ ~broken /\ wire = 0 /\ peerClosed /\ receiveDone' = "nil"
       \/ (~open \/ broken \/ (sink = "failed" /\ wire > 0)) /\ receiveDone' = "err"
    /\ UNCHANGED <<mainVars, dataVars, stateVars, sendDone>>

\* Nor has a Write to the output.
ReceiveBlocked == sink = "stalled" /\ wire > 0

-----------------------------------------------------------------------------
\* The first select of runSession.
Select ==
    /\ pc = "select"
    /\ \/ /\ interrupted
          /\ pc' = "close" /\ message' = "Interrupted"
          /\ UNCHANGED <<transferErr, operation>>
       \/ /\ sendDone # "none"
          /\ transferErr' = sendDone /\ operation' = "send" /\ message' = "EOF"
          /\ pc' = IF sendDone = "nil" THEN "grace" ELSE "close"
       \/ /\ receiveDone # "none"
          /\ transferErr' = receiveDone /\ operation' = "receive" /\ message' = "ClosedByPeer"
          /\ pc' = "close"
    /\ UNCHANGED <<dataVars, stateVars, doneVars>>

\* After the end of the input: the interrupt, the peer, or the grace period.
Grace ==
    /\ pc = "grace" /\ pc' = "close"
    /\ \/ interrupted /\ message' = "Interrupted" /\ UNCHANGED <<transferErr, operation>>
       \/ /\ receiveDone # "none"
          /\ transferErr' = receiveDone
          /\ operation' = IF receiveDone # "nil" THEN "receive" ELSE operation
          /\ UNCHANGED message
       \/ UNCHANGED <<transferErr, operation, message>>
    /\ UNCHANGED <<dataVars, stateVars, doneVars>>

\* client.Close: the input and the connection; its error is only logged.
Close ==
    /\ pc = "close" /\ pc' = "report" /\ open' = FALSE
    /\ UNCHANGED <<dataVars, doneVars, transferErr, operation, message, interrupted, input, sink,
                   peerClosed, peerStalled, broken>>

\* Mutant: an error that the receiving goroutine reports after Close counts, too.
ReportCollecting ==
    /\ pc = "report" /\ pc' = "returned"
    /\ IF transferErr = "nil" /\ receiveDone = "err"
       THEN transferErr' = "err" /\ operation' = "receive"
       ELSE UNCHANGED <<transferErr, operation>>
    /\ UNCHANGED <<dataVars, stateVars, doneVars, message>>

\* The error of the transfer, or the message.
Report ==
    /\ pc = "report" /\ pc' = "returned"
    /\ UNCHANGED <<dataVars, stateVars, doneVars, transferErr, operation, message>>

-----------------------------------------------------------------------------
\* The user, the peer and the network, the output.
Surroundings(rest) == Running /\ UNCHANGED <<mainVars, dataVars, doneVars, open, rest>>

Interrupt ==
    /\ ~interrupted /\ interrupted' = TRUE
    /\ Surroundings(<<input, sink, peerClosed, peerStalled, broken>>)
EndInput ==
    /\ input = "open" /\ input' \in {"ended", "failed"}
    /\ Surroundings(<<interrupted, sink, peerClosed, peerStalled, broken>>)
OutputEnds ==
    /\ sink = "writable" /\ sink' \in {"stalled", "failed"}
    /\ Surroundings(<<interrupted, input, peerClosed, peerStalled, broken>>)
PeerStalls ==
    /\ ~peerStalled /\ peerStalled' = TRUE
    /\ Surroundings(<<interrupted, input, sink, peerClosed, broken>>)
PeerCloses ==
    /\ ~peerClosed /\ peerClosed' = TRUE
    /\ Surroundings(<<interrupted, input, sink, peerStalled, broken>>)
Reset ==
    /\ ~broken /\ broken' = TRUE
    /\ Surroundings(<<interrupted, input, sink, peerClosed, peerStalled>>)
PeerSends ==
    /\ Running /\ ~peerClosed /\ ~broken /\ peerSent < PeerChunks
    /\ peerSent' = peerSent + 1 /\ wire' = wire + 1
    /\ UNCHANGED <<mainVars, stateVars, doneVars, inputLeft, written, output>>
Returned == ~Running /\ UNCHANGED vars

SessionStep == Select \/ Grace \/ Close \/ Report
Next ==
    \/ SessionStep \/ SendChunk \/ SendReturns \/ ReceiveChunk \/ ReceiveReturns
    \/ Interrupt \/ EndInput \/ OutputEnds \/ PeerSends \/ PeerStalls \/ PeerCloses \/ Reset
    \/ Returned

\* runSession and the two copies are scheduled and the grace timer expires; no
\* input, data, close or interrupt is owed, and no Write to a peer or an output
\* that has stopped taking data ever returns.
Spec ==
    /\ Init /\ [][Next]_vars
    /\ WF_vars(SessionStep)
    /\ WF_vars(~SendBlocked /\ (SendChunk \/ SendReturns))
    /\ WF_vars(~ReceiveBlocked /\ (ReceiveChunk \/ ReceiveReturns))

-----------------------------------------------------------------------------
Succeeded == pc = "returned" /\ transferErr = "nil"

\* "...EOF" means that the whole input went to the peer, and "...Connection was
\* closed by peer" that everything the peer had sent is on the output.
SuccessIsComplete ==
    Succeeded =>
        /\ message = "EOF" => written = InputChunks
        /\ message = "ClosedByPeer" => output = peerSent

\* The session fails only if a transfer did, and names it: sending because of the
\* input or the connection, receiving because of the connection or the output.
\* The errors both copies get when the client itself closes input and connection
\* never surface.
ErrorHasCause ==
    pc = "returned" /\ transferErr # "nil" =>
        IF operation = "send" THEN sendDone = "err" /\ (broken \/ input = "failed")
        ELSE receiveDone = "err" /\ (broken \/ sink = "failed")

\* An interrupt ends the session whatever blocks.  The end of the input ends it
\* unless a peer that does not read holds up the sending of what was typed; the
\* peer's close, a reset or an output that fails ends it unless the output has
\* stopped taking data.
SessionEnds ==
    /\ interrupted ~> pc = "returned"
    /\ input # "open" ~> (pc = "returned" \/ SendBlocked)
    /\ (peerClosed \/ broken \/ (sink = "failed" /\ wire > 0)) ~> (pc = "returned" \/ ReceiveBlocked)
=============================================================================
