------------------------------ MODULE CopyFile ------------------------------
(***************************************************************************)
(* copyFile of hw07 on a small file system: two paths that may be links to *)
(* one file, contents that are sequences, and another process that changes *)
(* the source while it is copied.  io.CopyN moves at most BufferSize       *)
(* elements at a time; a write or the final Close may fail.                *)
(***************************************************************************)
EXTENDS Integers, Sequences

CONSTANTS Missing, BufferSize, Limits, Offsets, Sources, MaxDisturbance

VARIABLES
    linked,      \* toPath leads to the file of fromPath
    source,      \* the content of fromPath; Missing if there is none
    regular,     \* it is a regular file
    target,      \* the content of toPath, the same file if linked
    offset, limit,
    pc, size, position, total, written, lastPercent, resultErr, \* variables of copyFile
    reports,     \* the percentages on the terminal
    disturbed    \* changes by the other process

args == <<linked, regular, offset, limit>>
fileVars == <<source, target, disturbed>>
progressVars == <<total, written, lastPercent, reports>>
vars == <<args, fileVars, progressVars, pc, size, position, resultErr>>

Init ==
    /\ linked \in BOOLEAN /\ regular \in BOOLEAN
    /\ source \in Sources /\ (source = Missing => regular)
    /\ target = IF linked THEN source ELSE <<9, 9, 9, 9, 9>>
    /\ offset \in Offsets /\ limit \in Limits
    /\ pc = "open" /\ size = 0 /\ position = 0 /\ resultErr = "nil"
    /\ total = 0 /\ written = 0 /\ lastPercent = -1 /\ reports = <<>>
    /\ disturbed = 0

Return(err) == pc' = "returned" /\ resultErr' = err

\* report: a percentage is written once.
Report(percentage) ==
    /\ reports' = IF percentage = lastPercent THEN reports ELSE Append(reports, percentage)
    /\ lastPercent' = percentage

\* limit > 0 && limit < bytesToCopy
BytesToCopy(n) == IF limit > 0 /\ limit < n THEN limit ELSE n

\* The arguments, the source, its Stat and Seek.
OpenSource ==
    /\ pc = "open"
    /\ IF offset < 0 \/ limit < 0 \/ source = Missing \/ ~regular
       THEN Return("refused") /\ UNCHANGED <<size, position, total>>
       ELSE /\ size' = Len(source)
            /\ IF offset > Len(source)
               THEN Return("refused") /\ UNCHANGED <<position, total>>
               ELSE /\ pc' = "destination" /\ position' = offset
                    /\ total' = BytesToCopy(Len(source) - offset)
                    /\ UNCHANGED resultErr
    /\ UNCHANGED <<args, fileVars, written, lastPercent, reports>>

\* The destination is given a content; if it is linked, so is the source.
SetContent(content) == target' = content /\ source' = IF linked THEN content ELSE source

\* Mutant: the two paths are compared, which differ although one is a link.
SamePath == FALSE

\* os.SameFile on the two open files.
SameFile == linked

\* The destination is opened as it is, compared with the source, then truncated.
OpenDestination ==
    /\ pc = "destination"
    /\ \/ Return("failed") /\ UNCHANGED <<source, target, lastPercent, reports>>
       \/ SameFile /\ Return("same") /\ UNCHANGED <<source, target, lastPercent, reports>>
       \/ ~SameFile /\ SetContent(<<>>) /\ pc' = "copy" /\ Report(0) /\ UNCHANGED resultErr
    /\ UNCHANGED <<args, disturbed, total, written, size, position>>

\* One turn of io.CopyN: read up to a buffer, write it, report.
CopyChunk ==
    /\ pc = "copy" /\ written < total
    /\ \/ /\ position < Len(source)
          /\ \E n \in 1..BufferSize :
                /\ n <= total - written /\ n <= Len(source) - position
                /\ SetContent(target \o SubSeq(source, position + 1, position + n))
                /\ position' = position + n /\ written' = written + n
                /\ Report(((written + n) * 100) \div total)
          /\ UNCHANGED <<pc, resultErr>>
       \/ /\ position >= Len(source)   \* io.EOF before the end
          /\ Return("failed")
          /\ UNCHANGED <<source, target, position, written, lastPercent, reports>>
       \/ /\ Return("failed")          \* the write fails, perhaps in part
          /\ \E n \in 0..BufferSize :
                /\ n <= total - written /\ n <= Len(source) - position
                /\ SetContent(target \o SubSeq(source, position + 1, position + n))
                /\ position' = position + n /\ written' = written + n
          /\ UNCHANGED <<lastPercent, reports>>
    /\ UNCHANGED <<args, disturbed, total, size>>

\* report(100), and the deferred Close, whose error is the result.
Finish ==
    /\ pc = "copy" /\ written = total
    /\ Report(100)
    /\ Return("nil") \/ Return("failed")
    /\ UNCHANGED <<args, fileVars, total, written, size, position>>

\* Another process truncates the source or appends to it.
Disturb ==
    /\ pc # "returned" /\ disturbed < MaxDisturbance /\ source # Missing
    /\ source' \in {SubSeq(source, 1, Len(source) \div 2), Append(source, 7)}
    /\ disturbed' = disturbed + 1
    /\ target' = IF linked THEN source' ELSE target
    /\ UNCHANGED <<args, progressVars, pc, size, position, resultErr>>

CopierStep == OpenSource \/ OpenDestination \/ CopyChunk \/ Finish
Returned == pc = "returned" /\ UNCHANGED vars
Next == CopierStep \/ Disturb \/ Returned
Spec == Init /\ [][Next]_vars

-----------------------------------------------------------------------------
Succeeded == pc = "returned" /\ resultErr = "nil"

\* The copy never damages what it copies, not even when both paths are links to
\* one file: no step of copyFile changes the source.
SourceUntouched == [][CopierStep => source' = source]_vars

\* Success means the whole requested part, and nothing else: as many elements as
\* Stat promised, and those of the source if nobody changed it meanwhile.
CopyIsExact ==
    Succeeded =>
        /\ Len(target) = IF limit > 0 /\ limit < size - offset THEN limit ELSE size - offset
        /\ disturbed = 0 => target = SubSeq(source, offset + 1, offset + Len(target))

\* The percentages only grow, from 0; success has shown 100, also for nothing to
\* copy and for more elements than percentages.
ProgressGrows ==
    /\ \A i \in 1..(Len(reports) - 1) : reports[i] < reports[i + 1]
    /\ reports # <<>> => reports[1] = 0 /\ reports[Len(reports)] <= 100
    /\ Succeeded => reports[Len(reports)] = 100
=============================================================================
