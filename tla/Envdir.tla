------------------------------- MODULE Envdir -------------------------------
(***************************************************************************)
(* The envdir tool of hw08: read the variables from the files of a         *)
(* directory, merge them into the environment of the parent, find the      *)
(* command in the resulting PATH, run it and pass on how it ended.         *)
(*                                                                         *)
(* A content is a sequence of characters: x (any visible one), s (space or *)
(* tab), n (newline), z (NUL).  An environment is a sequence of <<name,    *)
(* value>>, as exec.Cmd.Env is; a name may occur in it more than once.     *)
(***************************************************************************)
EXTENDS Integers, Sequences

CONSTANTS
    Directories,  \* name -> [isDir, hasEquals, content]
    Parents,      \* environments of the parent
    GoodPaths,    \* the values of PATH that lead to the command
    Absent

VARIABLES
    files,        \* the directory
    parent,       \* os.Environ()
    bare,         \* the command has no separator and is searched in PATH
    pc, unread,   \* ReadDir's loop
    overrides,    \* Environment: [value, needRemove] by name
    next, left,   \* mergeEnvironment's loops over the parent and the overrides
    environment,  \* command.Env
    started,      \* the command was started
    code          \* the exit code of the tool

vars == <<files, parent, bare, pc, unread, overrides, next, left, environment, started, code>>
errorExitCode == 111

Init ==
    /\ files \in Directories /\ parent \in Parents /\ bare \in BOOLEAN
    /\ pc = "read" /\ unread = DOMAIN files
    /\ overrides = [n \in {} |-> Absent] /\ next = 1 /\ left = {} /\ environment = <<>>
    /\ started = FALSE /\ code = -1

Exit(c) == pc' = "exited" /\ code' = c

\* The first line, NULs turned into newlines, blanks cut off at its end.
FirstLine(content) ==
    LET ends == {i \in 1..Len(content) : content[i] = "n"}
    IN  IF ends = {} THEN content
        ELSE SubSeq(content, 1, (CHOOSE i \in ends : \A j \in ends : i <= j) - 1)
ReplaceNul(line) == [i \in 1..Len(line) |-> IF line[i] = "z" THEN "n" ELSE line[i]]
TrimRight(line) ==
    LET kept == {0} \cup {i \in 1..Len(line) : line[i] # "s"}
    IN  SubSeq(line, 1, CHOOSE i \in kept : \A j \in kept : j <= i)

Value(content) == TrimRight(ReplaceNul(FirstLine(content)))

\* One turn of ReadDir's loop; a file may be gone by then.
ReadEntry(n) ==
    /\ pc = "read" /\ n \in unread
    /\ \/ /\ files[n].isDir \/ files[n].hasEquals
          /\ UNCHANGED <<pc, code, overrides>>
       \/ /\ ~files[n].isDir /\ ~files[n].hasEquals
          /\ overrides' = [m \in DOMAIN overrides \cup {n} |->
                              IF m # n THEN overrides[m]
                              ELSE IF files[n].content = <<>> THEN [value |-> <<>>, needRemove |-> TRUE]
                              ELSE [value |-> Value(files[n].content), needRemove |-> FALSE]]
          /\ UNCHANGED <<pc, code>>
       \/ /\ ~files[n].isDir /\ ~files[n].hasEquals
          /\ Exit(errorExitCode)
          /\ UNCHANGED overrides
    /\ unread' = unread \ {n}
    /\ UNCHANGED <<files, parent, bare, next, left, environment, started>>

\* ReadDir is through; the variables of the parent that the directory does not
\* mention are kept.
MergeParent ==
    /\ pc = "read" /\ unread = {} /\ next <= Len(parent)
    /\ environment' = IF parent[next][1] \in DOMAIN overrides THEN environment
                      ELSE Append(environment, parent[next])
    /\ next' = next + 1
    /\ UNCHANGED <<files, parent, bare, pc, unread, overrides, left, started, code>>

\* Then the overrides follow, in the order of a map.
StartOverrides ==
    /\ pc = "read" /\ unread = {} /\ next > Len(parent)
    /\ pc' = "merge" /\ left' = DOMAIN overrides
    /\ UNCHANGED <<files, parent, bare, unread, overrides, next, environment, started, code>>

MergeOverride(n) ==
    /\ pc = "merge" /\ n \in left
    /\ environment' = IF overrides[n].needRemove THEN environment
                      ELSE Append(environment, <<n, overrides[n].value>>)
    /\ left' = left \ {n}
    /\ UNCHANGED <<files, parent, bare, pc, unread, overrides, next, started, code>>

\* lookupEnvironment: the last occurrence counts.
Lookup(env, n) ==
    LET at == {i \in 1..Len(env) : env[i][1] = n}
    IN  IF at = {} THEN Absent ELSE env[CHOOSE i \in at : \A j \in at : j <= i][2]

\* Mutant: exec.LookPath, which searches the PATH of the tool itself.
SearchedInParent == Lookup(parent, "PATH")

\* The PATH lookPathInEnvironment searches.
Searched == Lookup(environment, "PATH")

LookPath ==
    /\ pc = "merge" /\ left = {}
    /\ IF bare /\ Searched \notin GoodPaths
       THEN Exit(errorExitCode)
       ELSE pc' = "run" /\ UNCHANGED code
    /\ UNCHANGED <<files, parent, bare, unread, overrides, next, left, environment, started>>

\* command.Run: it cannot be started, exits, or is ended by a signal.
Run ==
    /\ pc = "run"
    /\ \/ Exit(errorExitCode) /\ UNCHANGED started
       \/ /\ started' = TRUE
          /\ \/ \E status \in {0, 3} : Exit(status)
             \/ \E signal \in {9, 15} : Exit(128 + signal)
    /\ UNCHANGED <<files, parent, bare, unread, overrides, next, left, environment>>

Exited == pc = "exited" /\ UNCHANGED vars
Next ==
    \/ \E n \in unread : ReadEntry(n)
    \/ MergeParent \/ StartOverrides \/ \E n \in left : MergeOverride(n)
    \/ LookPath \/ Run \/ Exited
Spec == Init /\ [][Next]_vars

-----------------------------------------------------------------------------
\* What a file says, read backwards: the longest beginning of its first line
\* that does not end in a blank, a NUL at its end being no blank.
SaidBy(content) ==
    LET fits == {i \in 0..Len(content) :
                    /\ \A j \in 1..i : content[j] # "n"
                    /\ i = 0 \/ content[i] # "s"}
        n == CHOOSE i \in fits : \A j \in fits : j <= i
    IN  [i \in 1..n |-> IF content[i] = "z" THEN "n" ELSE content[i]]

Wanted(n) ==
    IF n \notin DOMAIN files \/ files[n].isDir \/ files[n].hasEquals THEN Lookup(parent, n)
    ELSE IF files[n].content = <<>> THEN Absent ELSE SaidBy(files[n].content)

\* The command sees, for every name, what the directory says about it or else
\* what the parent had, and no second value for a name of the directory.
EnvironmentAsWanted ==
    pc = "run" \/ (pc = "merge" /\ left = {}) =>
        /\ \A n \in DOMAIN files \cup {parent[i][1] : i \in 1..Len(parent)} :
              Lookup(environment, n) = Wanted(n)
        /\ \A i, j \in 1..Len(environment) :
              environment[i][1] = environment[j][1] /\ environment[i][1] \in DOMAIN overrides => i = j

\* A bare command is searched in the PATH it will see itself, also when the
\* directory sets or removes PATH; nothing runs after a read error.
FoundInItsOwnPath ==
    started => (bare => Wanted("PATH") \in GoodPaths) /\ unread = {}
=============================================================================
