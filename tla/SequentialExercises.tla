------------------------ MODULE SequentialExercises ------------------------
(***************************************************************************)
(* The sequential programs of the course: the list and the cache of hw04,  *)
(* the file copy of hw07, the envdir tool of hw08 and the validator of     *)
(* hw09.  A behaviour is one of them, and the others stay where they start.*)
(***************************************************************************)
EXTENDS ListOperations, LruCache

CONSTANTS Missing, BufferSize, Limits, Offsets, Sources, MaxDisturbance   \* of hw07
CONSTANTS Directories, Parents, GoodPaths, Absent                         \* of hw08
CONSTANT Structs                                                          \* of hw09

\* Files are sequences of bytes, and a buffer holds at least one.
ASSUME CopyAssumption ==
    /\ BufferSize \in Nat \ {0} /\ Limits \subseteq Int /\ Offsets \subseteq Int
    /\ \A s \in Sources \ {Missing} : s \in Seq(Nat)
\* An environment is a sequence of names and values, a file has a content.
ASSUME EnvdirAssumption ==
    /\ \A p \in Parents : p \in Seq(STRING \X Seq(STRING))
    /\ \A d \in Directories : \A n \in DOMAIN d :
          d[n] \in [isDir : BOOLEAN, hasEquals : BOOLEAN, content : Seq(STRING)]
\* A struct is a sequence of fields, each with a sequence of rules and of values.
ASSUME StructsAssumption ==
    \A s \in Structs :
        /\ Len(s) \in Nat
        /\ \A i \in 1..Len(s) : Len(s[i].rules) \in Nat /\ Len(s[i].values) \in Nat

VARIABLES program,
          linked, source, regular, target, offset, limit, pc, size, position, total,
          written, lastPercent, resultErr, reports, disturbed,
          files, parent, bare, stage, unread, overrides, next, left, environment, started, code,
          fields, index, element, rule, errors, result

C == INSTANCE CopyFile
E == INSTANCE Envdir WITH pc <- stage
V == INSTANCE StructValidator

copyVars == <<linked, source, regular, target, offset, limit, pc, size, position, total,
              written, lastPercent, resultErr, reports, disturbed>>
envdirVars == <<files, parent, bare, stage, unread, overrides, next, left, environment, started,
                code>>
validatorVars == <<fields, index, element, rule, errors, result>>
allVars == <<program, listVars, cacheVars, copyVars, envdirVars, validatorVars>>

\* An initial state of each program that does not run.
CacheIdle == capacity = 0 /\ CacheInit
CopyIdle ==
    /\ linked = FALSE /\ regular = TRUE /\ source = Missing /\ offset = 0 /\ limit = 0
    /\ C!Init
EnvdirIdle ==
    /\ files = CHOOSE d \in Directories : TRUE
    /\ parent = CHOOSE p \in Parents : TRUE
    /\ bare = FALSE
    /\ E!Init
ValidatorIdle == fields = <<>> /\ V!Init

ExercisesInit ==
    /\ ListInit
    /\ \/ program = "list" /\ CacheIdle /\ CopyIdle /\ EnvdirIdle /\ ValidatorIdle
       \/ program = "cache" /\ CacheInit /\ CopyIdle /\ EnvdirIdle /\ ValidatorIdle
       \/ program = "copy" /\ CacheIdle /\ C!Init /\ EnvdirIdle /\ ValidatorIdle
       \/ program = "envdir" /\ CacheIdle /\ CopyIdle /\ E!Init /\ ValidatorIdle
       \/ program = "validator" /\ CacheIdle /\ CopyIdle /\ EnvdirIdle /\ V!Init

ExercisesNext ==
    /\ UNCHANGED program
    /\ \/ /\ program = "list" /\ ListNext
          /\ UNCHANGED <<cacheVars, copyVars, envdirVars, validatorVars>>
       \/ /\ program = "cache" /\ CacheNext
          /\ UNCHANGED <<listVars, copyVars, envdirVars, validatorVars>>
       \/ /\ program = "copy" /\ C!Next
          /\ UNCHANGED <<listVars, cacheVars, envdirVars, validatorVars>>
       \/ /\ program = "envdir" /\ E!Next
          /\ UNCHANGED <<listVars, cacheVars, copyVars, validatorVars>>
       \/ /\ program = "validator" /\ V!Next
          /\ UNCHANGED <<listVars, cacheVars, copyVars, envdirVars>>

ExercisesSpec == ExercisesInit /\ [][ExercisesNext]_allVars

-----------------------------------------------------------------------------
\* hw07: success means the whole requested part and nothing else, as many elements
\* as Stat promised, although the source may change meanwhile; the percentages only
\* grow, from 0 to 100; and no step changes the source, not even when both paths
\* are links to one file.
CopyIsFaithful == []C!CopyIsExact /\ []C!ProgressGrows /\ C!SourceUntouched

\* hw08: the command sees, for every name, what the directory says about it or
\* else what the parent had, and no second value for a name of the directory; a
\* bare command is searched in the PATH it will see itself.
CommandSeesItsEnvironment == E!EnvironmentAsWanted /\ E!FoundInItsOwnPath

\* hw09: a mistake in a tag is reported as such, and for the first field that has
\* one, whatever the values; of a struct with proper tags every failure is
\* reported, exactly once, by field, element and rule.
ValidationIsComplete == V!BadTagReported /\ V!EveryFailureReported
=============================================================================
