--------------------------- MODULE StructValidator ---------------------------
(***************************************************************************)
(* Validate of hw09: the loop over the fields of a struct, the rules of    *)
(* their tags, and the errors it collects.  A field is [exported, rules,   *)
(* kind, values]; rules is <<>> without a tag.  A rule is [name,           *)
(* argument], malformed if the name is "" ; the argument is <<>> when it   *)
(* does not parse (or compile), else <<n>> for len, min and max, and the   *)
(* set of accepted values in <<S>> for in and regexp.  A string is a       *)
(* sequence of runes.  What is no struct is refused before the loop.       *)
(***************************************************************************)
EXTENDS Integers, Sequences

CONSTANT Structs

VARIABLES
    fields,          \* the struct
    index,           \* Validate's loop over the fields
    element, rule,   \* the loops of validateField and validateValue; element is 0 outside
    errors, result

vars == <<fields, index, element, rule, errors, result>>

Init ==
    /\ fields \in Structs
    /\ index = 1 /\ element = 0 /\ rule = 1 /\ errors = <<>> /\ result = "running"

-----------------------------------------------------------------------------
\* Exported fields with a validate tag.
Checked(f) == f.exported /\ f.rules # <<>>

\* parseValidationRule: which validators go with which kind, and arguments.
KindsOf(name) ==
    CASE name \in {"len", "regexp"} -> {"string"}
      [] name = "in" -> {"string", "int"}
      [] name \in {"min", "max"} -> {"int"}
      [] OTHER -> {}

RuleError(c, kind) ==
    CASE c.name = "" -> "ErrInvalidTag"
      [] c.name # "" /\ KindsOf(c.name) = {} -> "ErrUnsupportedValidator"
      [] OTHER -> IF \/ kind \notin KindsOf(c.name)
                     \/ c.argument = <<>>
                     \/ c.name = "len" /\ c.argument[1] < 0
                  THEN "ErrInvalidTag" ELSE "nil"

\* The error of the kind or of the first bad rule of a field.
TagError(f) ==
    LET bad == {r \in 1..Len(f.rules) : RuleError(f.rules[r], f.kind) # "nil"}
    IN  IF f.kind \notin {"int", "string"} THEN "ErrUnsupportedType"
        ELSE IF bad = {} THEN "nil"
        ELSE RuleError(f.rules[CHOOSE r \in bad : \A s \in bad : r <= s], f.kind)

Passes(c, value) ==
    CASE c.name = "len" -> Len(value) = c.argument[1]
      [] c.name = "min" -> value >= c.argument[1]
      [] c.name = "max" -> value <= c.argument[1]
      [] OTHER -> value \in c.argument[1]

-----------------------------------------------------------------------------
AtField == result = "running" /\ element = 0 /\ index <= Len(fields)
AtElement == result = "running" /\ element > 0 /\ element <= Len(fields[index].values)

Skip ==
    /\ AtField /\ ~Checked(fields[index])
    /\ index' = index + 1
    /\ UNCHANGED <<fields, element, rule, errors, result>>

RejectTag ==
    /\ AtField /\ Checked(fields[index]) /\ TagError(fields[index]) # "nil"
    /\ result' = TagError(fields[index])
    /\ UNCHANGED <<fields, index, element, rule, errors>>

\* The tag is parsed; validateField begins with the first element, a field that is
\* no slice being its only one.
AcceptTag ==
    /\ AtField /\ Checked(fields[index]) /\ TagError(fields[index]) = "nil"
    /\ element' = 1
    /\ UNCHANGED <<fields, index, rule, errors, result>>

\* Mutant: a value is left after its first failure.
CheckRuleOnce ==
    /\ AtElement /\ rule <= Len(fields[index].rules)
    /\ IF Passes(fields[index].rules[rule], fields[index].values[element])
       THEN rule' = rule + 1 /\ UNCHANGED errors
       ELSE /\ rule' = Len(fields[index].rules) + 1
            /\ errors' = Append(errors, <<index, element, rule>>)
    /\ UNCHANGED <<fields, index, element, result>>

\* One turn of validateValue.
CheckRule ==
    /\ AtElement /\ rule <= Len(fields[index].rules)
    /\ errors' = IF Passes(fields[index].rules[rule], fields[index].values[element]) THEN errors
                 ELSE Append(errors, <<index, element, rule>>)
    /\ rule' = rule + 1
    /\ UNCHANGED <<fields, index, element, result>>

NextElement ==
    /\ AtElement /\ rule > Len(fields[index].rules)
    /\ element' = element + 1 /\ rule' = 1
    /\ UNCHANGED <<fields, index, errors, result>>

NextField ==
    /\ result = "running" /\ element > 0 /\ element > Len(fields[index].values)
    /\ index' = index + 1 /\ element' = 0
    /\ UNCHANGED <<fields, rule, errors, result>>

Return ==
    /\ result = "running" /\ index > Len(fields)
    /\ result' = IF errors = <<>> THEN "nil" ELSE "ValidationErrors"
    /\ UNCHANGED <<fields, index, element, rule, errors>>

Returned == result # "running" /\ UNCHANGED vars
Next ==
    \/ Skip \/ RejectTag \/ AcceptTag \/ CheckRule \/ NextElement \/ NextField
    \/ Return \/ Returned
Spec == Init /\ [][Next]_vars

-----------------------------------------------------------------------------
Tagged == {i \in 1..Len(fields) : fields[i].exported /\ fields[i].rules # <<>>}

\* A mistake in a tag is reported as such, and for the first field that has one,
\* whatever the values: an empty slice and earlier failures do not hide it.
BadTagReported ==
    result # "running" =>
        LET bad == {i \in Tagged : TagError(fields[i]) # "nil"}
        IN  IF bad = {} THEN result \in {"nil", "ValidationErrors"}
            ELSE result = TagError(fields[CHOOSE i \in bad : \A j \in bad : i <= j])

Before(a, b) ==
    \/ a[1] < b[1]
    \/ a[1] = b[1] /\ a[2] < b[2]
    \/ a[1] = b[1] /\ a[2] = b[2] /\ a[3] < b[3]

\* Of a struct with proper tags every failure is reported, exactly once, by
\* field, element and rule: Validate returns nil only when there is none.
EveryFailureReported ==
    result \in {"nil", "ValidationErrors"} =>
        /\ {errors[n] : n \in 1..Len(errors)} =
              UNION {{x \in {i} \X (1..Len(fields[i].values)) \X (1..Len(fields[i].rules)) :
                        ~Passes(fields[i].rules[x[3]], fields[i].values[x[2]])} : i \in Tagged}
        /\ \A n \in 1..(Len(errors) - 1) : Before(errors[n], errors[n + 1])
        /\ (result = "nil") = (errors = <<>>)
=============================================================================
