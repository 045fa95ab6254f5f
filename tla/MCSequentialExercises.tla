----------------------- MODULE MCSequentialExercises -----------------------
EXTENDS SequentialExercises, TLC

\* hw04
MCCapacities == {-1, 0, 1, 3}
ItemSymmetry == Permutations(Items)

\* hw07
MCOffsets == {-1, 0, 1, 3, 4}
MCLimits == {-1, 0, 1, 2, 5}
MCSources == {Missing, <<>>, <<1, 2, 3>>, <<1, 2, 3, 4, 5, 6>>}

\* hw08
MCFile(c) == [isDir |-> FALSE, hasEquals |-> FALSE, content |-> c]
MCContents == UNION {[1..n -> {"x", "s", "n", "z"}] : n \in 0..3}
MCOther == {MCFile(<<>>), [MCFile(<<"x">>) EXCEPT !.isDir = TRUE], MCFile(<<"x", "x">>)}

\* A file A with any short content next to a PATH, and a name with "=".
MCDirectories ==
    [{"A"} -> {MCFile(c) : c \in MCContents}] \cup
    {[n \in {"PATH", "A", "B="} |->
        IF n = "A" THEN MCFile(<<"x", "s">>) ELSE IF n = "PATH" THEN p
        ELSE [MCFile(<<"x">>) EXCEPT !.hasEquals = TRUE]] : p \in MCOther}
MCParents ==
    {<<>>, <<<<"PATH", <<"x">>>>, <<"A", <<>>>>, <<"C", <<"x">>>>, <<"A", <<"x">>>>>>,
     <<<<"PATH", <<>>>>, <<"PATH", <<"x", "x">>>>>>}
MCGoodPaths == {<<"x">>, <<"x", "x">>}

\* hw09
MCRule(n, a) == [name |-> n, argument |-> a]
MCField(k, rs, vs) == [exported |-> TRUE, rules |-> rs, kind |-> k, values |-> vs]

MCIntFields ==
    {MCField("int", rs, vs) :
        rs \in {<<MCRule("min", <<2>>)>>, <<MCRule("min", <<1>>), MCRule("max", <<0>>)>>,
                <<MCRule("in", <<{0, 3}>>)>>, <<MCRule("min", <<>>)>>, <<MCRule("len", <<2>>)>>},
        vs \in {<<>>, <<1>>, <<3, 0>>}}
MCStringFields ==
    {MCField("string", rs, vs) :
        rs \in {<<MCRule("len", <<2>>)>>, <<MCRule("regexp", <<{<<"a">>, <<"b">>}>>), MCRule("len", <<2>>)>>,
                <<MCRule("len", <<-1>>)>>, <<MCRule("", <<>>)>>, <<MCRule("email", <<1>>)>>},
        vs \in {<<>>, <<<<"a">>>>, <<<<"a", "b">>, <<"c">>>>}}
MCOtherFields ==
    {MCField("float", <<MCRule("min", <<2>>)>>, <<1>>),
     [MCField("int", <<MCRule("bad", <<>>)>>, <<1>>) EXCEPT !.exported = FALSE],
     MCField("float", <<>>, <<1>>)}
MCFields == MCIntFields \cup MCStringFields \cup MCOtherFields
MCStructs == {<<>>} \cup {<<f, g>> : f \in MCFields, g \in MCFields}
=============================================================================
