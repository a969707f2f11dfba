----------------------------- MODULE MCReports -----------------------------
(* Small instances of Reports for TLC. *)
EXTENDS Reports

CONSTANTS p1, p2, t1, t2

PackagesAndTests == Permutations({p1, p2}) \cup Permutations({t1, t2})

FoldCase == [s \in Joints \cup {"a", "A", "b", "n"} |-> IF s = "A" THEN "a" ELSE s]

\* The job's output under a name the parser looks at, and one it does not.
GoReports == {[format |-> "go", ext |-> e, root |-> None] : e \in {".json", ".xml"}}

Document(ext, root, format, wellFormed, events) ==
    [ext |-> ext, root |-> root, format |-> format, wellFormed |-> wellFormed, events |-> events]

Suite(parent, nested, name, other) ==
    [parent |-> parent, nested |-> nested, name |-> name, package |-> other, fullName |-> other]


JUnitCases(within, Classes, Names, Files, MarkSets) ==
    [suite : within, nested : {FALSE}, class : Classes, name : Names, file : Files, marks : MarkSets]

JUnit(parents, names, packages, cases) ==
    Document(".xml", "testsuites", "junit", TRUE, FALSE) @@
    [suites |-> [i \in DOMAIN parents |-> Suite(parents[i], FALSE, names[i], packages[i])],
     cases |-> cases]

\* Two cases anywhere in a tree, with and without marks.
JUnitTrees ==
    {JUnit(tree, names, [i \in DOMAIN tree |-> <<>>], <<c, d>>) :
        tree \in {<<0, 1, 1>>, <<0, 1, 2>>, <<0, 1, 0>>}, names \in [1 .. 3 -> {<<>>, <<"a">>}],
        c \in JUnitCases(1 .. 3, {<<>>}, {<<"a">>}, {<<>>}, {{}}),
        d \in JUnitCases({2, 3}, {<<>>}, {<<"a">>}, {<<>>},
                         {{}, {"failure"}, {"error", "skipped"}, {"skipped"}})}

\* Two cases whose names, classes and files differ, or only in case; a name may
\* have the colons that keys are joined with.
JUnitNames ==
    {JUnit(tree, [i \in 1 .. 2 |-> name[i]], [i \in 1 .. 2 |-> package], <<c, d>>) :
        tree \in {<<0, 1>>}, name \in [1 .. 2 -> {<<>>, <<"a">>}], package \in {<<>>, <<"b">>},
        c \in JUnitCases({1}, {<<>>, <<"a">>}, {<<"A">>, <<"b">>}, {<<>>, <<"b">>}, {{}}),
        d \in JUnitCases({1, 2}, {<<>>, <<"b">>}, {<<"a">>, <<"b">>, <<"a", "::", "b">>},
                         {<<>>, <<"a">>}, {{}})}

NUnitCases(within, Nested, Names, FullNames, Results) ==
    [suite : within, nested : Nested, name : Names, fullName : FullNames, result : Results]

NUnit(parents, nested, cases) ==
    Document(".xml", "test-results", "nunit", TRUE, FALSE) @@
    [suites |-> [i \in DOMAIN parents |-> Suite(parents[i], nested[i], <<"a">>,
                                                IF i = 1 THEN <<>> ELSE <<"a", "b">>)],
     cases |-> cases]

NUnitTrees ==
    {NUnit(tree, nested, <<c, d>>) :
        tree \in {<<0, 1, 1>>, <<0, 1, 2>>},
        nested \in {n \in [1 .. 3 -> BOOLEAN] : ~ n[1]},
        c \in NUnitCases({1, 3}, BOOLEAN, {<<"a">>}, {<<>>, <<"n", "b", "a">>}, {"Success"}),
        d \in NUnitCases({2, 3}, BOOLEAN, {<<"a">>}, {<<"n", "b", "a">>, <<"b", "a">>},
                         {"Passed", "Failure", "Error"})}

Definitions == [id : {1, 2}, class : {<<"a", "b">>, <<"b">>}]
TRXResults == [id : {1, 2}, name : {<<"a">>, <<"b">>}, outcome : {"Passed", "Failed", "Error"}]

TRX(definitions, results) ==
    Document(".trx", "TestRun", "trx", TRUE, FALSE) @@
    [definitions |-> definitions, results |-> results]

TRXFiles == {TRX(<<d, e>>, <<r, s>>) : d, e \in Definitions, r, s \in TRXResults}

\* Files under any name, with any content, whole or not.
OddFiles ==
    {Document(x, root, format, wellFormed, events) @@
        [suites |-> <<>>, cases |-> <<>>, definitions |-> <<>>, results |-> <<>>] :
        x \in {".xml", ".trx", ".json", None},
        <<root, format>> \in {<<"testsuite", "junit">>, <<"test-run", "nunit">>,
                              <<"TestRun", "trx">>, <<"html", "html">>, <<None, "text">>},
        wellFormed, events \in BOOLEAN}

AllDocuments == JUnitTrees \cup JUnitNames \cup NUnitTrees \cup TRXFiles \cup OddFiles
=============================================================================
