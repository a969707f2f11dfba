----------------------------- MODULE GoTestJSON -----------------------------
(***************************************************************************)
(* A CI job runs `go test -json` over several packages at once, its lines  *)
(* go into a file, and the upload of that file is parsed line by line      *)
(* (internal/parser/gotestjson.go).  Lines of packages and of parallel     *)
(* tests interleave; the job may be killed at any time, a line may be torn *)
(* by what another process writes to the same pipe (`2>&1 | tee` in the    *)
(* repository's own workflow), and a line may be longer than the scanner   *)
(* accepts.  What go test itself does is external to the repository.       *)
(***************************************************************************)
EXTENDS Integers, Sequences, FiniteSets

CONSTANTS
    Packages,   \* packages under test
    Tests,      \* names of tests; each package may have all of them
    Texts,      \* what tests and packages print
    None,       \* an absent field of an event: the empty string
    MaxLines,   \* bound on the length of the file
    MaxTorn     \* bound on the lines that are torn

ASSUME GoTestAssumption ==
    /\ None \notin Packages \cup Tests \cup Texts
    /\ "package" \notin Tests
    /\ MaxLines \in Nat
    /\ MaxTorn \in Nat

VARIABLES
    ran,        \* what each test really did
    built,      \* what each package really did
    lines,      \* the file
    outcome,    \* where the upload of the file is
    pos,        \* lines the scanner has read
    order,      \* packages in the order of their first event
    suites      \* what has been read of each package

job == <<ran, built>>
scan == <<pos, order, suites>>
goVars == <<ran, built, lines, outcome, pos, order, suites>>

Verdicts == {"pass", "fail", "skip"}

\* A line that is no event: text of another process, or a torn event.
TextLine == [action |-> "text", package |-> None, test |-> None, text |-> None]
\* A line of more than 4 MiB.
LongLine == [TextLine EXCEPT !.action = "long"]

Event(p, t, action, text) == [action |-> action, package |-> p, test |-> t, text |-> text]

IsEvent(line) == line.package # None
IsLong(line) == line.action = "long"

-----------------------------------------------------------------------------
(* The job.  A line it writes arrives intact, or torn.                     *)

Write(line, intact) ==
    /\ outcome = "writing"
    /\ Len(lines) < MaxLines
    /\ intact \/ Cardinality({i \in DOMAIN lines : lines[i] = TextLine}) < MaxTorn
    /\ lines' = Append(lines, IF intact THEN line ELSE TextLine)
    /\ UNCHANGED <<outcome, pos, order, suites>>

\* A test starts, for the first time or again (-count).
RunTest(p, t, intact) ==
    /\ built[p].state \in {"waiting", "running"}
    /\ ran[p][t].state # "running"
    /\ Write(Event(p, t, "run", None), intact)
    /\ ran' = [ran EXCEPT ![p][t].state = "running", ![p][t].seen = @ \/ intact]
    /\ built' = [built EXCEPT ![p].state = "running"]

\* A running test prints, also while others of its package do.
TestPrints(p, t, x, intact) ==
    /\ built[p].state = "running"
    /\ ran[p][t].state = "running"
    /\ Write(Event(p, t, "output", x), intact)
    /\ ran' = [ran EXCEPT ![p][t].printed = IF intact THEN Append(@, x) ELSE @,
                          ![p][t].seen = @ \/ intact]
    /\ UNCHANGED built

\* A running test ends.  told is the last verdict whose line is intact.
TestEnds(p, t, v, intact) ==
    /\ built[p].state = "running"
    /\ ran[p][t].state = "running"
    /\ Write(Event(p, t, v, None), intact)
    /\ ran' = [ran EXCEPT ![p][t].state = v,
                          ![p][t].told = IF intact THEN v ELSE @,
                          ![p][t].seen = @ \/ intact]
    /\ UNCHANGED built

\* A package prints: its compiler, its TestMain.
PackagePrints(p, x, intact) ==
    /\ built[p].state \in {"waiting", "running"}
    /\ Write(Event(p, None, "output", x), intact)
    /\ built' = [built EXCEPT ![p].printed = IF intact THEN Append(@, x) ELSE @]
    /\ UNCHANGED ran

\* A package ends: it passes if all its tests did, and may fail at any time -
\* when it does not compile, times out or exits - whatever its tests have done.
PackageEnds(p, passed, intact) ==
    /\ built[p].state \in {"waiting", "running"}
    /\ passed => \A t \in Tests : ran[p][t].state \in {"new", "pass", "skip"}
    /\ Write(Event(p, None, IF passed THEN "pass" ELSE "fail", None), intact)
    /\ built' = [built EXCEPT ![p].state = IF passed THEN "passed" ELSE "failed",
                              ![p].told = ~ passed /\ intact]
    /\ UNCHANGED ran

\* Something writes a line without end to the same file.
LongText ==
    /\ \A i \in DOMAIN lines : ~ IsLong(lines[i])
    /\ Write(LongLine, TRUE)
    /\ UNCHANGED job

JobStep ==
    \/ \E p \in Packages, intact \in BOOLEAN :
          \/ \E t \in Tests :
                \/ RunTest(p, t, intact)
                \/ \E x \in Texts : TestPrints(p, t, x, intact)
                \/ \E v \in Verdicts : TestEnds(p, t, v, intact)
          \/ \E x \in Texts : PackagePrints(p, x, intact)
          \/ \E passed \in BOOLEAN : PackageEnds(p, passed, intact)
    \/ LongText

-----------------------------------------------------------------------------
(* Detection and parsing.                                                  *)

\* Detect: an event comes before any line the scanner cannot hold.
DetectsEvents(file) ==
    \E i \in DOMAIN file :
        /\ IsEvent(file[i])
        /\ \A k \in 1 .. i : ~ IsLong(file[k])

NewCase == [status |-> None, output |-> <<>>]
NewSuite == [cases |-> [t \in Tests |-> NewCase], caseOrder |-> <<>>,
             failed |-> FALSE, output |-> <<>>]

Has(seq, x) == \E i \in DOMAIN seq : seq[i] = x

\* A map entry is created with the key's first event and never again.
Noted(seq, x) == IF Has(seq, x) THEN seq ELSE Append(seq, x)

BadCaseAfter(case, e) ==
    [case EXCEPT !.output = IF e.action = "output" THEN Append(@, e.text) ELSE @,
                 !.status = IF e.action \in Verdicts /\ @ = None THEN e.action ELSE @]

BadCaseAfterAnyEvent(case, e) ==
    [case EXCEPT !.output = IF e.action = "output" THEN Append(@, e.text) ELSE @,
                 !.status = e.action]

\* The last verdict of a test is the one that stays.
CaseAfter(case, e) ==
    [case EXCEPT !.output = IF e.action = "output" THEN Append(@, e.text) ELSE @,
                 !.status = IF e.action \in Verdicts THEN e.action ELSE @]

BadSuiteAfter(suite, e) ==
    IF e.test = None
    THEN [suite EXCEPT !.output = IF e.action = "output" THEN Append(@, e.text) ELSE @,
                       !.failed = @ \/ e.action = "fail"]
    ELSE LET seen    == Noted(suite.caseOrder, e.test)
             current == IF e.action = "output" THEN seen[Len(seen)] ELSE e.test
         IN  [suite EXCEPT !.caseOrder = seen, !.cases[current] = CaseAfter(@, e)]

SuiteAfter(suite, e) ==
    IF e.test = None
    THEN [suite EXCEPT !.output = IF e.action = "output" THEN Append(@, e.text) ELSE @,
                       !.failed = @ \/ e.action = "fail"]
    ELSE [suite EXCEPT !.caseOrder = Noted(@, e.test),
                       !.cases[e.test] = CaseAfter(@, e)]

\* The results, package by package, test by test.
StatusOf(verdict) ==
    CASE verdict = "fail" -> "failed"
      [] verdict = "skip" -> "skipped"
      [] OTHER            -> "passed"

\* The output of a failed test is also its FailureOutput.
TestRow(p, t) ==
    LET case   == suites[p].cases[t]
        status == StatusOf(case.status)
    IN  [package |-> p, test |-> t, status |-> status, output |-> case.output,
         failure |-> IF status = "failed" THEN case.output ELSE <<>>]

PackageRow(p) ==
    [package |-> p, test |-> "package", status |-> "failed",
     output |-> suites[p].output, failure |-> suites[p].output]

BadRowsOf(p) ==
    IF suites[p].caseOrder = <<>>
    THEN <<PackageRow(p)>>
    ELSE [i \in DOMAIN suites[p].caseOrder |-> TestRow(p, suites[p].caseOrder[i])]

\* A failed package has a row of its own if it has no tests.
RowsOf(p) ==
    IF suites[p].caseOrder = <<>> /\ suites[p].failed
    THEN <<PackageRow(p)>>
    ELSE [i \in DOMAIN suites[p].caseOrder |-> TestRow(p, suites[p].caseOrder[i])]

\* Where the results are: the i-th package's j-th row.
Places == UNION {{<<i, j>> : j \in DOMAIN RowsOf(order[i])} : i \in DOMAIN order}
RowAt(at) == RowsOf(order[at[1]])[at[2]]

\* The job ends or is killed, and its file is uploaded as it is, under a name
\* that this parser looks at or not.
UploadReport(named) ==
    /\ outcome = "writing"
    /\ outcome' = IF named /\ DetectsEvents(lines) THEN "scanning" ELSE "refused"
    /\ UNCHANGED <<ran, built, lines, pos, order, suites>>

ScanEvent(e) ==
    /\ pos' = pos + 1
    /\ IF IsEvent(e)
       THEN /\ order' = Noted(order, e.package)
            /\ suites' = [suites EXCEPT ![e.package] = SuiteAfter(@, e)]
       ELSE UNCHANGED <<order, suites>>
    /\ UNCHANGED outcome

\* One turn of the loop: scanner.Scan, and what is done with the line.
ScanLine ==
    /\ outcome = "scanning"
    /\ pos < Len(lines)
    /\ IF IsLong(lines[pos + 1])
       THEN outcome' = "refused" /\ UNCHANGED scan
       ELSE ScanEvent(lines[pos + 1])
    /\ UNCHANGED <<ran, built, lines>>

EndScan ==
    /\ outcome = "scanning"
    /\ pos = Len(lines)
    /\ outcome' = "parsed"
    /\ UNCHANGED <<ran, built, lines, pos, order, suites>>

-----------------------------------------------------------------------------
NotRun == [state |-> "new", told |-> None, seen |-> FALSE, printed |-> <<>>]
NotBuilt == [state |-> "waiting", told |-> FALSE, printed |-> <<>>]

GoInit ==
    /\ ran = [p \in Packages |-> [t \in Tests |-> NotRun]]
    /\ built = [p \in Packages |-> NotBuilt]
    /\ lines = <<>>
    /\ outcome = "writing"
    /\ pos = 0
    /\ order = <<>>
    /\ suites = [p \in Packages |-> NewSuite]

GoNext ==
    \/ JobStep
    \/ \E named \in BOOLEAN : UploadReport(named)
    \/ ScanLine
    \/ EndScan

GoSpec == GoInit /\ [][GoNext]_goVars

-----------------------------------------------------------------------------
(* Properties.                                                             *)

Lines ==
    [action : {"run", "text", "long"} \cup Verdicts, package : Packages \cup {None},
     test : Tests \cup {None}, text : {None}]
    \cup
    [action : {"output"}, package : Packages, test : Tests \cup {None}, text : Texts]

Ran == [state : {"new", "running"} \cup Verdicts, told : Verdicts \cup {None},
        seen : BOOLEAN, printed : Seq(Texts)]

Built == [state : {"waiting", "running", "passed", "failed"}, told : BOOLEAN,
          printed : Seq(Texts)]

Cases == [status : Verdicts \cup {None}, output : Seq(Texts)]

Suites == [cases : [Tests -> Cases], caseOrder : Seq(Tests), failed : BOOLEAN,
           output : Seq(Texts)]

\* The parser's maps and the file keep the types of their Go declarations.
GoTypeOK ==
    /\ ran \in [Packages -> [Tests -> Ran]]
    /\ built \in [Packages -> Built]
    /\ lines \in Seq(Lines)
    /\ outcome \in {"writing", "scanning", "parsed", "refused"}
    /\ pos \in 0 .. Len(lines)
    /\ order \in Seq(Packages)
    /\ suites \in [Packages -> Suites]

PlacesOf(p, t) == {at \in Places : RowAt(at).package = p /\ RowAt(at).test = t}

\* However the lines of packages, tests and their repetitions interleave and
\* whichever of them are torn, a parsed file (GoTestJSONParser.Parse) gives each
\* test that is mentioned in it one result, with the last verdict that arrived,
\* and gives no result to a test that is not mentioned.
RowsTellLastVerdict ==
    outcome = "parsed" =>
        \A p \in Packages, t \in Tests :
            IF ran[p][t].seen
            THEN \E at \in Places :
                    /\ PlacesOf(p, t) = {at}
                    /\ RowAt(at).status = StatusOf(ran[p][t].told)
            ELSE PlacesOf(p, t) = {}

\* What a test printed, and nothing else, is the output of its result, in the
\* order it was printed: outputs of tests that run side by side stay apart.
OutputsStayApart ==
    outcome = "parsed" =>
        \A at \in Places : RowAt(at).test \in Tests =>
            RowAt(at).output = ran[RowAt(at).package][RowAt(at).test].printed

\* A package that fails before any of its tests is heard of - because it does
\* not compile - has exactly one result, which is failed and holds what the
\* package printed; a package without tests that passes has none.
BrokenPackageIsReported ==
    outcome = "parsed" =>
        \A p \in Packages :
            (\A t \in Tests : ~ ran[p][t].seen) =>
                {RowAt(at) : at \in {a \in Places : RowAt(a).package = p}} =
                    IF built[p].told
                    THEN {[package |-> p, test |-> "package", status |-> "failed",
                           output |-> built[p].printed, failure |-> built[p].printed]}
                    ELSE {}

-----------------------------------------------------------------------------
(* What the repository says and the code does not do.                      *)

\* README.md:1 says "Catch every regression"; gotestjson_test.go:45 expects a
\* "package failure result".  If the file says that a package failed, then some
\* result of that package is failed.
FailedPackageIsReported ==
    outcome = "parsed" =>
        \A p \in Packages : built[p].told =>
            \E at \in Places : RowAt(at).package = p /\ RowAt(at).status = "failed"
=============================================================================
