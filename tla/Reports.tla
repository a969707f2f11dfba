------------------------------ MODULE Reports ------------------------------
(***************************************************************************)
(* Registry.ParseFiles on one uploaded file (ingestRun calls it file by    *)
(* file): which parser takes the file, and what it makes of it.  The file  *)
(* is the output of `go test -json`, written by the job of GoTestJSON, or  *)
(* a document of XmlReports.                                               *)
(***************************************************************************)
EXTENDS GoTestJSON, XmlReports

CONSTANTS
    Documents,      \* XML files that may be uploaded
    GoFiles         \* names under which the job's output may be uploaded

\* No extension is the empty string; what may be uploaded is what can be decoded.
ASSUME ReportsAssumption ==
    /\ None \notin {".xml", ".trx"}
    /\ \A f \in GoFiles : f.format = "go"
    /\ \A f \in Documents : IF f.format = "trx" THEN IsTestRun(f) ELSE f.format # "go" /\ IsTree(f)

VARIABLE file       \* the file that is uploaded

vars == <<file, ran, built, lines, outcome, pos, order, suites>>

Parsers == {"junit", "trx", "nunit", "gotestjson"}

\* NewRegistry in app.Run: the order in which parsers are asked.
Registry == <<"junit", "trx", "nunit", "gotestjson">>

\* Names and first elements that each parser's Detect accepts.  root is None
\* for a file in which no XML element starts.
BadGoExtensions == {None, ".json", ".jsonl", ".txt", ".xml"}
GoExtensions == {None, ".json", ".jsonl", ".txt"}

\* Whether go test events are in a file that is not the job's.
HasEvents(f) == IF f.format = "go" THEN DetectsEvents(lines) ELSE f.events

Detect(parser, f) ==
    CASE parser = "junit" -> f.ext = ".xml" /\ f.root \in {"testsuite", "testsuites"}
      [] parser = "trx"   -> \/ f.ext = ".trx"
                             \/ f.ext = ".xml" /\ f.root = "TestRun"
      [] parser = "nunit" -> f.ext = ".xml" /\ f.root \in {"test-run", "test-results"}
      [] parser = "gotestjson" -> f.ext \in GoExtensions /\ HasEvents(f)

\* The first parser of the registry that accepts the file, or None.
Matched(f) ==
    LET accepting == {i \in DOMAIN Registry : Detect(Registry[i], f)} IN
    IF accepting = {} THEN None ELSE Registry[Min(accepting)]

\* Parse of an XML parser: the whole document has to be well formed, and its
\* root must be what the parser expects - a .trx file was not looked into.
Unmarshals(f) == f.wellFormed /\ f.format = Matched(f)

-----------------------------------------------------------------------------
\* ParseFiles up to the choice of a parser, and an XML parser's work.
ParseXml ==
    /\ file.format # "go"
    /\ outcome = "writing"
    /\ outcome' = IF Unmarshals(file) THEN "parsed" ELSE "refused"
    /\ UNCHANGED <<file, ran, built, lines, pos, order, suites>>

ParseGo ==
    /\ file.format = "go"
    /\ UploadReport(Matched(file) = "gotestjson")
    /\ UNCHANGED file

Init ==
    /\ file \in Documents \cup GoFiles
    /\ GoInit

Next ==
    \/ file.format = "go" /\ JobStep /\ UNCHANGED file
    \/ ParseGo
    \/ ParseXml
    \/ ScanLine /\ UNCHANGED file
    \/ EndScan /\ UNCHANGED file

Spec == Init /\ [][Next]_vars

-----------------------------------------------------------------------------
(* Properties.                                                             *)

\* No file is accepted by two parsers, so that the order in which app.Run
\* registers them does not matter, whatever name a CI job gives its file.
OneParserPerFile ==
    \A p, q \in Parsers : Detect(p, file) /\ Detect(q, file) => p = q

XmlParsed == outcome = "parsed" /\ file.format # "go"

\* A suite and all that it is in, the document itself as number 0.
Around(doc) ==
    LET around[k \in 0 .. Len(doc.suites)] ==
            IF k = 0 THEN {0} ELSE around[doc.suites[k].parent] \cup {k}
    IN  around

\* The names of a suite and those around it, outermost first.
Enclosing(doc, i) ==
    LET places == Ascending(Around(doc)[i] \ {0})
    IN  [n \in DOMAIN places |-> doc.suites[places[n]].name]

SuiteOf(doc, case) ==
    IF doc.format = "junit" THEN Join(FilterNonEmpty(Enclosing(doc, case.suite)), " / ")
    ELSE FirstNonEmpty(<<doc.suites[case.suite].fullName, doc.suites[case.suite].name>>)

\* What the producer of the document says of a case: JUnit by elements, of
\* which a failure or an error outweighs the rest, NUnit by a result.
Says(doc, case, status) ==
    LET failed == IF doc.format = "junit" THEN case.marks \cap {"failure", "error"} # {}
                  ELSE case.result \in {"Failed", "Failure"}
        passed == IF doc.format = "junit" THEN case.marks = {}
                  ELSE case.result \in {"Passed", "Success"}
    IN  status = (IF failed THEN "failed" ELSE IF passed THEN "passed" ELSE "skipped")

\* walkSuite and walkNUnitSuite visit every case of a document once, however
\* its suites are nested and on whichever side of NUnit 2's <results> they are:
\* as many rows have a suite, a name and a status as cases have them.
EveryXmlCaseIsReported ==
    XmlParsed /\ file.format # "trx" =>
        LET rows == XmlRows(file) IN
        /\ Len(rows) = Len(file.cases)
        /\ \A r \in ToSet(rows) :
              Cardinality({q \in DOMAIN rows :
                             /\ rows[q].suite = r.suite
                             /\ rows[q].test = r.test
                             /\ rows[q].status = r.status}) =
              Cardinality({c \in DOMAIN file.cases :
                             /\ SuiteOf(file, file.cases[c]) = r.suite
                             /\ file.cases[c].name = r.test
                             /\ Says(file, file.cases[c], r.status)})

\* Names from which a key can be taken apart again: package, class and test are
\* known, and none has the colons of itself that keys are joined with.
Identified(row) ==
    /\ NonEmpty(row.package) /\ NonEmpty(row.class) /\ NonEmpty(row.test)
    /\ \A text \in {row.package, row.class, row.test, row.file} : "::" \notin ToSet(text)

\* deriveTestKey leaves out empty parts and joins the rest, yet the keys of two
\* identified tests are the same only if package, class, name and file are the
\* same but for their case: the history of a test (table tests) is its own.
KeysTellTestsApart ==
    XmlParsed =>
        \A r, q \in ToSet(XmlRows(file)) :
            (Identified(r) /\ Identified(q) /\ r.key = q.key) =>
                /\ ToLower(r.package) = ToLower(q.package)
                /\ ToLower(r.class) = ToLower(q.class)
                /\ ToLower(r.test) = ToLower(q.test)
                /\ ToLower(r.file) = ToLower(q.file)
=============================================================================
