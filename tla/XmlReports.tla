----------------------------- MODULE XmlReports -----------------------------
(***************************************************************************)
(* What the parsers of JUnit, NUnit and TRX files make of a document       *)
(* (internal/parser/junit.go, nunit.go, trx.go).                           *)
(*                                                                         *)
(* A text is the sequence of its segments, those between dots; <<>> is an  *)
(* empty or absent one.  What the parsers join texts with, " / " and "::", *)
(* is a segment, too, also where a name has it of itself; no other segment *)
(* begins or ends with a colon, so that "::" is read where it was written. *)
(* The suites of a document are numbered in document order, and each names *)
(* its parent, 0 at the root.                                              *)
(***************************************************************************)
EXTENDS Orders

CONSTANT Lower      \* strings.ToLower, segment by segment: a function

Segments == DOMAIN Lower
Strings == Seq(Segments)

Joints == {" / ", "::"}

ASSUME LowerAssumption ==
    /\ Joints \subseteq Segments
    /\ \A s \in Segments : Lower[s] \in Segments /\ (Lower[s] = "::" <=> s = "::")

NonEmpty(text) == text # <<>>

\* filterNonEmpty
FilterNonEmpty(texts) == Select(texts, {i \in DOMAIN texts : NonEmpty(texts[i])})

\* firstNonEmpty
FirstNonEmpty(texts) ==
    LET full == {i \in DOMAIN texts : NonEmpty(texts[i])}
    IN  IF full = {} THEN <<>> ELSE texts[Min(full)]

\* strings.Join
Join(texts, joint) ==
    FlattenSeq([i \in DOMAIN texts |-> IF i = 1 THEN texts[i] ELSE <<joint>> \o texts[i]])

\* What is before strings.LastIndex(text, "."), or all of it.
BeforeLastDot(text) ==
    LET dots == {n \in DOMAIN text : n + 1 \in DOMAIN text /\ {text[n], text[n + 1]} \cap Joints = {}}
    IN  IF dots = {} THEN text ELSE SubSeq(text, 1, Max(dots))

ToLower(text) == [i \in DOMAIN text |-> Lower[text[i]]]

BadDeriveTestKey(parts) ==
    ToLower(Join(FilterNonEmpty(SubSeq(parts, 1, 1) \o SubSeq(parts, 4, Len(parts))), "::"))

\* deriveTestKey: the parts that are not empty, in lower case.
DeriveTestKey(parts) == ToLower(Join(FilterNonEmpty(parts), "::"))

-----------------------------------------------------------------------------
(* What encoding/xml makes of a document.                                  *)

Marks == {"failure", "error", "skipped"}

SuiteElements ==
    [parent : Nat, nested : BOOLEAN, name : Strings, package : Strings, fullName : Strings]
JUnitElements ==
    [suite : Nat, nested : {FALSE}, class : Strings, name : Strings, file : Strings,
     marks : SUBSET Marks]
NUnitElements ==
    [suite : Nat, nested : BOOLEAN, name : Strings, fullName : Strings, result : STRING]

\* Elements are numbered as they begin, so that a suite comes after its parent.
IsTree(doc) ==
    /\ doc.suites \in Seq(SuiteElements)
    /\ doc.cases \in Seq(IF doc.format = "junit" THEN JUnitElements ELSE NUnitElements)
    /\ \A i \in DOMAIN doc.suites : doc.suites[i].parent < i
    /\ \A c \in DOMAIN doc.cases : doc.cases[c].suite \in DOMAIN doc.suites

IsTestRun(doc) ==
    /\ doc.definitions \in Seq([id : Nat, class : Strings])
    /\ doc.results \in Seq([id : Nat, name : Strings, outcome : STRING])

-----------------------------------------------------------------------------
(* Walking the suites: first a suite's cases, then its children in turn.   *)

\* NUnit 2 puts children into an element <results>; JUnit does not know it.
CasesWhere(doc, i, nested) ==
    Ascending({c \in DOMAIN doc.cases : doc.cases[c].suite = i /\ doc.cases[c].nested = nested})

ChildrenWhere(doc, i, nested) ==
    Ascending({k \in DOMAIN doc.suites :
                 doc.suites[k].parent = i /\ doc.suites[k].nested = nested})

CasesOf(doc, i) == CasesWhere(doc, i, FALSE) \o CasesWhere(doc, i, TRUE)
ChildrenOf(doc, i) == ChildrenWhere(doc, i, FALSE) \o ChildrenWhere(doc, i, TRUE)

\* walkSuite and walkNUnitSuite: the cases of a document as they are visited.
Visited(doc) ==
    LET walk[i \in 0 .. Len(doc.suites)] ==
            LET children == ChildrenOf(doc, i)
            IN  CasesOf(doc, i) \o FlattenSeq([k \in DOMAIN children |-> walk[children[k]]])
    IN  walk[0]

-----------------------------------------------------------------------------
(* JUnit                                                                   *)

\* caseStatus: what elements a <testcase> has.
CaseStatus(case) ==
    IF case.marks \cap {"failure", "error"} # {} THEN "failed"
    ELSE IF "skipped" \in case.marks THEN "skipped"
    ELSE "passed"

\* currentPath of walkSuite, with the names that are empty.
BadSuitePath(doc, i) == [k \in 1 .. i |-> doc.suites[k].name]

SuitePath(doc, i) ==
    LET path[k \in 0 .. i] ==
            IF k = 0 THEN <<>> ELSE Append(path[doc.suites[k].parent], doc.suites[k].name)
    IN  path[i]

JUnitRow(doc, case) ==
    LET suite   == doc.suites[case.suite]
        path    == Join(FilterNonEmpty(SuitePath(doc, case.suite)), " / ")
        package == FirstNonEmpty(<<suite.package, suite.name>>)
        class   == FirstNonEmpty(<<case.class, suite.name>>)
        name    == FirstNonEmpty(<<case.class, suite.name, path>>)
    IN  [suite |-> path, package |-> package, class |-> class, test |-> case.name,
         file |-> case.file, status |-> CaseStatus(case),
         key |-> DeriveTestKey(<<package, class, name, case.name, case.file>>)]

-----------------------------------------------------------------------------
(* NUnit                                                                   *)

\* nunitCaseStatus: every other result, an error too, counts as skipped.
NUnitCaseStatus(case) ==
    CASE case.result \in {"Passed", "Success"} -> "passed"
      [] case.result \in {"Failed", "Failure"} -> "failed"
      [] OTHER                                 -> "skipped"

\* nunitSplitFullName: namespace and class of Namespace.Class.Test.
NUnitSplitFullName(fullName) ==
    LET class == BeforeLastDot(fullName) IN [package |-> BeforeLastDot(class), class |-> class]

NUnitRow(doc, case) ==
    LET suite == doc.suites[case.suite]
        split == NUnitSplitFullName(FirstNonEmpty(<<case.fullName, case.name>>)) IN
    [suite |-> FirstNonEmpty(<<suite.fullName, suite.name>>),
     package |-> split.package, class |-> split.class, test |-> case.name, file |-> <<>>,
     status |-> NUnitCaseStatus(case),
     key |-> DeriveTestKey(<<split.package, split.class, case.name>>)]

-----------------------------------------------------------------------------
(* TRX                                                                     *)

TRXOutcome(result) ==
    CASE result.outcome = "Passed" -> "passed"
      [] result.outcome = "Failed" -> "failed"
      [] OTHER                     -> "skipped"

\* The map classNames: of definitions with the same id, the last one counts.
ClassNames(doc, id) ==
    LET same == {d \in DOMAIN doc.definitions : doc.definitions[d].id = id} IN
    IF same = {} THEN <<>> ELSE doc.definitions[Max(same)].class

TRXPackageName(class) == BeforeLastDot(class)

TRXRow(doc, result) ==
    LET class   == ClassNames(doc, result.id)
        package == TRXPackageName(class)
    IN  [suite |-> class, package |-> package, class |-> class, test |-> result.name,
         file |-> <<>>, status |-> TRXOutcome(result),
         key |-> DeriveTestKey(<<package, class, result.name>>)]

-----------------------------------------------------------------------------
CaseRow(doc, case) ==
    IF doc.format = "junit" THEN JUnitRow(doc, case) ELSE NUnitRow(doc, case)

\* What Parse returns for a well-formed document.
XmlRows(doc) ==
    IF doc.format = "trx" THEN [r \in DOMAIN doc.results |-> TRXRow(doc, doc.results[r])]
    ELSE LET visited == Visited(doc)
         IN  [n \in DOMAIN visited |-> CaseRow(doc, doc.cases[visited[n]])]
=============================================================================
