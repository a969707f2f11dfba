---------------------------- MODULE GoTestProofs ----------------------------
(***************************************************************************)
(* Proofs about GoTestJSON, for any number of packages, tests, texts,      *)
(* lines and torn lines: types, verdicts (GoInv), then the outputs of      *)
(* tests and the failures of packages (TextInv).  Each relates the job and *)
(* the parser, which never meet, to the lines of the file between them.    *)
(***************************************************************************)
EXTENDS GoTestJSON, TLAPS

-----------------------------------------------------------------------------
(* What a file says up to its n-th line.                                   *)

MentionsIn(line, p, t) == line.package = p /\ line.test = t
VerdictIn(line, p, t) == MentionsIn(line, p, t) /\ line.action \in Verdicts

Mentioned(f, n, p, t) == \E i \in 1 .. n : MentionsIn(f[i], p, t)
Heard(f, n, p) == \E i \in 1 .. n : f[i].package = p

\* v is the last verdict on t in the first n lines, or None if there is none.
LastVerdict(f, n, p, t, v) ==
    \/ v = None /\ \A i \in 1 .. n : ~ VerdictIn(f[i], p, t)
    \/ \E i \in 1 .. n : /\ VerdictIn(f[i], p, t) /\ v = f[i].action
                         /\ \A k \in i + 1 .. n : ~ VerdictIn(f[k], p, t)

LEMMA OneLastVerdict ==
    ASSUME NEW f, NEW n \in Nat, NEW p, NEW t, NEW v, NEW w,
           LastVerdict(f, n, p, t, v), LastVerdict(f, n, p, t, w)
    PROVE  v = w
<1>1. CASE \A i \in 1 .. n : ~ VerdictIn(f[i], p, t)
  BY <1>1 DEF LastVerdict
<1>2. CASE ~ \A i \in 1 .. n : ~ VerdictIn(f[i], p, t)
  <2>1. PICK i \in 1 .. n : /\ VerdictIn(f[i], p, t) /\ v = f[i].action
                            /\ \A k \in i + 1 .. n : ~ VerdictIn(f[k], p, t)
    BY <1>2 DEF LastVerdict
  <2>2. PICK j \in 1 .. n : /\ VerdictIn(f[j], p, t) /\ w = f[j].action
                            /\ \A k \in j + 1 .. n : ~ VerdictIn(f[k], p, t)
    BY <1>2 DEF LastVerdict
  <2>3. ~ i < j /\ ~ j < i
    BY <2>1, <2>2
  <2> QED
    BY <2>1, <2>2, <2>3
<1> QED
  BY <1>1, <1>2

\* The next line is the last one that counts, if it has a verdict.
LEMMA NextVerdict ==
    ASSUME NEW f, NEW n \in Nat, NEW p, NEW t, NEW v, LastVerdict(f, n, p, t, v)
    PROVE  LastVerdict(f, n + 1, p, t,
                       IF VerdictIn(f[n + 1], p, t) THEN f[n + 1].action ELSE v)
<1>1. 1 .. n + 1 = 1 .. n \cup {n + 1}
  OBVIOUS
<1>2. CASE VerdictIn(f[n + 1], p, t)
  <2>1. (n + 1) + 1 .. n + 1 = {}
    OBVIOUS
  <2> QED
    BY <1>1, <1>2, <2>1 DEF LastVerdict
<1>3. CASE ~ VerdictIn(f[n + 1], p, t)
  <2>1. CASE v = None /\ \A i \in 1 .. n : ~ VerdictIn(f[i], p, t)
    BY <1>1, <1>3, <2>1 DEF LastVerdict
  <2>2. ASSUME NEW i \in 1 .. n, VerdictIn(f[i], p, t), v = f[i].action,
               \A k \in i + 1 .. n : ~ VerdictIn(f[k], p, t)
        PROVE  LastVerdict(f, n + 1, p, t, v)
    <3>1. \A k \in i + 1 .. n + 1 : k \in i + 1 .. n \/ k = n + 1
      OBVIOUS
    <3>2. \A k \in i + 1 .. n + 1 : ~ VerdictIn(f[k], p, t)
      BY <1>3, <2>2, <3>1
    <3>3. i \in 1 .. n + 1
      OBVIOUS
    <3> QED
      BY <2>2, <3>2, <3>3 DEF LastVerdict
  <2> QED
    BY <1>3, <2>1, <2>2 DEF LastVerdict
<1> QED
  BY <1>2, <1>3

LEMMA NextMention ==
    ASSUME NEW f, NEW n \in Nat
    PROVE  /\ \A p, t : Mentioned(f, n + 1, p, t) <=>
                           Mentioned(f, n, p, t) \/ MentionsIn(f[n + 1], p, t)
           /\ \A p : Heard(f, n + 1, p) <=> Heard(f, n, p) \/ f[n + 1].package = p
<1>1. 1 .. n + 1 = 1 .. n \cup {n + 1}
  OBVIOUS
<1> QED
  BY <1>1 DEF Mentioned, Heard

\* What was said is still said when the file has grown.
LEMMA FileGrows ==
    ASSUME NEW f, NEW g, NEW n \in Nat, \A i \in 1 .. n : g[i] = f[i]
    PROVE  /\ \A p, t : Mentioned(g, n, p, t) <=> Mentioned(f, n, p, t)
           /\ \A p : Heard(g, n, p) <=> Heard(f, n, p)
           /\ \A p, t, v : LastVerdict(g, n, p, t, v) <=> LastVerdict(f, n, p, t, v)
<1>1. \A i \in 1 .. n : i + 1 .. n \subseteq 1 .. n
  OBVIOUS
<1>2. \A p, t, v : LastVerdict(g, n, p, t, v) <=> LastVerdict(f, n, p, t, v)
  BY <1>1 DEF LastVerdict
<1> QED
  BY <1>2 DEF Mentioned, Heard

-----------------------------------------------------------------------------
(* Sequences in which an element is noted once.                            *)

Once(seq) == \A i, k \in DOMAIN seq : seq[i] = seq[k] => i = k

LEMMA NotedOnce ==
    ASSUME NEW S, NEW seq \in Seq(S), NEW x \in S, Once(seq)
    PROVE  /\ Noted(seq, x) \in Seq(S)
           /\ Once(Noted(seq, x))
           /\ \A y : Has(Noted(seq, x), y) <=> Has(seq, y) \/ y = x
<1>1. CASE Has(seq, x)
  BY <1>1 DEF Noted, Has
<1>2. CASE ~ Has(seq, x)
  <2> DEFINE s == Append(seq, x)
  <2>1. Noted(seq, x) = s
    BY <1>2 DEF Noted
  <2>2. s \in Seq(S) /\ DOMAIN s = DOMAIN seq \cup {Len(seq) + 1}
    OBVIOUS
  <2>3. s[Len(seq) + 1] = x /\ \A i \in DOMAIN seq : s[i] = seq[i] /\ seq[i] # x
    BY <1>2 DEF Has
  <2> HIDE DEF s
  <2>4. Once(s)
    BY <2>2, <2>3 DEF Once
  <2>5. \A y : Has(s, y) <=> Has(seq, y) \/ y = x
    BY <2>2, <2>3 DEF Has
  <2> QED
    BY <2>1, <2>2, <2>4, <2>5
<1> QED
  BY <1>1, <1>2
-----------------------------------------------------------------------------
(* The inductive invariant.                                                *)

\* The history of a test is what its lines in the file say.
FileTellsOfTests ==
    \A p \in Packages, t \in Tests :
        /\ ran[p][t].seen <=> Mentioned(lines, Len(lines), p, t)
        /\ LastVerdict(lines, Len(lines), p, t, ran[p][t].told)

\* What the parser holds is what the lines it has read say, each key once.
ScanTellsOfLines ==
    /\ Once(order)
    /\ \A p \in Packages :
          /\ Has(order, p) <=> Heard(lines, pos, p)
          /\ Once(suites[p].caseOrder)
          /\ \A t \in Tests :
                /\ Has(suites[p].caseOrder, t) <=> Mentioned(lines, pos, p, t)
                /\ LastVerdict(lines, pos, p, t, suites[p].cases[t].status)

ParsedIsRead == outcome = "parsed" => pos = Len(lines)

GoInv == GoTypeOK /\ FileTellsOfTests /\ ScanTellsOfLines /\ ParsedIsRead

-----------------------------------------------------------------------------
(* Steps of the job.                                                       *)

LEMMA LineTypes ==
    /\ TextLine \in Lines /\ LongLine \in Lines
    /\ TextLine.package = None /\ LongLine.package = None
    /\ \A p \in Packages, t \in Tests \cup {None} :
          /\ \A a \in {"run"} \cup Verdicts : Event(p, t, a, None) \in Lines
          /\ \A x \in Texts : Event(p, t, "output", x) \in Lines
          /\ \A a, x : /\ Event(p, t, a, x).package = p
                      /\ Event(p, t, a, x).test = t
                      /\ Event(p, t, a, x).action = a
<1>1. TextLine \in Lines /\ TextLine.package = None
  BY DEF TextLine, Lines
<1>2. LongLine \in Lines /\ LongLine.package = None
  BY DEF LongLine, TextLine, Lines
<1> QED
  BY <1>1, <1>2 DEF Event, Lines

\* l is what the step of the job has written, and the histories know of it.
Wrote(l) ==
    /\ outcome = "writing"
    /\ lines' = Append(lines, l)
    /\ UNCHANGED <<outcome, pos, order, suites>>
    /\ ran' \in [Packages -> [Tests -> Ran]]
    /\ built' \in [Packages -> Built]
    /\ \A p \in Packages, t \in Tests :
          /\ ran'[p][t].seen <=> ran[p][t].seen \/ MentionsIn(l, p, t)
          /\ ran'[p][t].told = IF VerdictIn(l, p, t) THEN l.action ELSE ran[p][t].told

\* A step that writes e of a test and changes the record of that test to r.
TestWrote(p, t, e, r, intact) ==
    /\ Write(e, intact)
    /\ e.package = p /\ e.test = t
    /\ ran' = [ran EXCEPT ![p][t] = r]
    /\ built' \in [Packages -> Built]
    /\ r.seen <=> ran[p][t].seen \/ intact
    /\ r.told = IF intact /\ e.action \in Verdicts THEN e.action ELSE ran[p][t].told

LEMMA TestWrites ==
    ASSUME GoTypeOK, NEW p \in Packages, NEW t \in Tests, NEW e \in Lines, NEW r \in Ran,
           NEW intact \in BOOLEAN, TestWrote(p, t, e, r, intact)
    PROVE  \E l \in Lines : Wrote(l)
<1> DEFINE l == IF intact THEN e ELSE TextLine
<1>1. l \in Lines
  BY LineTypes
<1>2. ran' \in [Packages -> [Tests -> Ran]]
  BY DEF GoTypeOK, TestWrote
<1>3. ASSUME NEW q \in Packages, NEW u \in Tests
      PROVE  /\ ran'[q][u].seen <=> ran[q][u].seen \/ MentionsIn(l, q, u)
             /\ ran'[q][u].told = IF VerdictIn(l, q, u) THEN l.action ELSE ran[q][u].told
  <2>1. CASE q = p /\ u = t
    <3>1. ran'[q][u] = r
      BY <2>1 DEF GoTypeOK, TestWrote
    <3>2. MentionsIn(l, p, t) <=> intact
      BY LineTypes, GoTestAssumption DEF MentionsIn, TestWrote
    <3> QED
      BY <2>1, <3>1, <3>2 DEF VerdictIn, TestWrote
  <2>2. CASE ~ (q = p /\ u = t)
    <3>1. ran'[q][u] = ran[q][u]
      BY <2>2 DEF GoTypeOK, TestWrote
    <3>2. ~ MentionsIn(l, q, u)
      BY <2>2, LineTypes, GoTestAssumption DEF MentionsIn, TestWrote
    <3>3. ran[q][u].seen \in BOOLEAN
      BY DEF GoTypeOK, Ran
    <3> QED
      BY <3>1, <3>2, <3>3 DEF VerdictIn
  <2> QED
    BY <2>1, <2>2
<1>4. Wrote(l)
  BY <1>2, <1>3 DEF Wrote, Write, TestWrote
<1> QED
  BY <1>1, <1>4

\* A step that writes a line on no test.
LEMMA OtherWrites ==
    ASSUME GoTypeOK, NEW e \in Lines, NEW intact \in BOOLEAN, Write(e, intact),
           e.test = None \/ e.package = None, ran' = ran, built' \in [Packages -> Built]
    PROVE  \E l \in Lines : Wrote(l)
<1> DEFINE l == IF intact THEN e ELSE TextLine
<1>1. l \in Lines
  BY LineTypes
<1>2. \A p \in Packages, t \in Tests : ~ MentionsIn(l, p, t) /\ ran[p][t].seen \in BOOLEAN
  BY LineTypes, GoTestAssumption DEF MentionsIn, GoTypeOK, Ran
<1>3. Wrote(l)
  BY <1>2 DEF Wrote, Write, VerdictIn, GoTypeOK
<1> QED
  BY <1>1, <1>3

LEMMA RunTestWrites ==
    ASSUME GoTypeOK, NEW p \in Packages, NEW t \in Tests, NEW intact \in BOOLEAN,
           RunTest(p, t, intact)
    PROVE  \E l \in Lines : Wrote(l)
<1>1. PICK r \in Ran :
          /\ r = [ran[p][t] EXCEPT !.state = "running", !.seen = @ \/ intact]
          /\ r.told = ran[p][t].told
          /\ r.seen <=> ran[p][t].seen \/ intact
  <2> DEFINE r == [ran[p][t] EXCEPT !.state = "running", !.seen = @ \/ intact]
  <2>1. /\ ran[p][t] \in Ran /\ (ran[p][t].seen \/ intact) \in BOOLEAN
        /\ ran[p][t].told \in Verdicts \cup {None}
    BY DEF GoTypeOK, Ran
  <2>2. r \in Ran /\ r.told = ran[p][t].told /\ (r.seen <=> ran[p][t].seen \/ intact)
    BY <2>1 DEF Ran
  <2> QED
    BY <2>2
<1>2. ran' = [ran EXCEPT ![p][t] = r]
  BY <1>1 DEF RunTest, GoTypeOK, Ran
<1>3. built' \in [Packages -> Built]
  BY DEF RunTest, GoTypeOK, Built
<1>4. PICK e \in Lines : /\ e = Event(p, t, "run", None)
                        /\ e.package = p /\ e.test = t /\ e.action \notin Verdicts
  BY LineTypes DEF Verdicts
<1>5. Write(e, intact)
  BY <1>4 DEF RunTest
<1>6. TestWrote(p, t, e, r, intact)
  BY <1>1, <1>2, <1>3, <1>4, <1>5 DEF TestWrote
<1> QED
  BY <1>6, TestWrites

LEMMA TestPrintsWrites ==
    ASSUME GoTypeOK, NEW p \in Packages, NEW t \in Tests, NEW x \in Texts,
           NEW intact \in BOOLEAN, TestPrints(p, t, x, intact)
    PROVE  \E l \in Lines : Wrote(l)
<1>1. PICK r \in Ran :
          /\ r = [ran[p][t] EXCEPT !.printed = IF intact THEN Append(@, x) ELSE @,
                                  !.seen = @ \/ intact]
          /\ r.told = ran[p][t].told
          /\ r.seen <=> ran[p][t].seen \/ intact
  <2> DEFINE r == [ran[p][t] EXCEPT !.printed = IF intact THEN Append(@, x) ELSE @,
                                  !.seen = @ \/ intact]
  <2>1. /\ ran[p][t] \in Ran /\ (ran[p][t].seen \/ intact) \in BOOLEAN
        /\ (IF intact THEN Append(ran[p][t].printed, x) ELSE ran[p][t].printed) \in Seq(Texts)
    BY DEF GoTypeOK, Ran
  <2>2. r \in Ran /\ r.told = ran[p][t].told /\ (r.seen <=> ran[p][t].seen \/ intact)
    BY <2>1 DEF Ran
  <2> QED
    BY <2>2
<1>2. ran' = [ran EXCEPT ![p][t] = r]
  BY <1>1 DEF TestPrints, GoTypeOK, Ran
<1>3. built' \in [Packages -> Built]
  BY DEF TestPrints, GoTypeOK
<1>4. PICK e \in Lines : /\ e = Event(p, t, "output", x)
                        /\ e.package = p /\ e.test = t /\ e.action \notin Verdicts
  BY LineTypes DEF Verdicts
<1>5. Write(e, intact)
  BY <1>4 DEF TestPrints
<1>6. TestWrote(p, t, e, r, intact)
  BY <1>1, <1>2, <1>3, <1>4, <1>5 DEF TestWrote
<1> QED
  BY <1>6, TestWrites

LEMMA TestEndsWrites ==
    ASSUME GoTypeOK, NEW p \in Packages, NEW t \in Tests, NEW v \in Verdicts,
           NEW intact \in BOOLEAN, TestEnds(p, t, v, intact)
    PROVE  \E l \in Lines : Wrote(l)
<1>1. PICK r \in Ran :
          /\ r = [ran[p][t] EXCEPT !.state = v, !.told = IF intact THEN v ELSE @,
                                  !.seen = @ \/ intact]
          /\ r.told = IF intact THEN v ELSE ran[p][t].told
          /\ r.seen <=> ran[p][t].seen \/ intact
  <2> DEFINE r == [ran[p][t] EXCEPT !.state = v, !.told = IF intact THEN v ELSE @,
                                  !.seen = @ \/ intact]
  <2>1. /\ ran[p][t] \in Ran /\ (ran[p][t].seen \/ intact) \in BOOLEAN
        /\ (IF intact THEN v ELSE ran[p][t].told) \in Verdicts \cup {None}
    BY DEF GoTypeOK, Ran
  <2>2. /\ r \in Ran
        /\ r.told = IF intact THEN v ELSE ran[p][t].told
        /\ r.seen <=> ran[p][t].seen \/ intact
    BY <2>1 DEF Ran, Verdicts
  <2> QED
    BY <2>2
<1>2. ran' = [ran EXCEPT ![p][t] = r]
  BY <1>1 DEF TestEnds, GoTypeOK, Ran
<1>3. built' \in [Packages -> Built]
  BY DEF TestEnds, GoTypeOK
<1>4. PICK e \in Lines : /\ e = Event(p, t, v, None)
                        /\ e.package = p /\ e.test = t /\ e.action = v
  BY LineTypes DEF Verdicts
<1>5. Write(e, intact)
  BY <1>4 DEF TestEnds
<1>6. TestWrote(p, t, e, r, intact)
  BY <1>1, <1>2, <1>3, <1>4, <1>5 DEF TestWrote
<1> QED
  BY <1>6, TestWrites

LEMMA PackagePrintsWrites ==
    ASSUME GoTypeOK, NEW p \in Packages, NEW x \in Texts, NEW intact \in BOOLEAN,
           PackagePrints(p, x, intact)
    PROVE  \E l \in Lines : Wrote(l)
<1> DEFINE e == Event(p, None, "output", x)
<1>1. built' \in [Packages -> Built]
  <2> DEFINE b == [built[p] EXCEPT !.printed = IF intact THEN Append(@, x) ELSE @]
  <2>1. b \in Built
    <3>1. /\ built[p] \in Built
          /\ (IF intact THEN Append(built[p].printed, x) ELSE built[p].printed) \in Seq(Texts)
      BY DEF GoTypeOK, Built
    <3> QED
      BY <3>1 DEF Built
  <2>2. built' = [built EXCEPT ![p] = b]
    BY DEF PackagePrints, GoTypeOK, Built
  <2> QED
    BY <2>1, <2>2 DEF GoTypeOK
<1>2. e \in Lines /\ e.test = None
  BY LineTypes
<1>3. Write(e, intact) /\ ran' = ran
  BY DEF PackagePrints
<1> HIDE DEF e
<1> QED
  BY <1>1, <1>2, <1>3, OtherWrites

LEMMA PackageEndsWrites ==
    ASSUME GoTypeOK, NEW p \in Packages, NEW passed \in BOOLEAN, NEW intact \in BOOLEAN,
           PackageEnds(p, passed, intact)
    PROVE  \E l \in Lines : Wrote(l)
<1> DEFINE e == Event(p, None, IF passed THEN "pass" ELSE "fail", None)
<1>1. built' \in [Packages -> Built]
  <2> DEFINE b == [built[p] EXCEPT !.state = IF passed THEN "passed" ELSE "failed",
                                   !.told = ~ passed /\ intact]
  <2>1. b \in Built
    <3>1. built[p] \in Built /\ (~ passed /\ intact) \in BOOLEAN
      BY DEF GoTypeOK
    <3> QED
      BY <3>1 DEF Built
  <2>2. built' = [built EXCEPT ![p] = b]
    BY DEF PackageEnds, GoTypeOK, Built
  <2> QED
    BY <2>1, <2>2 DEF GoTypeOK
<1>2. e \in Lines /\ e.test = None
  BY LineTypes DEF Verdicts
<1>3. Write(e, intact) /\ ran' = ran
  BY DEF PackageEnds
<1> HIDE DEF e
<1> QED
  BY <1>1, <1>2, <1>3, OtherWrites

LEMMA LongTextWrites ==
    ASSUME GoTypeOK, LongText
    PROVE  \E l \in Lines : Wrote(l)
<1>1. Write(LongLine, TRUE) /\ ran' = ran /\ built' \in [Packages -> Built]
  BY DEF LongText, job, GoTypeOK
<1> QED
  BY <1>1, LineTypes, OtherWrites

LEMMA JobWrites ==
    ASSUME GoTypeOK, JobStep
    PROVE  \E l \in Lines : Wrote(l)
  BY RunTestWrites, TestPrintsWrites, TestEndsWrites, PackagePrintsWrites, PackageEndsWrites,
     LongTextWrites DEF JobStep

LEMMA JobKeeps ==
    ASSUME GoInv, JobStep
    PROVE  GoInv'
<1>1. PICK l \in Lines : Wrote(l)
  BY JobWrites DEF GoInv
<1> DEFINE n == Len(lines)
<1>2. lines \in Seq(Lines) /\ pos \in 0 .. n
  BY DEF GoInv, GoTypeOK
<1>3. lines' \in Seq(Lines) /\ Len(lines') = n + 1 /\ n \in Nat
  BY <1>1, <1>2 DEF Wrote
<1>4. lines'[n + 1] = l /\ \A i \in 1 .. n : lines'[i] = lines[i]
  BY <1>1, <1>2 DEF Wrote
<1>5. GoTypeOK'
  BY <1>1, <1>2, <1>3 DEF GoInv, GoTypeOK, Wrote
<1>6. FileTellsOfTests'
  <2>1. SUFFICES ASSUME NEW p \in Packages, NEW t \in Tests
                 PROVE  /\ ran'[p][t].seen <=> Mentioned(lines', n + 1, p, t)
                        /\ LastVerdict(lines', n + 1, p, t, ran'[p][t].told)
    BY <1>3 DEF FileTellsOfTests
  <2>2. /\ ran[p][t].seen <=> Mentioned(lines', n, p, t)
        /\ LastVerdict(lines', n, p, t, ran[p][t].told)
    BY <1>3, <1>4, FileGrows DEF GoInv, FileTellsOfTests
  <2>3. ran'[p][t].seen <=> Mentioned(lines', n + 1, p, t)
    BY <1>1, <1>3, <1>4, <2>2, NextMention DEF Wrote, Mentioned
  <2>4. LastVerdict(lines', n + 1, p, t, ran'[p][t].told)
    BY <1>1, <1>3, <1>4, <2>2, NextVerdict DEF Wrote
  <2> QED
    BY <2>3, <2>4
<1>7. ScanTellsOfLines'
  <2>1. pos \in Nat /\ \A i \in 1 .. pos : lines'[i] = lines[i]
    BY <1>2, <1>3, <1>4
  <2>2. /\ \A p, t : Mentioned(lines', pos, p, t) <=> Mentioned(lines, pos, p, t)
        /\ \A p : Heard(lines', pos, p) <=> Heard(lines, pos, p)
        /\ \A p, t, v : LastVerdict(lines', pos, p, t, v) <=> LastVerdict(lines, pos, p, t, v)
    BY <2>1, FileGrows
  <2>3. UNCHANGED <<pos, order, suites>>
    BY <1>1 DEF Wrote
  <2> QED
    BY <2>2, <2>3 DEF GoInv, ScanTellsOfLines
<1>8. ParsedIsRead'
  BY <1>1 DEF Wrote, ParsedIsRead
<1> QED
  BY <1>5, <1>6, <1>7, <1>8 DEF GoInv

-----------------------------------------------------------------------------
(* Steps of the upload and of the parser.                                  *)

LEMMA UploadReportKeeps ==
    ASSUME GoInv, NEW named \in BOOLEAN, UploadReport(named)
    PROVE  GoInv'
<1>1. /\ outcome' \in {"scanning", "refused"}
      /\ UNCHANGED <<ran, built, lines, pos, order, suites>>
  BY DEF UploadReport
<1> QED
  BY <1>1 DEF GoInv, GoTypeOK, FileTellsOfTests, ScanTellsOfLines, ParsedIsRead

LEMMA EndScanKeeps ==
    ASSUME GoInv, EndScan
    PROVE  GoInv'
<1>1. /\ outcome' = "parsed" /\ pos = Len(lines)
      /\ UNCHANGED <<ran, built, lines, pos, order, suites>>
  BY DEF EndScan
<1> QED
  BY <1>1 DEF GoInv, GoTypeOK, FileTellsOfTests, ScanTellsOfLines, ParsedIsRead

\* What an event does to what is known of its package.
LEMMA SuiteTypes ==
    ASSUME NEW suite \in Suites, NEW e \in Lines, Once(suite.caseOrder)
    PROVE  /\ SuiteAfter(suite, e) \in Suites
           /\ Once(SuiteAfter(suite, e).caseOrder)
           /\ \A t \in Tests :
                 /\ Has(SuiteAfter(suite, e).caseOrder, t) <=>
                        Has(suite.caseOrder, t) \/ e.test = t
                 /\ SuiteAfter(suite, e).cases[t].status =
                        IF e.test = t /\ e.action \in Verdicts THEN e.action
                        ELSE suite.cases[t].status
<1>1. CASE e.test = None
  <2> DEFINE out == IF e.action = "output" THEN Append(suite.output, e.text) ELSE suite.output
             failed == suite.failed \/ e.action = "fail"
  <2>1. SuiteAfter(suite, e) = [suite EXCEPT !.output = out, !.failed = failed]
    BY <1>1 DEF SuiteAfter, Suites
  <2>2. e.action = "output" => e.text \in Texts
    BY DEF Lines, Verdicts
  <2>3. suite.output \in Seq(Texts)
    BY DEF Suites
  <2>4. out \in Seq(Texts) /\ failed \in BOOLEAN
    BY <2>2, <2>3
  <2> HIDE DEF out, failed
  <2>5. /\ SuiteAfter(suite, e) \in Suites
        /\ SuiteAfter(suite, e).cases = suite.cases
        /\ SuiteAfter(suite, e).caseOrder = suite.caseOrder
    BY <2>1, <2>4 DEF Suites
  <2> QED
    BY <1>1, <2>5, GoTestAssumption
<1>2. CASE e.test # None
  <2>1. e.test \in Tests
    BY <1>2 DEF Lines
  <2> DEFINE u == e.test
             case == suite.cases[u]
             out == IF e.action = "output" THEN Append(case.output, e.text) ELSE case.output
             status == IF e.action \in Verdicts THEN e.action ELSE case.status
             after == [case EXCEPT !.output = out, !.status = status]
             seen == Noted(suite.caseOrder, u)
  <2>2. SuiteAfter(suite, e) = [suite EXCEPT !.caseOrder = seen, !.cases[u] = after]
    BY <1>2 DEF SuiteAfter, CaseAfter
  <2>3. case \in Cases
    BY <2>1 DEF Suites
  <2>4. e.action = "output" => e.text \in Texts
    BY DEF Lines, Verdicts
  <2>5. out \in Seq(Texts) /\ status \in Verdicts \cup {None}
    BY <2>3, <2>4 DEF Cases
  <2>6. after \in Cases /\ after.status = status
    BY <2>3, <2>5 DEF Cases
  <2>7. /\ seen \in Seq(Tests) /\ Once(seen)
        /\ \A t : Has(seen, t) <=> Has(suite.caseOrder, t) \/ t = u
    BY <2>1, NotedOnce DEF Suites
  <2> HIDE DEF after, seen
  <2> DEFINE cases == [suite.cases EXCEPT ![u] = after]
  <2>8. /\ SuiteAfter(suite, e) \in Suites
        /\ SuiteAfter(suite, e).cases = cases
        /\ SuiteAfter(suite, e).caseOrder = seen
    <3>1. cases \in [Tests -> Cases]
      BY <2>1, <2>6 DEF Suites
    <3>2. SuiteAfter(suite, e) = [suite EXCEPT !.caseOrder = seen, !.cases = cases]
      BY <2>2 DEF Suites
    <3> HIDE DEF cases
    <3> QED
      BY <2>7, <3>1, <3>2 DEF Suites
  <2>9. \A t \in Tests : SuiteAfter(suite, e).cases[t] = IF t = u THEN after ELSE suite.cases[t]
    BY <2>1, <2>8 DEF Suites
  <2> QED
    BY <2>6, <2>7, <2>8, <2>9
<1> QED
  BY <1>1, <1>2

LEMMA ScanLineKeeps ==
    ASSUME GoInv, ScanLine
    PROVE  GoInv'
<1> DEFINE e == lines[pos + 1]
<1>1. /\ outcome = "scanning" /\ pos < Len(lines)
      /\ UNCHANGED <<ran, built, lines>>
  BY DEF ScanLine
<1>2. /\ lines \in Seq(Lines) /\ pos \in Nat /\ pos + 1 \in 1 .. Len(lines)
      /\ order \in Seq(Packages) /\ suites \in [Packages -> Suites]
  BY <1>1 DEF GoInv, GoTypeOK
<1>3. PICK n \in Nat : n = pos
  BY <1>2
<1>4. PICK l \in Lines : l = lines[n + 1]
  BY <1>2, <1>3
<1>5. FileTellsOfTests'
  BY <1>1 DEF GoInv, FileTellsOfTests
<1>6. CASE IsLong(e)
  <2>1. outcome' = "refused" /\ UNCHANGED <<pos, order, suites>>
    BY <1>6 DEF ScanLine, scan
  <2> QED
    BY <1>1, <1>5, <2>1 DEF GoInv, GoTypeOK, ScanTellsOfLines, ParsedIsRead
<1>7. CASE ~ IsLong(e)
  <2>1. /\ pos' = n + 1 /\ outcome' = outcome
        /\ IF IsEvent(l)
           THEN /\ order' = Noted(order, l.package)
                /\ suites' = [suites EXCEPT ![l.package] = SuiteAfter(@, l)]
           ELSE UNCHANGED <<order, suites>>
    BY <1>3, <1>4, <1>7 DEF ScanLine, ScanEvent
  <2>2. ParsedIsRead'
    BY <1>1, <2>1 DEF ParsedIsRead
  <2>3. /\ \A p, t : Mentioned(lines, n + 1, p, t) <=>
                       Mentioned(lines, n, p, t) \/ MentionsIn(l, p, t)
        /\ \A p : Heard(lines, n + 1, p) <=> Heard(lines, n, p) \/ l.package = p
    BY <1>4, NextMention
  <2>4. \A p, t, v : LastVerdict(lines, n, p, t, v) =>
                        LastVerdict(lines, n + 1, p, t, IF VerdictIn(l, p, t) THEN l.action ELSE v)
    BY <1>4, NextVerdict
  <2>5. CASE ~ IsEvent(l)
    <3>1. \A p \in Packages : \A t : ~ (l.package = p) /\ ~ MentionsIn(l, p, t)
      BY <2>5, GoTestAssumption DEF IsEvent, MentionsIn
    <3>2. UNCHANGED <<order, suites>>
      BY <2>1, <2>5
    <3>3. ScanTellsOfLines'
      BY <1>1, <1>3, <2>1, <2>3, <2>4, <3>1, <3>2 DEF GoInv, ScanTellsOfLines, VerdictIn
    <3>4. GoTypeOK'
      BY <1>1, <1>2, <1>3, <2>1, <3>2 DEF GoInv, GoTypeOK
    <3> QED
      BY <1>5, <2>2, <3>3, <3>4 DEF GoInv
  <2>6. CASE IsEvent(l)
    <3>1. PICK q \in Packages : q = l.package
      BY <2>6 DEF IsEvent, Lines
    <3>2. /\ order' = Noted(order, q)
          /\ suites' = [suites EXCEPT ![q] = SuiteAfter(suites[q], l)]
      BY <2>1, <2>6, <3>1
    <3>3. /\ order' \in Seq(Packages) /\ Once(order')
          /\ \A p : Has(order', p) <=> Has(order, p) \/ p = q
      BY <1>2, <3>2, NotedOnce DEF GoInv, ScanTellsOfLines
    <3>4. /\ SuiteAfter(suites[q], l) \in Suites
          /\ Once(SuiteAfter(suites[q], l).caseOrder)
          /\ \A t \in Tests :
                /\ Has(SuiteAfter(suites[q], l).caseOrder, t) <=>
                       Has(suites[q].caseOrder, t) \/ l.test = t
                /\ SuiteAfter(suites[q], l).cases[t].status =
                       IF l.test = t /\ l.action \in Verdicts THEN l.action
                       ELSE suites[q].cases[t].status
      BY <1>2, SuiteTypes DEF GoInv, ScanTellsOfLines
    <3>5. GoTypeOK'
      BY <1>1, <1>2, <1>3, <2>1, <3>2, <3>3, <3>4 DEF GoInv, GoTypeOK
    <3>6. \A p \in Packages : /\ suites'[p] = IF p = q THEN SuiteAfter(suites[q], l) ELSE suites[p]
                              /\ Has(order', p) <=> Heard(lines, n + 1, p)
      BY <1>2, <1>3, <2>3, <3>1, <3>2, <3>3 DEF GoInv, ScanTellsOfLines
    <3>7. ASSUME NEW p \in Packages, NEW t \in Tests
          PROVE  /\ Has(suites'[p].caseOrder, t) <=> Mentioned(lines, n + 1, p, t)
                 /\ LastVerdict(lines, n + 1, p, t, suites'[p].cases[t].status)
      <4>1. /\ Has(suites[p].caseOrder, t) <=> Mentioned(lines, n, p, t)
            /\ LastVerdict(lines, n, p, t, suites[p].cases[t].status)
        BY <1>3 DEF GoInv, ScanTellsOfLines
      <4>2. LastVerdict(lines, n + 1, p, t,
                        IF VerdictIn(l, p, t) THEN l.action ELSE suites[p].cases[t].status)
        BY <2>4, <4>1
      <4>3. CASE p = q
        BY <2>3, <3>1, <3>4, <3>6, <4>1, <4>2, <4>3 DEF MentionsIn, VerdictIn
      <4>4. CASE p # q
        BY <2>3, <3>1, <3>6, <4>1, <4>2, <4>4 DEF MentionsIn, VerdictIn
      <4> QED
        BY <4>3, <4>4
    <3>8. \A p \in Packages : Once(suites'[p].caseOrder)
      BY <3>4, <3>6 DEF GoInv, ScanTellsOfLines
    <3>9. ScanTellsOfLines'
      BY <1>1, <2>1, <3>3, <3>6, <3>7, <3>8 DEF ScanTellsOfLines
    <3> QED
      BY <1>5, <2>2, <3>5, <3>9 DEF GoInv
  <2> QED
    BY <2>5, <2>6
<1> QED
  BY <1>6, <1>7

LEMMA InitHolds == GoInit => GoInv
<1> SUFFICES ASSUME GoInit PROVE GoInv
  OBVIOUS
<1>1. NotRun \in Ran /\ NotRun.seen = FALSE /\ NotRun.told = None
  BY DEF NotRun, Ran
<1>2. NotBuilt \in Built
  BY DEF NotBuilt, Built
<1>3. NewCase \in Cases /\ NewCase.status = None
  BY DEF NewCase, Cases
<1>4. /\ NewSuite \in Suites /\ NewSuite.caseOrder = <<>>
      /\ \A t \in Tests : NewSuite.cases[t] = NewCase
  BY <1>3 DEF NewSuite, Suites
<1>5. GoTypeOK
  BY <1>1, <1>2, <1>4 DEF GoInit, GoTypeOK
<1>6. /\ \A p, t : ~ Mentioned(lines, 0, p, t) /\ LastVerdict(lines, 0, p, t, None)
      /\ \A p : ~ Heard(lines, 0, p)
  BY DEF Mentioned, LastVerdict, Heard
<1>7. Once(<<>>) /\ \A y : ~ Has(<<>>, y)
  BY DEF Once, Has
<1>8. FileTellsOfTests
  BY <1>1, <1>6 DEF GoInit, FileTellsOfTests
<1>9. ScanTellsOfLines
  BY <1>3, <1>4, <1>6, <1>7 DEF GoInit, ScanTellsOfLines
<1> QED
  BY <1>5, <1>8, <1>9 DEF GoInit, GoInv, ParsedIsRead

LEMMA GoInvNext == GoInv /\ [GoNext]_goVars => GoInv'
<1> SUFFICES ASSUME GoInv, [GoNext]_goVars PROVE GoInv'
  OBVIOUS
<1>1. CASE UNCHANGED goVars
  BY <1>1 DEF goVars, GoInv, GoTypeOK, FileTellsOfTests, ScanTellsOfLines, ParsedIsRead
<1> QED
  BY <1>1, JobKeeps, UploadReportKeeps, ScanLineKeeps, EndScanKeeps DEF GoNext

LEMMA GoInvariance == GoSpec => []GoInv
  BY InitHolds, GoInvNext, PTL DEF GoSpec

-----------------------------------------------------------------------------
(* The theorems.                                                           *)

\* The maps of the parser keep the types of their declarations, whatever is in
\* the file.
THEOREM GoTestTypeCorrect == GoSpec => []GoTypeOK
<1>1. GoInv => GoTypeOK
  BY DEF GoInv
<1> QED
  BY <1>1, GoInvariance, PTL

LEMMA RowsArePlaced ==
    ASSUME GoInv, NEW p \in Packages, NEW t \in Tests, NEW at \in PlacesOf(p, t)
    PROVE  /\ at = <<at[1], at[2]>>
           /\ at[1] \in DOMAIN order /\ order[at[1]] = p
           /\ at[2] \in DOMAIN suites[p].caseOrder /\ suites[p].caseOrder[at[2]] = t
           /\ RowAt(at) = TestRow(p, t)
<1>1. /\ at \in Places /\ RowAt(at).package = p /\ RowAt(at).test = t
  BY DEF PlacesOf
<1>2. PICK i \in DOMAIN order : \E k \in DOMAIN RowsOf(order[i]) : at = <<i, k>>
  BY <1>1 DEF Places
<1>3. PICK j \in DOMAIN RowsOf(order[i]) : at = <<i, j>> /\ RowAt(at) = RowsOf(order[i])[j]
  BY <1>2 DEF RowAt
<1>4. PICK q : q = order[i]
  OBVIOUS
<1>5. CASE suites[q].caseOrder = <<>> /\ suites[q].failed
  <2>1. RowsOf(q) = <<PackageRow(q)>>
    BY <1>5 DEF RowsOf
  <2>2. RowAt(at) = PackageRow(q)
    BY <1>3, <1>4, <2>1
  <2> QED
    BY <1>1, <2>2, GoTestAssumption DEF PackageRow
<1>6. CASE ~ (suites[q].caseOrder = <<>> /\ suites[q].failed)
  <2>1. RowsOf(q) = [k \in DOMAIN suites[q].caseOrder |-> TestRow(q, suites[q].caseOrder[k])]
    BY <1>6 DEF RowsOf
  <2>2. j \in DOMAIN suites[q].caseOrder /\ RowAt(at) = TestRow(q, suites[q].caseOrder[j])
    BY <1>3, <1>4, <2>1
  <2>3. q = p /\ suites[q].caseOrder[j] = t
    BY <1>1, <2>2 DEF TestRow
  <2> QED
    BY <1>2, <1>3, <1>4, <2>2, <2>3
<1> QED
  BY <1>5, <1>6

LEMMA OneRowEach ==
    ASSUME GoInv, outcome = "parsed", NEW p \in Packages, NEW t \in Tests
    PROVE  IF ran[p][t].seen
           THEN \E at \in Places : /\ PlacesOf(p, t) = {at}
                                   /\ RowAt(at).status = StatusOf(ran[p][t].told)
           ELSE PlacesOf(p, t) = {}
<1>1. /\ pos = Len(lines) /\ pos \in Nat
      /\ order \in Seq(Packages) /\ suites[p].caseOrder \in Seq(Tests)
  BY DEF GoInv, ParsedIsRead, GoTypeOK, Suites
<1>2. /\ Has(suites[p].caseOrder, t) <=> Mentioned(lines, pos, p, t)
      /\ ran[p][t].seen <=> Mentioned(lines, pos, p, t)
      /\ Has(order, p) <=> Heard(lines, pos, p)
  BY <1>1 DEF GoInv, FileTellsOfTests, ScanTellsOfLines
<1>3. suites[p].cases[t].status = ran[p][t].told
  BY <1>1, OneLastVerdict DEF GoInv, FileTellsOfTests, ScanTellsOfLines
<1>4. CASE ~ ran[p][t].seen
  <2>1. \A at \in PlacesOf(p, t) : FALSE
    BY <1>2, <1>4, RowsArePlaced DEF Has
  <2> QED
    BY <1>4, <2>1
<1>5. CASE ran[p][t].seen
  <2>1. PICK j \in DOMAIN suites[p].caseOrder : suites[p].caseOrder[j] = t
    BY <1>2, <1>5 DEF Has
  <2>2. PICK i \in DOMAIN order : order[i] = p
    BY <1>2, <1>5 DEF Has, Mentioned, Heard, MentionsIn
  <2> DEFINE at == <<i, j>>
  <2>3. /\ suites[p].caseOrder # <<>>
        /\ RowsOf(p) = [k \in DOMAIN suites[p].caseOrder |-> TestRow(p, suites[p].caseOrder[k])]
    BY <2>1 DEF RowsOf
  <2>4. at \in Places
    BY <2>1, <2>2, <2>3 DEF Places
  <2>5. RowAt(at) = TestRow(p, t)
    BY <2>1, <2>2, <2>3 DEF RowAt
  <2>6. RowAt(at).package = p /\ RowAt(at).test = t
        /\ RowAt(at).status = StatusOf(ran[p][t].told)
    BY <1>3, <2>5 DEF TestRow
  <2>7. at \in PlacesOf(p, t)
    BY <2>4, <2>6 DEF PlacesOf
  <2>8. ASSUME NEW a \in PlacesOf(p, t) PROVE a = at
    <3>1. /\ a = <<a[1], a[2]>>
          /\ a[1] \in DOMAIN order /\ order[a[1]] = p
          /\ a[2] \in DOMAIN suites[p].caseOrder /\ suites[p].caseOrder[a[2]] = t
      BY RowsArePlaced
    <3>2. a[1] = i /\ a[2] = j
      BY <2>1, <2>2, <3>1 DEF GoInv, ScanTellsOfLines, Once
    <3> QED
      BY <3>1, <3>2
  <2>9. PlacesOf(p, t) = {at}
    BY <2>7, <2>8
  <2> QED
    BY <1>5, <2>4, <2>6, <2>9
<1> QED
  BY <1>4, <1>5

LEMMA LastVerdictsAreTold == GoInv => RowsTellLastVerdict
  BY OneRowEach DEF RowsTellLastVerdict

\* For any number of packages, tests and lines, however they interleave and are
\* torn: each test that a parsed file mentions has one result, with the last
\* verdict on it in the file, and no other test has one.
THEOREM ParserTellsLastVerdict == GoSpec => []RowsTellLastVerdict
  BY LastVerdictsAreTold, GoInvariance, PTL

-----------------------------------------------------------------------------
(* What tests and packages print, and which packages fail.                 *)

\* What t of p, or p itself (t is None), has printed and the file has got.
Printed(p, t) == IF t = None THEN built[p].printed ELSE ran[p][t].printed

\* What the parser has read of it.
Read(p, t) == IF t = None THEN suites[p].output ELSE suites[p].cases[t].output

PrintsIn(line, p, t) == MentionsIn(line, p, t) /\ line.action = "output"
FailsIn(line, p) == MentionsIn(line, p, None) /\ line.action = "fail"

WithText(text, line, p, t) == IF PrintsIn(line, p, t) THEN Append(text, line.text) ELSE text

\* h[n] is the text of t in the first n lines.
Transcript(h, p, t) ==
    /\ h[0] = <<>>
    /\ \A n \in 1 .. Len(lines) : h[n] = WithText(h[n - 1], lines[n], p, t)

\* The one transcript of the file tells what was printed, all of it, and what
\* has been read, up to where the scanner is.
TextsAgree ==
    \A p \in Packages, t \in Tests \cup {None} :
        \E h : /\ Transcript(h, p, t)
               /\ Printed(p, t) = h[Len(lines)]
               /\ Read(p, t) = h[pos]

FailHeard(f, n, p) == \E i \in 1 .. n : FailsIn(f[i], p)

FailuresAgree ==
    \A p \in Packages :
        /\ built[p].told <=> FailHeard(lines, Len(lines), p)
        /\ suites[p].failed <=> FailHeard(lines, pos, p)

\* A package ends once.
EndsOnce == \A p \in Packages : built[p].state \in {"waiting", "running"} => ~ built[p].told

TextInv == TextsAgree /\ FailuresAgree /\ EndsOnce

\* l is what a step of the job has written, and the histories know of it.
Told(l) ==
    /\ lines' = Append(lines, l)
    /\ UNCHANGED <<pos, suites>>
    /\ EndsOnce'
    /\ \A p \in Packages :
          /\ built'[p].told <=> built[p].told \/ FailsIn(l, p)
          /\ \A t \in Tests \cup {None} : Printed(p, t)' = WithText(Printed(p, t), l, p, t)

\* A line of a test that prints nothing or is torn.
LEMMA SilentTestLine ==
    ASSUME GoTypeOK, EndsOnce, NEW e \in Lines, NEW intact \in BOOLEAN, Write(e, intact),
           e.test # None, e.action # "output" \/ ~ intact,
           \A p \in Packages : /\ built'[p].told = built[p].told
                               /\ built'[p].printed = built[p].printed
                               /\ built'[p].state \in {"waiting", "running"} =>
                                      built[p].state \in {"waiting", "running"}
                               /\ \A t \in Tests : ran'[p][t].printed = ran[p][t].printed
    PROVE  \E l \in Lines : Told(l)
<1> DEFINE l == IF intact THEN e ELSE TextLine
<1>1. l \in Lines
  BY LineTypes
<1>2. \A p \in Packages, t \in Tests \cup {None} : ~ PrintsIn(l, p, t) /\ ~ FailsIn(l, p)
  BY LineTypes, GoTestAssumption DEF PrintsIn, FailsIn, MentionsIn
<1>3. EndsOnce'
  BY DEF EndsOnce
<1>4. lines' = Append(lines, l) /\ UNCHANGED <<pos, suites>>
  BY DEF Write
<1>5. \A p \in Packages : built[p].told \in BOOLEAN
  BY DEF GoTypeOK, Built
<1> HIDE DEF l
<1>6. Told(l)
  BY <1>2, <1>3, <1>4, <1>5 DEF Told, Printed, WithText
<1> QED
  BY <1>1, <1>6

LEMMA RunTestTells ==
    ASSUME GoTypeOK, EndsOnce, NEW p \in Packages, NEW t \in Tests, NEW intact \in BOOLEAN,
           RunTest(p, t, intact)
    PROVE  \E l \in Lines : Told(l)
<1>1. PICK e \in Lines : e = Event(p, t, "run", None) /\ e.test = t /\ e.action = "run"
  BY LineTypes
<1>2. Write(e, intact)
  BY <1>1 DEF RunTest
<1>3. \A q \in Packages, u \in Tests : ran'[q][u].printed = ran[q][u].printed
  BY DEF RunTest, GoTypeOK, Ran
<1>4. \A q \in Packages : /\ built'[q].told = built[q].told
                          /\ built'[q].printed = built[q].printed
                          /\ built'[q].state \in {"waiting", "running"} =>
                                 built[q].state \in {"waiting", "running"}
  BY DEF RunTest, GoTypeOK, Built
<1> QED
  BY <1>1, <1>2, <1>3, <1>4, SilentTestLine, GoTestAssumption

LEMMA TestEndsTells ==
    ASSUME GoTypeOK, EndsOnce, NEW p \in Packages, NEW t \in Tests, NEW v \in Verdicts,
           NEW intact \in BOOLEAN, TestEnds(p, t, v, intact)
    PROVE  \E l \in Lines : Told(l)
<1> DEFINE e == Event(p, t, v, None)
<1>1. e \in Lines /\ e.test = t /\ e.action = v
  BY LineTypes DEF Verdicts
<1>2. Write(e, intact) /\ UNCHANGED built
  BY DEF TestEnds
<1>3. \A q \in Packages, u \in Tests : ran'[q][u].printed = ran[q][u].printed
  BY DEF TestEnds, GoTypeOK, Ran
<1> HIDE DEF e
<1> QED
  BY <1>1, <1>2, <1>3, SilentTestLine, GoTestAssumption DEF Verdicts

LEMMA TestPrintsTells ==
    ASSUME GoTypeOK, EndsOnce, NEW p \in Packages, NEW t \in Tests, NEW x \in Texts,
           NEW intact \in BOOLEAN, TestPrints(p, t, x, intact)
    PROVE  \E l \in Lines : Told(l)
<1> DEFINE e == Event(p, t, "output", x)
<1>1. /\ e \in Lines
      /\ e.package = p /\ e.test = t /\ e.action = "output" /\ e.text = x
  BY LineTypes DEF Event
<1>2. Write(e, intact) /\ UNCHANGED built
  BY DEF TestPrints
<1> HIDE DEF e
<1>3. CASE ~ intact
  <2>1. \A q \in Packages, u \in Tests : ran'[q][u].printed = ran[q][u].printed
    BY <1>3 DEF TestPrints, GoTypeOK, Ran
  <2> QED
    BY <1>1, <1>2, <1>3, <2>1, SilentTestLine, GoTestAssumption
<1>4. CASE intact
  <2>1. \A q \in Packages, u \in Tests :
            ran'[q][u].printed = IF q = p /\ u = t THEN Append(ran[q][u].printed, x)
                                 ELSE ran[q][u].printed
    BY <1>4 DEF TestPrints, GoTypeOK, Ran
  <2>2. \A q \in Packages, u \in Tests \cup {None} :
            /\ PrintsIn(e, q, u) <=> q = p /\ u = t
            /\ ~ FailsIn(e, q)
    BY <1>1, GoTestAssumption DEF PrintsIn, FailsIn, MentionsIn
  <2>3. lines' = Append(lines, e) /\ UNCHANGED <<pos, suites>>
    BY <1>2, <1>4 DEF Write
  <2>4. EndsOnce'
    BY <1>2 DEF EndsOnce
  <2>5. \A q \in Packages : built[q].told \in BOOLEAN
    BY DEF GoTypeOK, Built
  <2>6. ASSUME NEW q \in Packages, NEW u \in Tests \cup {None}
        PROVE  Printed(q, u)' = WithText(Printed(q, u), e, q, u)
    <3>1. CASE u = None
      BY <1>2, <2>2, <3>1, GoTestAssumption DEF Printed, WithText
    <3>2. CASE u \in Tests
      BY <1>1, <2>1, <2>2, <3>2, GoTestAssumption DEF Printed, WithText
    <3> QED
      BY <3>1, <3>2
  <2>7. Told(e)
    BY <1>2, <2>2, <2>3, <2>4, <2>5, <2>6 DEF Told
  <2> QED
    BY <1>1, <2>7
<1> QED
  BY <1>3, <1>4

LEMMA PackagePrintsTells ==
    ASSUME GoTypeOK, EndsOnce, NEW p \in Packages, NEW x \in Texts, NEW intact \in BOOLEAN,
           PackagePrints(p, x, intact)
    PROVE  \E l \in Lines : Told(l)
<1> DEFINE e == Event(p, None, "output", x)
           l == IF intact THEN e ELSE TextLine
<1>1. /\ e \in Lines
      /\ e.package = p /\ e.test = None /\ e.action = "output" /\ e.text = x
  BY LineTypes DEF Event
<1>2. lines' = Append(lines, l) /\ UNCHANGED <<pos, suites, ran>>
  BY DEF PackagePrints, Write
<1>3. \A q \in Packages :
          /\ built'[q].told = built[q].told /\ built'[q].state = built[q].state
          /\ built'[q].printed = IF q = p /\ intact THEN Append(built[q].printed, x)
                                 ELSE built[q].printed
          /\ built[q].told \in BOOLEAN
  BY DEF PackagePrints, GoTypeOK, Built
<1>4. l \in Lines
  BY <1>1, LineTypes
<1>5. EndsOnce'
  BY <1>3 DEF EndsOnce
<1>6. \A q \in Packages, u \in Tests \cup {None} :
          /\ PrintsIn(l, q, u) <=> intact /\ q = p /\ u = None
          /\ intact => l.text = x
          /\ ~ FailsIn(l, q)
  BY <1>1, LineTypes, GoTestAssumption DEF PrintsIn, FailsIn, MentionsIn
<1> HIDE DEF l
<1>7. Told(l)
  BY <1>2, <1>3, <1>5, <1>6 DEF Told, Printed, WithText
<1> QED
  BY <1>4, <1>7

LEMMA PackageEndsTells ==
    ASSUME GoTypeOK, EndsOnce, NEW p \in Packages, NEW passed \in BOOLEAN,
           NEW intact \in BOOLEAN, PackageEnds(p, passed, intact)
    PROVE  \E l \in Lines : Told(l)
<1> DEFINE e == Event(p, None, IF passed THEN "pass" ELSE "fail", None)
           l == IF intact THEN e ELSE TextLine
<1>1. /\ e \in Lines
      /\ e.package = p /\ e.test = None /\ e.action = IF passed THEN "pass" ELSE "fail"
  BY LineTypes DEF Verdicts
<1>2. lines' = Append(lines, l) /\ UNCHANGED <<pos, suites, ran>>
  BY DEF PackageEnds, Write
<1>3. ~ built[p].told
  BY DEF PackageEnds, EndsOnce
<1>4. \A q \in Packages :
          /\ built'[q].told = IF q = p THEN ~ passed /\ intact ELSE built[q].told
          /\ built'[q].state = IF q = p THEN IF passed THEN "passed" ELSE "failed"
                               ELSE built[q].state
          /\ built'[q].printed = built[q].printed
          /\ built[q].told \in BOOLEAN
  BY DEF PackageEnds, GoTypeOK, Built
<1>5. l \in Lines
  BY <1>1, LineTypes
<1>6. EndsOnce'
  BY <1>4 DEF EndsOnce
<1>7. \A q \in Packages, u \in Tests \cup {None} :
          /\ ~ PrintsIn(l, q, u)
          /\ FailsIn(l, q) <=> q = p /\ intact /\ ~ passed
  BY <1>1, LineTypes, GoTestAssumption DEF PrintsIn, FailsIn, MentionsIn
<1> HIDE DEF l
<1>8. Told(l)
  BY <1>2, <1>3, <1>4, <1>6, <1>7 DEF Told, Printed, WithText
<1> QED
  BY <1>5, <1>8

LEMMA LongTextTells ==
    ASSUME GoTypeOK, EndsOnce, LongText
    PROVE  \E l \in Lines : Told(l)
<1>1. lines' = Append(lines, LongLine) /\ UNCHANGED <<pos, suites, ran, built>>
  BY DEF LongText, Write, job
<1>2. \A p \in Packages : \A t : ~ PrintsIn(LongLine, p, t) /\ ~ FailsIn(LongLine, p)
  BY LineTypes, GoTestAssumption DEF PrintsIn, FailsIn, MentionsIn
<1>3. EndsOnce'
  BY <1>1 DEF EndsOnce
<1>4. \A p \in Packages : built[p].told \in BOOLEAN
  BY DEF GoTypeOK, Built
<1>5. Told(LongLine)
  BY <1>1, <1>2, <1>3, <1>4 DEF Told, Printed, WithText
<1> QED
  BY <1>5, LineTypes

LEMMA JobTells ==
    ASSUME GoTypeOK, EndsOnce, JobStep
    PROVE  \E l \in Lines : Told(l)
  BY RunTestTells, TestPrintsTells, TestEndsTells, PackagePrintsTells, PackageEndsTells,
     LongTextTells DEF JobStep

LEMMA JobKeepsTexts ==
    ASSUME GoInv, TextInv, JobStep
    PROVE  TextInv'
<1>1. PICK l \in Lines : Told(l)
  BY JobTells DEF GoInv, TextInv
<1>2. PICK n \in Nat : n = Len(lines)
  BY DEF GoInv, GoTypeOK
<1>3. pos \in 0 .. n
  BY <1>2 DEF GoInv, GoTypeOK
<1>4. /\ Len(lines') = n + 1 /\ lines'[n + 1] = l
      /\ \A i \in 1 .. n : lines'[i] = lines[i]
  BY <1>1, <1>2 DEF Told, GoInv, GoTypeOK
<1>5. UNCHANGED <<pos, suites>> /\ EndsOnce'
  BY <1>1 DEF Told
<1>6. TextsAgree'
  <2> SUFFICES ASSUME NEW p \in Packages, NEW t \in Tests \cup {None}
               PROVE  \E h : /\ Transcript(h, p, t)'
                             /\ Printed(p, t)' = h[n + 1]
                             /\ Read(p, t) = h[pos]
    BY <1>4, <1>5 DEF TextsAgree, Read
  <2>1. PICK h : Transcript(h, p, t) /\ Printed(p, t) = h[n] /\ Read(p, t) = h[pos]
    BY <1>2 DEF TextInv, TextsAgree
  <2> DEFINE g == [i \in 0 .. n + 1 |-> IF i = n + 1 THEN WithText(h[n], l, p, t) ELSE h[i]]
  <2>2. /\ g[n + 1] = WithText(h[n], l, p, t)
        /\ \A i \in 0 .. n : g[i] = h[i]
    OBVIOUS
  <2> HIDE DEF g
  <2>3. ASSUME NEW m \in 1 .. n + 1
        PROVE  g[m] = WithText(g[m - 1], lines'[m], p, t)
    <3>1. CASE m = n + 1
      BY <1>4, <2>2, <3>1
    <3>2. CASE m \in 1 .. n
      <4>1. h[m] = WithText(h[m - 1], lines[m], p, t)
        BY <1>2, <2>1, <3>2 DEF Transcript
      <4>2. g[m] = h[m] /\ g[m - 1] = h[m - 1]
        BY <2>2, <3>2
      <4> QED
        BY <1>4, <3>2, <4>1, <4>2
    <3> QED
      BY <3>1, <3>2
  <2>4. g[0] = <<>>
    BY <2>1, <2>2 DEF Transcript
  <2>5. Transcript(g, p, t)'
    BY <1>4, <2>3, <2>4 DEF Transcript, WithText, PrintsIn, MentionsIn
  <2>6. Printed(p, t)' = g[n + 1]
    BY <1>1, <2>1, <2>2 DEF Told
  <2>7. Read(p, t) = g[pos]
    BY <1>3, <2>1, <2>2
  <2> QED
    BY <2>5, <2>6, <2>7
<1>7. FailuresAgree'
  <2> SUFFICES ASSUME NEW p \in Packages
               PROVE  /\ built'[p].told <=> FailHeard(lines', n + 1, p)
                      /\ suites[p].failed <=> FailHeard(lines', pos, p)
    BY <1>4, <1>5 DEF FailuresAgree
  <2>1. 1 .. n + 1 = 1 .. n \cup {n + 1}
    OBVIOUS
  <2>2. FailHeard(lines', n + 1, p) <=> FailHeard(lines, n, p) \/ FailsIn(l, p)
    BY <1>4, <2>1 DEF FailHeard
  <2>3. \A i \in 1 .. pos : lines'[i] = lines[i]
    BY <1>3, <1>4
  <2>4. FailHeard(lines', pos, p) <=> FailHeard(lines, pos, p)
    BY <2>3 DEF FailHeard
  <2>5. built'[p].told <=> built[p].told \/ FailsIn(l, p)
    BY <1>1 DEF Told
  <2> QED
    BY <1>2, <2>2, <2>4, <2>5 DEF TextInv, FailuresAgree
<1> QED
  BY <1>5, <1>6, <1>7 DEF TextInv

\* What an event adds to the texts of its package.
LEMMA SuiteTexts ==
    ASSUME NEW suite \in Suites, NEW e \in Lines
    PROVE  /\ SuiteAfter(suite, e).output =
                  IF e.test = None /\ e.action = "output" THEN Append(suite.output, e.text)
                  ELSE suite.output
           /\ SuiteAfter(suite, e).failed <=>
                  suite.failed \/ (e.test = None /\ e.action = "fail")
           /\ \A t \in Tests : SuiteAfter(suite, e).cases[t].output =
                  IF e.test = t /\ e.action = "output" THEN Append(suite.cases[t].output, e.text)
                  ELSE suite.cases[t].output
<1>1. CASE e.test = None
  <2>1. \A t \in Tests : t # None
    BY GoTestAssumption
  <2> QED
    BY <1>1, <2>1 DEF SuiteAfter, Suites
<1>2. CASE e.test # None
  <2>1. e.test \in Tests /\ suite.cases \in [Tests -> Cases]
    BY <1>2 DEF Lines, Suites
  <2> DEFINE u == e.test
             after == CaseAfter(suite.cases[u], e)
  <2>2. SuiteAfter(suite, e) = [suite EXCEPT !.caseOrder = Noted(@, u), !.cases[u] = after]
    BY <1>2 DEF SuiteAfter
  <2>3. after.output = IF e.action = "output" THEN Append(suite.cases[u].output, e.text)
                       ELSE suite.cases[u].output
    BY <2>1 DEF CaseAfter, Cases
  <2> HIDE DEF after
  <2>4. /\ SuiteAfter(suite, e).output = suite.output
        /\ SuiteAfter(suite, e).failed = suite.failed
        /\ SuiteAfter(suite, e).cases = [suite.cases EXCEPT ![u] = after]
    BY <2>2 DEF Suites
  <2>5. suite.failed \in BOOLEAN
    BY DEF Suites
  <2> QED
    BY <1>2, <2>1, <2>3, <2>4, <2>5
<1> QED
  BY <1>1, <1>2

LEMMA ScanKeepsTexts ==
    ASSUME GoInv, TextInv, ScanLine
    PROVE  TextInv'
<1> DEFINE l == lines[pos + 1]
<1>1. /\ lines \in Seq(Lines) /\ pos \in Nat /\ pos + 1 \in 1 .. Len(lines)
      /\ UNCHANGED <<ran, built, lines>>
      /\ suites \in [Packages -> Suites]
  BY DEF ScanLine, GoInv, GoTypeOK
<1>2. l \in Lines
  BY <1>1
<1>3. EndsOnce'
  BY <1>1 DEF TextInv, EndsOnce
<1>4. CASE IsLong(l)
  <2>1. UNCHANGED <<pos, suites>>
    BY <1>4 DEF ScanLine, scan
  <2> QED
    BY <1>1, <1>3, <2>1 DEF TextInv, TextsAgree, Transcript, Printed, Read, FailuresAgree
<1>5. CASE ~ IsLong(l)
  <2>1. /\ pos' = pos + 1
        /\ IF IsEvent(l) THEN suites' = [suites EXCEPT ![l.package] = SuiteAfter(@, l)]
           ELSE UNCHANGED suites
    BY <1>5 DEF ScanLine, ScanEvent
  <2> HIDE DEF l
  <2>2. ASSUME NEW p \in Packages
        PROVE  /\ \A t \in Tests \cup {None} : Read(p, t)' = WithText(Read(p, t), l, p, t)
               /\ suites'[p].failed <=> suites[p].failed \/ FailsIn(l, p)
    <3>1. CASE l.package = p
      <4>1. IsEvent(l) /\ suites'[p] = SuiteAfter(suites[p], l)
        BY <1>1, <2>1, <3>1, GoTestAssumption DEF IsEvent
      <4>2. suites[p] \in Suites
        BY <1>1
      <4> QED
        BY <1>2, <3>1, <4>1, <4>2, SuiteTexts, GoTestAssumption
           DEF Read, WithText, PrintsIn, FailsIn, MentionsIn
    <3>2. CASE l.package # p
      <4>1. suites'[p] = suites[p]
        BY <1>1, <2>1, <3>2
      <4>2. suites[p].failed \in BOOLEAN
        BY <1>1 DEF Suites
      <4> QED
        BY <3>2, <4>1, <4>2 DEF Read, WithText, PrintsIn, FailsIn, MentionsIn
    <3> QED
      BY <3>1, <3>2
  <2>3. TextsAgree'
    <3> SUFFICES ASSUME NEW p \in Packages, NEW t \in Tests \cup {None}
                 PROVE  \E h : /\ Transcript(h, p, t)'
                               /\ Printed(p, t)' = h[Len(lines)]
                               /\ Read(p, t)' = h[pos']
      BY <1>1 DEF TextsAgree
    <3>1. PICK h : Transcript(h, p, t) /\ Printed(p, t) = h[Len(lines)] /\ Read(p, t) = h[pos]
      BY DEF TextInv, TextsAgree
    <3>2. Transcript(h, p, t)' /\ Printed(p, t)' = Printed(p, t)
      BY <1>1, <3>1 DEF Transcript, Printed
    <3>3. h[pos + 1] = WithText(h[pos], l, p, t)
      <4>1. (pos + 1) - 1 = pos
        BY <1>1
      <4> QED
        BY <1>1, <3>1, <4>1 DEF Transcript, l
    <3> QED
      BY <2>1, <2>2, <3>1, <3>2, <3>3
  <2>4. FailuresAgree'
    <3> SUFFICES ASSUME NEW p \in Packages
                 PROVE  /\ built[p].told <=> FailHeard(lines, Len(lines), p)
                        /\ suites'[p].failed <=> FailHeard(lines, pos + 1, p)
      BY <1>1, <2>1 DEF FailuresAgree
    <3>1. 1 .. pos + 1 = 1 .. pos \cup {pos + 1}
      BY <1>1
    <3>2. FailHeard(lines, pos + 1, p) <=> FailHeard(lines, pos, p) \/ FailsIn(l, p)
      BY <3>1 DEF FailHeard, l
    <3> QED
      BY <2>2, <3>2 DEF TextInv, FailuresAgree
  <2> QED
    BY <1>3, <2>3, <2>4 DEF TextInv
<1> QED
  BY <1>4, <1>5

LEMMA TextInvInit == GoInit => TextInv
<1> SUFFICES ASSUME GoInit PROVE TextInv
  OBVIOUS
<1>1. EndsOnce
  BY DEF GoInit, NotBuilt, EndsOnce
<1>2. FailuresAgree
  BY DEF GoInit, NotBuilt, NewSuite, FailuresAgree, FailHeard
<1>3. \A p \in Packages, t \in Tests \cup {None} : Printed(p, t) = <<>> /\ Read(p, t) = <<>>
  BY DEF GoInit, NotBuilt, NotRun, NewSuite, NewCase, Printed, Read
<1>4. TextsAgree
  <2> SUFFICES ASSUME NEW p \in Packages, NEW t \in Tests \cup {None}
               PROVE  \E h : /\ Transcript(h, p, t)
                             /\ Printed(p, t) = h[Len(lines)] /\ Read(p, t) = h[pos]
    BY DEF TextsAgree
  <2> DEFINE h == [n \in {0} |-> <<>>]
  <2>1. h[0] = <<>> /\ Len(lines) = 0 /\ pos = 0
    BY DEF GoInit
  <2> HIDE DEF h
  <2>2. Transcript(h, p, t)
    BY <2>1 DEF Transcript
  <2> QED
    BY <1>3, <2>1, <2>2
<1> QED
  BY <1>1, <1>2, <1>4 DEF TextInv

LEMMA TextInvNext == GoInv /\ TextInv /\ [GoNext]_goVars => TextInv'
<1> SUFFICES ASSUME GoInv, TextInv, [GoNext]_goVars PROVE TextInv'
  OBVIOUS
<1>1. ASSUME UNCHANGED <<ran, built, lines, pos, suites>>
      PROVE  TextInv'
  BY <1>1 DEF TextInv, TextsAgree, Transcript, Printed, Read, FailuresAgree, EndsOnce
<1>2. (\E named \in BOOLEAN : UploadReport(named)) \/ EndScan \/ UNCHANGED goVars =>
          UNCHANGED <<ran, built, lines, pos, suites>>
  BY DEF UploadReport, EndScan, goVars
<1> QED
  BY <1>1, <1>2, JobKeepsTexts, ScanKeepsTexts DEF GoNext

LEMMA RowsHavePackages ==
    ASSUME GoInv, NEW at \in Places
    PROVE  /\ \E i \in DOMAIN order : \E j \in DOMAIN RowsOf(order[i]) :
                  at = <<i, j>> /\ RowAt(at) = RowsOf(order[i])[j]
                                /\ RowAt(at).package = order[i]
           /\ RowAt(at).package \in Packages
<1>1. PICK i \in DOMAIN order : \E j \in DOMAIN RowsOf(order[i]) : at = <<i, j>>
  BY DEF Places
<1>2. PICK j \in DOMAIN RowsOf(order[i]) : at = <<i, j>> /\ RowAt(at) = RowsOf(order[i])[j]
  BY <1>1 DEF RowAt
<1>3. PICK q \in Packages : q = order[i]
  BY DEF GoInv, GoTypeOK
<1>4. RowsOf(q)[j].package = q
  <2>1. CASE suites[q].caseOrder = <<>> /\ suites[q].failed
    <3>1. RowsOf(q) = <<PackageRow(q)>>
      BY <2>1 DEF RowsOf
    <3>2. j = 1
      BY <1>2, <1>3, <3>1
    <3> QED
      BY <3>1, <3>2 DEF PackageRow
  <2>2. CASE ~ (suites[q].caseOrder = <<>> /\ suites[q].failed)
    BY <1>2, <1>3, <2>2 DEF RowsOf, TestRow
  <2> QED
    BY <2>1, <2>2
<1> QED
  BY <1>2, <1>3, <1>4

LEMMA OutputsAreApart == GoInv /\ TextInv => OutputsStayApart
<1> SUFFICES ASSUME GoInv, TextInv, outcome = "parsed", NEW at \in Places,
                    RowAt(at).test \in Tests
             PROVE  RowAt(at).output = ran[RowAt(at).package][RowAt(at).test].printed
  BY DEF OutputsStayApart
<1>1. PICK p \in Packages : p = RowAt(at).package
  BY RowsHavePackages
<1>2. PICK t \in Tests : t = RowAt(at).test
  OBVIOUS
<1>3. at \in PlacesOf(p, t)
  BY <1>1, <1>2 DEF PlacesOf
<1>4. RowAt(at) = TestRow(p, t)
  BY <1>3, RowsArePlaced
<1>5. t # None
  BY GoTestAssumption
<1>6. Read(p, t) = Printed(p, t)
  BY DEF TextInv, TextsAgree, GoInv, ParsedIsRead
<1> QED
  BY <1>1, <1>2, <1>4, <1>5, <1>6 DEF TestRow, Read, Printed

\* The output of each result is what its test printed and the file has got,
\* in that order and with nothing in between, however many tests print at once.
THEOREM ParserKeepsOutputsApart == GoSpec => []OutputsStayApart
  BY OutputsAreApart, InitHolds, GoInvariance, TextInvInit, TextInvNext, PTL DEF GoSpec

LEMMA BrokenPackagesHaveRows == GoInv /\ TextInv => BrokenPackageIsReported
<1> SUFFICES ASSUME GoInv, TextInv, outcome = "parsed", NEW p \in Packages,
                    \A t \in Tests : ~ ran[p][t].seen
             PROVE  {RowAt(at) : at \in {a \in Places : RowAt(a).package = p}} =
                        IF built[p].told
                        THEN {[package |-> p, test |-> "package", status |-> "failed",
                               output |-> built[p].printed, failure |-> built[p].printed]}
                        ELSE {}
  BY DEF BrokenPackageIsReported
<1>1. pos = Len(lines) /\ suites[p].caseOrder \in Seq(Tests)
  BY DEF GoInv, ParsedIsRead, GoTypeOK, Suites
<1>2. \A t \in Tests : ~ Has(suites[p].caseOrder, t)
  BY <1>1 DEF GoInv, FileTellsOfTests, ScanTellsOfLines
<1>3. suites[p].caseOrder = <<>>
  BY <1>1, <1>2 DEF Has
<1>4. suites[p].failed <=> built[p].told
  BY <1>1 DEF TextInv, FailuresAgree
<1>5. suites[p].output = built[p].printed
  BY <1>1 DEF TextInv, TextsAgree, Read, Printed
<1>6. CASE built[p].told
  <2>1. RowsOf(p) = <<PackageRow(p)>>
    BY <1>3, <1>4, <1>6 DEF RowsOf
  <2>2. Heard(lines, pos, p)
    BY <1>1, <1>6 DEF TextInv, FailuresAgree, FailHeard, FailsIn, MentionsIn, Heard
  <2>3. PICK i \in DOMAIN order : order[i] = p
    BY <2>2 DEF GoInv, ScanTellsOfLines, Has
  <2>4. <<i, 1>> \in Places /\ RowAt(<<i, 1>>) = PackageRow(p)
    BY <2>1, <2>3 DEF Places, RowAt
  <2>5. \A at \in Places : RowAt(at).package = p => RowAt(at) = PackageRow(p)
    BY <2>1, RowsHavePackages
  <2>6. PackageRow(p).package = p
    BY DEF PackageRow
  <2>7. {RowAt(at) : at \in {a \in Places : RowAt(a).package = p}} = {PackageRow(p)}
    BY <2>4, <2>5, <2>6
  <2> QED
    BY <1>5, <1>6, <2>7 DEF PackageRow
<1>7. CASE ~ built[p].told
  <2>1. DOMAIN RowsOf(p) = {}
    BY <1>3, <1>4, <1>7 DEF RowsOf
  <2>2. \A at \in Places : RowAt(at).package # p
    BY <2>1, RowsHavePackages
  <2> QED
    BY <1>7, <2>2
<1> QED
  BY <1>6, <1>7

\* A package that fails and of which no test is heard has one result, failed,
\* with what the package printed; one that passes without tests has none.
THEOREM ParserReportsBrokenPackages == GoSpec => []BrokenPackageIsReported
  BY BrokenPackagesHaveRows, InitHolds, GoInvariance, TextInvInit, TextInvNext, PTL DEF GoSpec
=============================================================================
