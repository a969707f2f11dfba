---------------------------- MODULE ReportsProofs ---------------------------
(***************************************************************************)
(* Proofs about Reports, for any names, contents and documents: no file    *)
(* has two parsers; whatever else may be uploaded in its place, the output *)
(* of a job of `go test -json` is reported as GoTestProofs says; and of an *)
(* XML document every case is reported, under a key of its own.            *)
(*                                                                         *)
(* A document is a tree of any depth.  Going down it, a suite is around    *)
(* what it is in (AroundIsBefore and what follows); going up from the      *)
(* leaves, the walk lists what each suite is around (WalkGoesOn).  A key   *)
(* is taken apart from its end (LastTextIsFound, JoinsTellTexts).          *)
(***************************************************************************)
EXTENDS Reports, GoTestProofs, OrdersProofs

\* An upload that is not the job's leaves the job's state alone.
OtherFilesHaveNoLines == file.format # "go" => lines = <<>>

ReportsInv == GoInv /\ TextInv /\ OtherFilesHaveNoLines

LEMMA ReportsInit == Init => ReportsInv
<1> SUFFICES ASSUME Init PROVE ReportsInv
  OBVIOUS
<1>1. GoInv /\ TextInv
  BY InitHolds, TextInvInit DEF Init
<1>2. OtherFilesHaveNoLines
  BY DEF Init, GoInit, OtherFilesHaveNoLines
<1> QED
  BY <1>1, <1>2 DEF ReportsInv

\* An XML file is parsed in one step, which reads no line.
LEMMA ParseXmlKeeps ==
    ASSUME ReportsInv, ParseXml
    PROVE  ReportsInv'
<1>1. /\ lines = <<>> /\ outcome' \in {"parsed", "refused"}
      /\ UNCHANGED <<file, ran, built, lines, pos, order, suites>>
  BY DEF ReportsInv, OtherFilesHaveNoLines, ParseXml
<1>2. pos = Len(lines)
  BY <1>1 DEF ReportsInv, GoInv, GoTypeOK
<1>3. GoInv'
  BY <1>1, <1>2 DEF ReportsInv, GoInv, GoTypeOK, FileTellsOfTests, ScanTellsOfLines, ParsedIsRead
<1>4. TextInv'
  BY <1>1 DEF ReportsInv, TextInv, TextsAgree, Transcript, Printed, Read, FailuresAgree, EndsOnce
<1> QED
  BY <1>1, <1>3, <1>4 DEF ReportsInv, OtherFilesHaveNoLines

LEMMA ReportsNext == ReportsInv /\ [Next]_vars => ReportsInv'
<1> SUFFICES ASSUME ReportsInv, [Next]_vars PROVE ReportsInv'
  OBVIOUS
<1>1. ASSUME GoNext \/ UNCHANGED goVars, UNCHANGED file, file.format = "go" \/ UNCHANGED lines
      PROVE  ReportsInv'
  BY <1>1, GoInvNext, TextInvNext DEF ReportsInv, OtherFilesHaveNoLines
<1>2. CASE file.format = "go" /\ JobStep /\ UNCHANGED file
  BY <1>1, <1>2 DEF GoNext
<1>3. CASE ParseGo
  BY <1>1, <1>3 DEF ParseGo, GoNext, UploadReport
<1>4. CASE (ScanLine \/ EndScan) /\ UNCHANGED file
  BY <1>1, <1>4 DEF GoNext, ScanLine, EndScan
<1>5. CASE UNCHANGED vars
  BY <1>1, <1>5 DEF vars, goVars
<1> QED
  BY <1>2, <1>3, <1>4, <1>5, ParseXmlKeeps DEF Next

LEMMA ReportsInvariance == Spec => []ReportsInv
  BY ReportsInit, ReportsNext, PTL DEF Spec

-----------------------------------------------------------------------------
(* Trees of suites.                                                        *)

\* What a document in which every suite comes after its parent looks like.
LEMMA TreeShape ==
    ASSUME NEW doc, IsTree(doc)
    PROVE  /\ Len(doc.suites) \in Nat /\ DOMAIN doc.suites = 1 .. Len(doc.suites)
           /\ Len(doc.cases) \in Nat /\ DOMAIN doc.cases = 1 .. Len(doc.cases)
           /\ \A k \in DOMAIN doc.suites : /\ doc.suites[k].parent \in 0 .. k - 1
                                           /\ doc.suites[k].nested \in BOOLEAN
           /\ \A c \in DOMAIN doc.cases : /\ doc.cases[c].suite \in DOMAIN doc.suites
                                          /\ doc.cases[c].nested \in BOOLEAN
<1>1. doc.suites \in Seq(SuiteElements)
  BY DEF IsTree
<1>2. \A k \in DOMAIN doc.suites : doc.suites[k] \in SuiteElements /\ doc.suites[k].parent < k
  BY <1>1 DEF IsTree
<1>3. DOMAIN doc.suites = 1 .. Len(doc.suites) /\ Len(doc.suites) \in Nat
  BY <1>1
<1>4. \A k \in DOMAIN doc.suites : /\ doc.suites[k].parent \in 0 .. k - 1
                                   /\ doc.suites[k].nested \in BOOLEAN
  BY <1>2, <1>3 DEF SuiteElements
<1>5. doc.cases \in Seq(JUnitElements) \/ doc.cases \in Seq(NUnitElements)
  BY DEF IsTree
<1>6. DOMAIN doc.cases = 1 .. Len(doc.cases) /\ Len(doc.cases) \in Nat
  BY <1>5
<1>7. \A c \in DOMAIN doc.cases : doc.cases[c] \in JUnitElements \/ doc.cases[c] \in NUnitElements
  BY <1>5, <1>6
<1>8. \A c \in DOMAIN doc.cases : doc.cases[c].nested \in BOOLEAN
  BY <1>7 DEF JUnitElements, NUnitElements
<1> QED BY <1>3, <1>4, <1>6, <1>8 DEF IsTree

\* Around returns for each suite itself and what is around its parent.
LEMMA AroundGrows ==
    ASSUME NEW doc, IsTree(doc)
    PROVE  /\ Around(doc)[0] = {0}
           /\ \A k \in DOMAIN doc.suites :
                 Around(doc)[k] = Around(doc)[doc.suites[k].parent] \cup {k}
<1> DEFINE n == Len(doc.suites)
           V == SUBSET Int
           up == [k \in 1 .. n |-> doc.suites[k].parent]
           made == [e \in V \X (1 .. n) |-> e[1] \cup {e[2]}]
           f == CHOOSE f : f = [k \in 0 .. Len(doc.suites) |->
                                  IF k = 0 THEN {0} ELSE f[doc.suites[k].parent] \cup {k}]
<1>1. /\ n \in Nat /\ DOMAIN doc.suites = 1 .. n
      /\ \A k \in 1 .. n : doc.suites[k].parent \in 0 .. k - 1
  BY TreeShape
<1>2. {0} \in V
  OBVIOUS
<1>3. \A k \in 1 .. n : up[k] \in 0 .. k - 1
  BY <1>1
<1>4. made \in [V \X (1 .. n) -> V]
  <2> SUFFICES ASSUME NEW e \in V \X (1 .. n) PROVE made[e] \in V
    OBVIOUS
  <2>1. e[1] \in V /\ e[2] \in Int
    BY <1>1
  <2> QED BY <2>1
<1>5. PICK g \in [0 .. n -> V] : Descends(g, n, {0}, up, made)
  <2> HIDE DEF n, V, up, made, f
  <2> QED BY <1>1, <1>2, <1>3, <1>4, Descent
<1>6. \A k \in 1 .. n : g[k] = g[doc.suites[k].parent] \cup {k}
  <2> SUFFICES ASSUME NEW k \in 1 .. n PROVE g[k] = g[doc.suites[k].parent] \cup {k}
    OBVIOUS
  <2>1. up[k] = doc.suites[k].parent /\ doc.suites[k].parent \in 0 .. n
    BY <1>1
  <2>2. g[doc.suites[k].parent] \in V
    BY <2>1
  <2>3. g[k] = made[<<g[doc.suites[k].parent], k>>]
    BY <1>5, <2>1 DEF Descends
  <2> HIDE DEF V
  <2> QED BY <2>2, <2>3
<1>7. \A k \in 0 .. n : k # 0 => k \in 1 .. n
  BY <1>1
<1>8. g = [k \in 0 .. Len(doc.suites) |-> IF k = 0 THEN {0} ELSE g[doc.suites[k].parent] \cup {k}]
  <2>1. g[0] = {0}
    BY <1>5 DEF Descends
  <2> HIDE DEF V, made
  <2> QED BY <1>6, <1>7, <2>1
<1>9. f = [k \in 0 .. Len(doc.suites) |-> IF k = 0 THEN {0} ELSE f[doc.suites[k].parent] \cup {k}]
  BY <1>8
<1>10. Around(doc) = f
  BY DEF Around
<1> HIDE DEF f
<1>11. 0 \in 0 .. n /\ \A k \in 1 .. n : k \in 0 .. n /\ k # 0
  BY <1>1
<1> QED BY <1>1, <1>9, <1>10, <1>11

\* What is so for the document itself, and for a suite if for its parent, is so
\* for all suites.
LEMMA DownTheTree ==
    ASSUME NEW doc, IsTree(doc), NEW S, 0 \in S,
           \A k \in DOMAIN doc.suites : doc.suites[k].parent \in S => k \in S
    PROVE  \A k \in 0 .. Len(doc.suites) : k \in S
<1> DEFINE n == Len(doc.suites)
           parent == [k \in 1 .. n |-> doc.suites[k].parent]
<1>1. n \in Nat /\ DOMAIN doc.suites = 1 .. n
  BY TreeShape
<1>2. \A k \in 1 .. n : parent[k] = doc.suites[k].parent
  OBVIOUS
<1>3. \A k \in 1 .. n : parent[k] \in 0 .. k - 1
  BY <1>1, TreeShape
<1>4. \A k \in 1 .. n : parent[k] \in S => k \in S
  BY <1>1, <1>2
<1> HIDE DEF n, parent
<1>5. \A k \in 0 .. n : k \in S
  BY <1>1, <1>3, <1>4, FromTheRoot
<1> QED BY <1>5 DEF n

\* Around a suite are itself, the document and else what was opened before it.
LEMMA AroundIsBefore ==
    ASSUME NEW doc, IsTree(doc)
    PROVE  \A s \in 0 .. Len(doc.suites) :
               {0, s} \subseteq Around(doc)[s] /\ Around(doc)[s] \subseteq 0 .. s
<1> DEFINE K == {k \in 0 .. Len(doc.suites) :
                    {0, k} \subseteq Around(doc)[k] /\ Around(doc)[k] \subseteq 0 .. k}
<1>1. Len(doc.suites) \in Nat /\ DOMAIN doc.suites = 1 .. Len(doc.suites)
  BY TreeShape
<1>2. 0 \in K
  BY <1>1, AroundGrows
<1>3. ASSUME NEW k \in DOMAIN doc.suites, doc.suites[k].parent \in K PROVE k \in K
  <2>1. k \in 1 .. Len(doc.suites) /\ doc.suites[k].parent \in 0 .. k - 1
    BY <1>1, TreeShape
  <2>2. Around(doc)[k] = Around(doc)[doc.suites[k].parent] \cup {k}
    BY AroundGrows
  <2>3. /\ 0 \in Around(doc)[doc.suites[k].parent]
        /\ Around(doc)[doc.suites[k].parent] \subseteq 0 .. doc.suites[k].parent
    BY <1>3
  <2>4. 0 .. doc.suites[k].parent \subseteq 0 .. k /\ k \in 0 .. k /\ k \in 0 .. Len(doc.suites)
    BY <1>1, <2>1
  <2> QED BY <2>2, <2>3, <2>4
<1> HIDE DEF K
<1>4. \A k \in 0 .. Len(doc.suites) : k \in K
  BY <1>2, <1>3, DownTheTree
<1> QED BY <1>4 DEF K

\* Around a suite are, with any other but the document, also its parent.
LEMMA ParentsAreAround ==
    ASSUME NEW doc, IsTree(doc)
    PROVE  \A s \in 0 .. Len(doc.suites) : \A k \in Around(doc)[s] :
               k # 0 => k \in DOMAIN doc.suites /\ doc.suites[k].parent \in Around(doc)[s]
<1> DEFINE K == {s \in 0 .. Len(doc.suites) : \A k \in Around(doc)[s] :
                    k # 0 => k \in DOMAIN doc.suites /\ doc.suites[k].parent \in Around(doc)[s]}
<1>1. Len(doc.suites) \in Nat /\ DOMAIN doc.suites = 1 .. Len(doc.suites)
  BY TreeShape
<1>2. 0 \in K
  BY <1>1, AroundGrows
<1>3. ASSUME NEW s \in DOMAIN doc.suites, doc.suites[s].parent \in K PROVE s \in K
  <2>1. s \in 0 .. Len(doc.suites) /\ doc.suites[s].parent \in 0 .. Len(doc.suites)
    BY <1>1, TreeShape
  <2>2. Around(doc)[s] = Around(doc)[doc.suites[s].parent] \cup {s}
    BY AroundGrows
  <2>3. doc.suites[s].parent \in Around(doc)[doc.suites[s].parent]
    BY <2>1, AroundIsBefore
  <2> QED BY <1>3, <2>1, <2>2, <2>3
<1> HIDE DEF K
<1>4. \A k \in 0 .. Len(doc.suites) : k \in K
  BY <1>2, <1>3, DownTheTree
<1> QED BY <1>4 DEF K

\* Around a suite, each but itself has one child.
LEMMA OneChildIsAround ==
    ASSUME NEW doc, IsTree(doc)
    PROVE  \A s \in 0 .. Len(doc.suites) :
              /\ \A i \in Around(doc)[s] : i # s =>
                    \E k \in Around(doc)[s] : k # 0 /\ doc.suites[k].parent = i
              /\ \A k, l \in Around(doc)[s] :
                    k # 0 /\ l # 0 /\ doc.suites[k].parent = doc.suites[l].parent => k = l
<1> DEFINE A(s) == \A i \in Around(doc)[s] : i # s =>
                    \E k \in Around(doc)[s] : k # 0 /\ doc.suites[k].parent = i
           B(s) == \A k, l \in Around(doc)[s] :
                    k # 0 /\ l # 0 /\ doc.suites[k].parent = doc.suites[l].parent => k = l
           K == {s \in 0 .. Len(doc.suites) : A(s) /\ B(s)}
<1>1. Len(doc.suites) \in Nat /\ DOMAIN doc.suites = 1 .. Len(doc.suites)
  BY TreeShape
<1>2. 0 \in K
  BY <1>1, AroundGrows
<1>3. ASSUME NEW s \in DOMAIN doc.suites, doc.suites[s].parent \in K PROVE s \in K
  <2> DEFINE p == doc.suites[s].parent
  <2>1. s \in 0 .. Len(doc.suites) /\ p \in 0 .. Len(doc.suites) /\ s # 0 /\ p \in 0 .. s - 1
    BY <1>1, TreeShape
  <2>2. Around(doc)[s] = Around(doc)[p] \cup {s}
    BY AroundGrows
  <2>3. A(p) /\ B(p)
    BY <1>3
  <2>4. A(s)
    <3> SUFFICES ASSUME NEW i \in Around(doc)[s], i # s
                 PROVE  \E k \in Around(doc)[s] : k # 0 /\ doc.suites[k].parent = i
      OBVIOUS
    <3>1. CASE i = p
      BY <2>1, <2>2, <3>1
    <3>2. CASE i # p
      BY <2>2, <2>3, <3>2
    <3> QED BY <3>1, <3>2
  <2>5. ASSUME NEW k \in Around(doc)[p], k # 0 PROVE doc.suites[k].parent # p
    <3>1. k \in 0 .. p /\ k \in DOMAIN doc.suites
      BY <2>1, <2>5, AroundIsBefore, ParentsAreAround
    <3>2. doc.suites[k].parent \in 0 .. k - 1
      BY <3>1, TreeShape
    <3> QED BY <2>1, <3>1, <3>2
  <2>6. B(s)
    BY <2>2, <2>3, <2>5
  <2> QED BY <2>1, <2>4, <2>6
<1> HIDE DEF K
<1>4. \A k \in 0 .. Len(doc.suites) : k \in K
  BY <1>2, <1>3, DownTheTree
<1> QED BY <1>4 DEF K

-----------------------------------------------------------------------------
(* Walking the suites.                                                     *)

\* CasesOf and ChildrenOf leave out no case and no suite.
LEMMA NoneIsLeftOut ==
    ASSUME NEW doc, IsTree(doc), NEW i
    PROVE  /\ Lists(CasesOf(doc, i), {c \in DOMAIN doc.cases : doc.cases[c].suite = i})
           /\ Lists(ChildrenOf(doc, i), {k \in DOMAIN doc.suites : doc.suites[k].parent = i})
<1> DEFINE cases(in) ==
             {c \in DOMAIN doc.cases : doc.cases[c].suite = i /\ doc.cases[c].nested = in}
           children(in) ==
             {k \in DOMAIN doc.suites : doc.suites[k].parent = i /\ doc.suites[k].nested = in}
           cases1 == cases(FALSE)
           cases2 == cases(TRUE)
           children1 == children(FALSE)
           children2 == children(TRUE)
<1>1. /\ Len(doc.suites) \in Nat /\ DOMAIN doc.suites = 1 .. Len(doc.suites)
      /\ Len(doc.cases) \in Nat /\ DOMAIN doc.cases = 1 .. Len(doc.cases)
      /\ \A k \in DOMAIN doc.suites : doc.suites[k].nested \in BOOLEAN
      /\ \A c \in DOMAIN doc.cases : doc.cases[c].nested \in BOOLEAN
  BY TreeShape
<1>2. /\ cases1 \cap cases2 = {}
      /\ cases1 \cup cases2 = {c \in DOMAIN doc.cases : doc.cases[c].suite = i}
  BY <1>1
<1>3. /\ children1 \cap children2 = {}
      /\ children1 \cup children2 = {k \in DOMAIN doc.suites : doc.suites[k].parent = i}
  BY <1>1
<1>4. /\ CasesOf(doc, i) = Ascending(cases1) \o Ascending(cases2)
      /\ ChildrenOf(doc, i) = Ascending(children1) \o Ascending(children2)
  BY DEF CasesOf, CasesWhere, ChildrenOf, ChildrenWhere
<1>5. /\ cases1 \in SUBSET (1 .. Len(doc.cases)) /\ cases2 \in SUBSET (1 .. Len(doc.cases))
      /\ children1 \in SUBSET (1 .. Len(doc.suites))
      /\ children2 \in SUBSET (1 .. Len(doc.suites))
  BY <1>1
<1> HIDE DEF cases1, cases2, children1, children2
<1>6. Lists(Ascending(cases1) \o Ascending(cases2), cases1 \cup cases2)
  <2> DEFINE n == Len(doc.cases)
  <2>1. /\ n \in Nat /\ cases1 \cap cases2 = {}
        /\ cases1 \in SUBSET (1 .. n) /\ cases2 \in SUBSET (1 .. n)
    BY <1>1, <1>2, <1>5
  <2> HIDE DEF n
  <2> QED BY <2>1, AscendingHalves
<1>7. Lists(Ascending(children1) \o Ascending(children2), children1 \cup children2)
  <2> DEFINE n == Len(doc.suites)
  <2>1. /\ n \in Nat /\ children1 \cap children2 = {}
        /\ children1 \in SUBSET (1 .. n) /\ children2 \in SUBSET (1 .. n)
    BY <1>1, <1>3, <1>5
  <2> HIDE DEF n
  <2> QED BY <2>1, AscendingHalves
<1> QED BY <1>2, <1>3, <1>4, <1>6, <1>7

\* walk has at every suite its cases, followed by what it has at its children.
Walks(walk, doc) ==
    \A i \in 0 .. Len(doc.suites) :
        walk[i] = CasesOf(doc, i) \o
                  FlattenSeq([k \in DOMAIN ChildrenOf(doc, i) |-> walk[ChildrenOf(doc, i)[k]]])

\* Since children come after their parents there is such a function.
LEMMA WalkExists ==
    ASSUME NEW doc, IsTree(doc)
    PROVE  \E walk \in [0 .. Len(doc.suites) -> Seq(DOMAIN doc.cases)] : Walks(walk, doc)
<1> DEFINE n == Len(doc.suites)
           D == 0 .. n
           C == DOMAIN doc.cases
           V == Seq(C)
           rank == [i \in D |-> n - i]
           needs == [i \in D |-> ChildrenOf(doc, i)]
           made == [e \in D \X Seq(V) |-> CasesOf(doc, e[1]) \o FlattenSeq(e[2])]
<1>1. /\ n \in Nat /\ DOMAIN doc.suites = 1 .. n
      /\ \A k \in 1 .. n : doc.suites[k].parent \in 0 .. k - 1
  BY TreeShape
<1>2. rank \in [D -> 0 .. n]
  BY <1>1
<1>3. V # {}
  <2>1. <<>> \in V
    OBVIOUS
  <2> QED BY <2>1
<1>4. ASSUME NEW i \in D
      PROVE  /\ CasesOf(doc, i) \in V
             /\ ChildrenOf(doc, i) \in Seq(D)
             /\ \A c \in DOMAIN ChildrenOf(doc, i) :
                   ChildrenOf(doc, i)[c] \in D /\ doc.suites[ChildrenOf(doc, i)[c]].parent = i
                   /\ ChildrenOf(doc, i)[c] \in 1 .. n
  <2> DEFINE mine == {c \in DOMAIN doc.cases : doc.cases[c].suite = i}
             below == {k \in DOMAIN doc.suites : doc.suites[k].parent = i}
  <2>0. Lists(CasesOf(doc, i), mine) /\ Lists(ChildrenOf(doc, i), below)
    BY NoneIsLeftOut
  <2>1. /\ CasesOf(doc, i) \in Seq({c \in DOMAIN doc.cases : doc.cases[c].suite = i})
        /\ ChildrenOf(doc, i) \in Seq({k \in DOMAIN doc.suites : doc.suites[k].parent = i})
    <3> HIDE DEF mine, below, V, D, n, C
    <3>1. CasesOf(doc, i) \in Seq(mine) /\ ChildrenOf(doc, i) \in Seq(below)
      BY <2>0 DEF Lists
    <3> QED BY <3>1 DEF mine, below
  <2>2. {c \in DOMAIN doc.cases : doc.cases[c].suite = i} \subseteq C
    OBVIOUS
  <2>3. {k \in DOMAIN doc.suites : doc.suites[k].parent = i} \subseteq D
    BY <1>1
  <2>4. \A c \in DOMAIN ChildrenOf(doc, i) :
           ChildrenOf(doc, i)[c] \in {k \in DOMAIN doc.suites : doc.suites[k].parent = i}
    BY <2>1
  <2>5. CasesOf(doc, i) \in Seq(C) /\ ChildrenOf(doc, i) \in Seq(D)
    <3> HIDE DEF C, D
    <3> QED BY <2>1, <2>2, <2>3
  <2>6. \A c \in DOMAIN ChildrenOf(doc, i) :
           ChildrenOf(doc, i)[c] \in 1 .. n /\ doc.suites[ChildrenOf(doc, i)[c]].parent = i
    BY <1>1, <2>4
  <2>7. \A k \in 1 .. n : k \in D
    BY <1>1
  <2> HIDE DEF V, D, n
  <2> QED BY <2>5, <2>6, <2>7 DEF V
<1>5. needs \in [D -> Seq(D)]
  BY <1>4
<1>6. \A i \in D : \A c \in DOMAIN needs[i] : rank[needs[i][c]] < rank[i]
  <2> SUFFICES ASSUME NEW i \in D, NEW c \in DOMAIN ChildrenOf(doc, i)
               PROVE  rank[ChildrenOf(doc, i)[c]] < rank[i]
    OBVIOUS
  <2>1. PICK k \in 1 .. n : k = ChildrenOf(doc, i)[c] /\ doc.suites[k].parent = i /\ k \in D
    BY <1>4
  <2>2. i \in 0 .. k - 1
    BY <1>1, <2>1
  <2>3. rank[k] = n - k /\ rank[i] = n - i
    BY <2>1
  <2> QED BY <1>1, <2>1, <2>2, <2>3
<1>7. made \in [D \X Seq(V) -> V]
  <2> SUFFICES ASSUME NEW e \in D \X Seq(V) PROVE made[e] \in V
    OBVIOUS
  <2>1. e[1] \in D /\ e[2] \in Seq(V)
    OBVIOUS
  <2>2. CasesOf(doc, e[1]) \in Seq(C) /\ FlattenSeq(e[2]) \in Seq(C)
    BY <1>4, <2>1, FlattenIsSequence
  <2>3. CasesOf(doc, e[1]) \o FlattenSeq(e[2]) \in Seq(C)
    BY <2>2
  <2> QED BY <2>3
<1>8. PICK walk \in [D -> V] : Recurses(walk, D, V, needs, made)
  <2> HIDE DEF n, D, V, rank, needs, made
  <2> QED BY <1>1, <1>2, <1>3, <1>5, <1>6, <1>7, Recursion
<1>9. ASSUME NEW i \in D
      PROVE  walk[i] = CasesOf(doc, i) \o
                       FlattenSeq([k \in DOMAIN ChildrenOf(doc, i) |-> walk[ChildrenOf(doc, i)[k]]])
  <2>1. PICK values \in Seq(V) :
           /\ DOMAIN values = DOMAIN needs[i]
           /\ \A c \in DOMAIN needs[i] : values[c] = walk[needs[i][c]]
           /\ walk[i] = made[<<i, values>>]
    BY <1>8 DEF Recurses
  <2>2. needs[i] = ChildrenOf(doc, i)
    OBVIOUS
  <2>3. walk[i] = CasesOf(doc, i) \o FlattenSeq(values)
    BY <2>1
  <2>4. values = [k \in DOMAIN values |-> values[k]]
    BY <2>1
  <2>5. values = [k \in DOMAIN ChildrenOf(doc, i) |-> walk[ChildrenOf(doc, i)[k]]]
    <3> HIDE DEF needs, V, made
    <3> QED BY <2>1, <2>2, <2>4
  <2> QED BY <2>3, <2>5
<1> QED BY <1>9 DEF Walks

\* What walkSuite and walkNUnitSuite visit is such a walk from the document on.
LEMMA VisitedIsWalked ==
    ASSUME NEW doc, IsTree(doc)
    PROVE  \E walk : Walks(walk, doc) /\ Visited(doc) = walk[0]
<1> DEFINE f == CHOOSE f : f = [i \in 0 .. Len(doc.suites) |->
                   CasesOf(doc, i) \o
                   FlattenSeq([k \in DOMAIN ChildrenOf(doc, i) |-> f[ChildrenOf(doc, i)[k]]])]
<1>1. PICK walk \in [0 .. Len(doc.suites) -> Seq(DOMAIN doc.cases)] : Walks(walk, doc)
  BY WalkExists
<1>2. walk = [i \in 0 .. Len(doc.suites) |->
                CasesOf(doc, i) \o
                FlattenSeq([k \in DOMAIN ChildrenOf(doc, i) |-> walk[ChildrenOf(doc, i)[k]]])]
  BY <1>1 DEF Walks
<1>3. f = [i \in 0 .. Len(doc.suites) |->
             CasesOf(doc, i) \o
             FlattenSeq([k \in DOMAIN ChildrenOf(doc, i) |-> f[ChildrenOf(doc, i)[k]]])]
  BY <1>2
<1>4. Visited(doc) = f[0]
  BY DEF Visited
<1> HIDE DEF f
<1>5. Walks(f, doc)
  BY <1>3 DEF Walks
<1> QED BY <1>4, <1>5

\* The cases of suite i and of all suites in it.
Within(doc, i) == {c \in DOMAIN doc.cases : i \in Around(doc)[doc.cases[c].suite]}

\* They are the cases of i itself and those of its children, of which none has two.
LEMMA WithinGrows ==
    ASSUME NEW doc, IsTree(doc), NEW i \in 0 .. Len(doc.suites)
    PROVE  /\ Within(doc, i) = {c \in DOMAIN doc.cases : doc.cases[c].suite = i} \cup
                               UNION {Within(doc, k) : k \in {k \in DOMAIN doc.suites : doc.suites[k].parent = i}}
           /\ \A k \in DOMAIN doc.suites : doc.suites[k].parent = i =>
                 /\ k \in i + 1 .. Len(doc.suites)
                 /\ \A c \in Within(doc, k) : doc.cases[c].suite # i
                 /\ \A l \in DOMAIN doc.suites :
                       doc.suites[l].parent = i /\ k # l => Within(doc, k) \cap Within(doc, l) = {}
<1> DEFINE n == Len(doc.suites)
           suite(c) == doc.cases[c].suite
           parent(k) == doc.suites[k].parent
           around(s) == Around(doc)[s]
<1>1. /\ n \in Nat /\ DOMAIN doc.suites = 1 .. n
      /\ \A k \in 1 .. n : parent(k) \in 0 .. k - 1
      /\ \A c \in DOMAIN doc.cases : suite(c) \in 0 .. n
  BY TreeShape
<1>2. \A s \in 0 .. n : /\ s \in around(s) /\ around(s) \subseteq 0 .. s
                        /\ \A k \in around(s) : k # 0 => k \in 1 .. n /\ parent(k) \in around(s)
                        /\ \A k \in around(s) : k # s => \E l \in around(s) : l # 0 /\ parent(l) = k
                        /\ \A k, l \in around(s) : k # 0 /\ l # 0 /\ parent(k) = parent(l) => k = l
  BY <1>1, AroundIsBefore, ParentsAreAround, OneChildIsAround
<1> HIDE DEF suite, parent, around, n
<1>3. \A k, c : c \in Within(doc, k) <=> c \in DOMAIN doc.cases /\ k \in around(suite(c))
  BY DEF Within, around, suite
<1>4. ASSUME NEW k \in 1 .. n, parent(k) = i
      PROVE  /\ k \in i + 1 .. n
             /\ \A c \in Within(doc, k) : suite(c) # i
             /\ \A l \in 1 .. n : parent(l) = i /\ k # l => Within(doc, k) \cap Within(doc, l) = {}
  <2>1. k \in i + 1 .. n /\ k # 0
    BY <1>1, <1>4
  <2>2. ASSUME NEW c \in Within(doc, k) PROVE suite(c) # i
    <3>1. k \in around(suite(c)) /\ suite(c) \in 0 .. n
      BY <1>1, <1>3
    <3>2. k \in 0 .. suite(c)
      BY <1>2, <3>1
    <3> QED BY <2>1, <3>1, <3>2
  <2>3. ASSUME NEW l \in 1 .. n, parent(l) = i, k # l, NEW c, c \in Within(doc, k), c \in Within(doc, l)
        PROVE  FALSE
    <3>1. k \in around(suite(c)) /\ l \in around(suite(c)) /\ suite(c) \in 0 .. n
      BY <1>1, <1>3, <2>3
    <3>2. l # 0
      BY <1>1
    <3> QED BY <1>2, <1>4, <2>1, <2>3, <3>1, <3>2
  <2> QED BY <2>1, <2>2, <2>3
<1>5. ASSUME NEW c \in DOMAIN doc.cases
      PROVE  i \in around(suite(c)) <=>
                 suite(c) = i \/ \E k \in 1 .. n : parent(k) = i /\ k \in around(suite(c))
  <2>1. suite(c) \in 0 .. n
    BY <1>1
  <2>2. CASE suite(c) = i
    BY <1>2, <2>1, <2>2
  <2>3. ASSUME i \in around(suite(c)), suite(c) # i
        PROVE  \E k \in 1 .. n : parent(k) = i /\ k \in around(suite(c))
    <3>1. PICK k \in around(suite(c)) : k # 0 /\ parent(k) = i
      BY <1>2, <2>1, <2>3
    <3> QED BY <1>2, <2>1, <3>1
  <2>4. ASSUME NEW k \in 1 .. n, parent(k) = i, k \in around(suite(c))
        PROVE  i \in around(suite(c))
    <3>1. k # 0
      BY <1>1
    <3> QED BY <1>2, <2>1, <2>4, <3>1
  <2> QED BY <2>2, <2>3, <2>4
<1> DEFINE below == {k \in 1 .. n : parent(k) = i}
           own == {c \in DOMAIN doc.cases : suite(c) = i}
<1>6. Within(doc, i) = own \cup UNION {Within(doc, k) : k \in below}
  BY <1>3, <1>5
<1>7. /\ own = {c \in DOMAIN doc.cases : doc.cases[c].suite = i}
      /\ below = {k \in DOMAIN doc.suites : doc.suites[k].parent = i}
  BY <1>1 DEF suite, parent
<1> QED BY <1>1, <1>4, <1>6, <1>7 DEF suite, parent, n

\* A walk lists at suite i the cases within it, if it does so at the children.
LEMMA WalkGoesOn ==
    ASSUME NEW doc, IsTree(doc), NEW walk, Walks(walk, doc), NEW i \in 0 .. Len(doc.suites),
           \A k \in DOMAIN doc.suites : doc.suites[k].parent = i => Lists(walk[k], Within(doc, k))
    PROVE  Lists(walk[i], Within(doc, i))
<1> DEFINE children == ChildrenOf(doc, i)
           below == {k \in DOMAIN doc.suites : doc.suites[k].parent = i}
           own == {c \in DOMAIN doc.cases : doc.cases[c].suite = i}
           T == DOMAIN doc.cases
           seqs == [c \in DOMAIN children |-> walk[children[c]]]
           sets == [c \in DOMAIN children |-> Within(doc, children[c])]
           all == UNION {sets[c] : c \in DOMAIN seqs}
<1>1. Lists(CasesOf(doc, i), own) /\ Lists(children, below)
  BY NoneIsLeftOut
<1>2. /\ Within(doc, i) = own \cup UNION {Within(doc, k) : k \in below}
      /\ \A k \in below : \A c \in Within(doc, k) : c \notin own
      /\ \A k, l \in below : k # l => Within(doc, k) \cap Within(doc, l) = {}
  BY WithinGrows
<1>3. walk[i] = CasesOf(doc, i) \o FlattenSeq(seqs)
  BY DEF Walks
<1>4. \A k \in below : Lists(walk[k], Within(doc, k)) /\ Within(doc, k) \subseteq T
  BY DEF Within
<1> HIDE DEF below, own, children, T
<1>5. /\ children \in Seq(below)
      /\ \A x \in below : \E c \in DOMAIN children : children[c] = x
      /\ \A c, d \in DOMAIN children : children[c] = children[d] => c = d
  BY <1>1 DEF Lists
<1>6. /\ DOMAIN children = 1 .. Len(children) /\ Len(children) \in Nat
      /\ \A c \in DOMAIN children : children[c] \in below
  BY <1>5
<1>7. seqs \in Seq(Seq(T))
  <2>1. \A c \in DOMAIN children : walk[children[c]] \in Seq(T)
    <3> SUFFICES ASSUME NEW c \in DOMAIN children PROVE walk[children[c]] \in Seq(T)
      OBVIOUS
    <3>1. walk[children[c]] \in Seq(Within(doc, children[c])) /\ Within(doc, children[c]) \subseteq T
      BY <1>4, <1>6 DEF Lists
    <3> QED BY <3>1
  <2> QED BY <1>6, <2>1
<1>8. \A c \in DOMAIN seqs : Lists(seqs[c], sets[c])
  BY <1>4, <1>6
<1>9. \A c, d \in DOMAIN seqs : c # d => sets[c] \cap sets[d] = {}
  BY <1>2, <1>5, <1>6
<1>10. UNION {Within(doc, k) : k \in below} = all
  <2>1. \A c \in DOMAIN children : sets[c] = Within(doc, children[c])
    OBVIOUS
  <2>2. DOMAIN seqs = DOMAIN children
    OBVIOUS
  <2> HIDE DEF sets, seqs
  <2> QED BY <1>5, <1>6, <2>1, <2>2
<1>11. own \cap UNION {Within(doc, k) : k \in below} = {}
  BY <1>2
<1> HIDE DEF seqs, sets
<1>12. Lists(FlattenSeq(seqs), all)
  <2>1. Lists(FlattenSeq(seqs), AllOf(sets, seqs))
    BY <1>7, <1>8, <1>9, FlattenLists
  <2> QED BY <2>1 DEF AllOf
<1> HIDE DEF all
<1>13. own \cap all = {}
  BY <1>10, <1>11
<1>14. Lists(CasesOf(doc, i) \o FlattenSeq(seqs), own \cup all)
  BY <1>1, <1>12, <1>13, ListsConcat, Zenon
<1> QED BY <1>2, <1>3, <1>10, <1>14, Zenon

\* Every case is visited, and none twice.
LEMMA EveryCaseIsVisited ==
    ASSUME NEW doc, IsTree(doc)
    PROVE  Lists(Visited(doc), DOMAIN doc.cases)
<1>1. PICK walk : Walks(walk, doc) /\ Visited(doc) = walk[0]
  BY VisitedIsWalked
<1> DEFINE S == {i \in 0 .. Len(doc.suites) : Lists(walk[i], Within(doc, i))}
           n == Len(doc.suites)
<1>2. /\ n \in Nat /\ 0 \in 0 .. n /\ DOMAIN doc.suites = 1 .. n
      /\ \A c \in DOMAIN doc.cases : doc.cases[c].suite \in 0 .. n
  BY TreeShape
<1>3. ASSUME NEW i \in 0 .. n, \A k \in i + 1 .. n : k \in S PROVE i \in S
  <2>1. \A k \in DOMAIN doc.suites : doc.suites[k].parent = i => k \in i + 1 .. n
    BY WithinGrows
  <2>2. \A k \in DOMAIN doc.suites : doc.suites[k].parent = i => Lists(walk[k], Within(doc, k))
    BY <1>3, <2>1
  <2>3. Lists(walk[i], Within(doc, i))
    BY <1>1, <2>2, WalkGoesOn
  <2> QED BY <2>3
<1> HIDE DEF S, n
<1>4. \A i \in 0 .. n : (\A k \in i + 1 .. n : k \in S) => i \in S
  BY <1>3
<1>5. \A i \in 0 .. n : i \in S
  BY <1>2, <1>4, FromTheLeaves
<1>6. Lists(walk[0], Within(doc, 0))
  BY <1>2, <1>5 DEF S
<1>7. Within(doc, 0) = DOMAIN doc.cases
  BY <1>2, AroundIsBefore DEF Within, n
<1> QED BY <1>1, <1>6, <1>7

-----------------------------------------------------------------------------
(* Rows.                                                                   *)

\* The names around a suite are those around its parent, then its own.
LEMMA EnclosingGrows ==
    ASSUME NEW doc, IsTree(doc)
    PROVE  /\ Enclosing(doc, 0) = <<>>
           /\ \A k \in DOMAIN doc.suites :
                 Enclosing(doc, k) = Append(Enclosing(doc, doc.suites[k].parent), doc.suites[k].name)
<1>1. Enclosing(doc, 0) = <<>>
  <2>1. Around(doc)[0] \ {0} = {}
    BY AroundGrows
  <2>2. Lists(Ascending({}), {})
    <3> DEFINE none == {}
    <3>1. none \in SUBSET Int /\ IsFiniteSet(none)
      BY FS_EmptySet
    <3> HIDE DEF none
    <3>2. Lists(Ascending(none), none)
      BY <3>1, AscendingLists
    <3> QED BY <3>2, Zenon DEF none
  <2>3. Ascending({}) = <<>>
    <3>1. Ascending({}) \in Seq({})
      BY <2>2 DEF Lists
    <3> QED BY <3>1
  <2>4. Enclosing(doc, 0) = [n \in DOMAIN <<>> |-> doc.suites[<<>>[n]].name]
    BY <2>1, <2>3, Zenon DEF Enclosing
  <2>5. [n \in DOMAIN <<>> |-> doc.suites[<<>>[n]].name] \in Seq({})
    OBVIOUS
  <2> QED BY <2>4, <2>5
<1>2. ASSUME NEW k \in DOMAIN doc.suites
      PROVE  Enclosing(doc, k) = Append(Enclosing(doc, doc.suites[k].parent), doc.suites[k].name)
  <2> DEFINE p == doc.suites[k].parent
             I == Around(doc)[p] \ {0}
             at == Ascending(I)
             names == [n \in DOMAIN at |-> doc.suites[at[n]].name]
  <2>1. p \in 0 .. k - 1 /\ k \in Nat /\ k # 0 /\ p \in 0 .. Len(doc.suites)
    BY TreeShape
  <2>2. Around(doc)[k] = Around(doc)[p] \cup {k} /\ Around(doc)[p] \subseteq 0 .. p
    BY <2>1, AroundGrows, AroundIsBefore
  <2>3. Around(doc)[k] \ {0} = I \cup {k} /\ I \subseteq 0 .. p /\ \A j \in I : j < k
    <3> HIDE DEF p
    <3>1. Around(doc)[k] \ {0} = I \cup {k} /\ I \subseteq 0 .. p
      BY <2>1, <2>2
    <3>2. \A j \in 0 .. p : j < k
      BY <2>1
    <3> HIDE DEF I
    <3> QED BY <3>1, <3>2
  <2>4. I \in SUBSET Int /\ IsFiniteSet(I)
    <3> HIDE DEF p, I
    <3>1. IsFiniteSet(0 .. p) /\ 0 .. p \subseteq Int
      BY <2>1, FS_Interval
    <3> QED BY <2>3, <3>1, FS_Subset
  <2> HIDE DEF I, p
  <2>5. Ascending(I \cup {k}) = Append(at, k)
    BY <2>1, <2>3, <2>4, AscendingAppends
  <2>6. at \in Seq(I)
    BY <2>4, AscendingLists DEF Lists
  <2> HIDE DEF at
  <2>7. /\ Len(at) \in Nat /\ DOMAIN at = 1 .. Len(at) /\ DOMAIN Append(at, k) = 1 .. Len(at) + 1
        /\ Append(at, k)[Len(at) + 1] = k
        /\ \A n \in 1 .. Len(at) : Append(at, k)[n] = at[n]
    BY <2>6
  <2>8. Enclosing(doc, k) = [n \in 1 .. Len(at) + 1 |-> doc.suites[Append(at, k)[n]].name]
    BY <2>3, <2>5, <2>7 DEF Enclosing
  <2>9. Enclosing(doc, p) = names
    BY DEF Enclosing, at, I
  <2>10. names = [n \in 1 .. Len(at) |-> doc.suites[at[n]].name]
    BY <2>7
  <2>11. [n \in 1 .. Len(at) + 1 |-> doc.suites[Append(at, k)[n]].name]
         = Append([n \in 1 .. Len(at) |-> doc.suites[at[n]].name], doc.suites[k].name)
    BY <2>7
  <2> QED BY <2>8, <2>9, <2>10, <2>11 DEF p
<1> QED BY <1>1, <1>2

\* SuitePath, of its own steps, has those names.
LEMMA SuitePathEncloses ==
    ASSUME NEW doc, IsTree(doc), NEW i \in DOMAIN doc.suites
    PROVE  SuitePath(doc, i) = Enclosing(doc, i)
<1> DEFINE f == CHOOSE f : f = [k \in 0 .. i |->
                   IF k = 0 THEN <<>> ELSE Append(f[doc.suites[k].parent], doc.suites[k].name)]
           g == [k \in 0 .. i |-> Enclosing(doc, k)]
           S == {k \in 0 .. i : f[k] = Enclosing(doc, k)}
           parent == [k \in 1 .. i |-> doc.suites[k].parent]
<1>1. /\ i \in Nat /\ 0 \in 0 .. i /\ i \in 0 .. i
      /\ \A k \in 1 .. i : k \in DOMAIN doc.suites /\ doc.suites[k].parent \in 0 .. k - 1
                           /\ doc.suites[k].parent \in 0 .. i /\ k # 0 /\ k \in 0 .. i
      /\ \A k \in 0 .. i : k # 0 => k \in 1 .. i
  BY TreeShape
<1>2. g = [k \in 0 .. i |->
             IF k = 0 THEN <<>> ELSE Append(g[doc.suites[k].parent], doc.suites[k].name)]
  <2> SUFFICES ASSUME NEW k \in 0 .. i
               PROVE  Enclosing(doc, k) =
                      IF k = 0 THEN <<>> ELSE Append(g[doc.suites[k].parent], doc.suites[k].name)
    OBVIOUS
  <2>1. CASE k = 0
    BY <2>1, EnclosingGrows
  <2>2. CASE k # 0
    <3>1. k \in DOMAIN doc.suites /\ g[doc.suites[k].parent] = Enclosing(doc, doc.suites[k].parent)
      BY <1>1, <2>2
    <3> HIDE DEF g
    <3> QED BY <2>2, <3>1, EnclosingGrows
  <2> QED BY <2>1, <2>2
<1>3. f = [k \in 0 .. i |->
             IF k = 0 THEN <<>> ELSE Append(f[doc.suites[k].parent], doc.suites[k].name)]
  <2> HIDE DEF g
  <2> QED BY <1>2
<1>4. SuitePath(doc, i) = f[i]
  BY DEF SuitePath
<1> HIDE DEF f, g
<1>5. 0 \in S
  BY <1>1, <1>3, EnclosingGrows
<1>6. ASSUME NEW k \in 1 .. i, parent[k] \in S PROVE k \in S
  <2>1. f[k] = Append(f[doc.suites[k].parent], doc.suites[k].name)
    BY <1>1, <1>3
  <2>2. f[doc.suites[k].parent] = Enclosing(doc, doc.suites[k].parent)
    BY <1>6
  <2>3. Enclosing(doc, k) = Append(Enclosing(doc, doc.suites[k].parent), doc.suites[k].name)
    BY <1>1, EnclosingGrows
  <2> QED BY <1>1, <2>1, <2>2, <2>3
<1>7. \A k \in 1 .. i : parent[k] \in 0 .. k - 1
  BY <1>1
<1> HIDE DEF S, parent
<1>8. \A k \in 0 .. i : k \in S
  BY <1>1, <1>5, <1>6, <1>7, FromTheRoot
<1> QED BY <1>1, <1>4, <1>8 DEF S

\* What a row is to tell of its case.
Tells(row, doc, case) ==
    /\ row.suite = SuiteOf(doc, case)
    /\ row.test = case.name
    /\ \A status : Says(doc, case, status) <=> status = row.status

\* A row has suite, name and status of its case.
LEMMA RowsTellCases ==
    ASSUME NEW doc, IsTree(doc), NEW c \in DOMAIN doc.cases
    PROVE  Tells(CaseRow(doc, doc.cases[c]), doc, doc.cases[c])
<1> USE DEF Tells
<1> DEFINE case == doc.cases[c]
<1>1. case.suite \in DOMAIN doc.suites
  BY DEF IsTree
<1>2. CASE doc.format = "junit"
  <2>1. case \in JUnitElements
    <3>1. doc.cases \in Seq(JUnitElements)
      BY <1>2 DEF IsTree
    <3> QED BY <3>1
  <2>2. case.marks \subseteq {"failure", "error", "skipped"}
    BY <2>1 DEF JUnitElements, Marks
  <2>3. SuitePath(doc, case.suite) = Enclosing(doc, case.suite)
    BY <1>1, SuitePathEncloses
  <2>4. /\ CaseRow(doc, case).suite = SuiteOf(doc, case)
        /\ CaseRow(doc, case).test = case.name
        /\ CaseRow(doc, case).status = CaseStatus(case)
    BY <1>2, <2>3 DEF CaseRow, JUnitRow, SuiteOf
  <2>5. ASSUME NEW status PROVE Says(doc, case, status) <=> status = CaseStatus(case)
    BY <1>2, <2>2 DEF Says, CaseStatus
  <2> QED BY <2>4, <2>5
<1>3. CASE doc.format # "junit"
  <2>1. /\ CaseRow(doc, case).suite = SuiteOf(doc, case)
        /\ CaseRow(doc, case).test = case.name
        /\ CaseRow(doc, case).status = NUnitCaseStatus(case)
    BY <1>3 DEF CaseRow, NUnitRow, SuiteOf
  <2>2. ASSUME NEW status PROVE Says(doc, case, status) <=> status = NUnitCaseStatus(case)
    BY <1>3 DEF Says, NUnitCaseStatus
  <2> QED BY <2>1, <2>2
<1> QED BY <1>2, <1>3

\* What EveryXmlCaseIsReported asks of a document.
LEMMA DocumentIsReported ==
    ASSUME NEW doc, IsTree(doc), doc.format # "trx"
    PROVE  LET rows == XmlRows(doc) IN
           /\ Len(rows) = Len(doc.cases)
           /\ \A r \in ToSet(rows) :
                 Cardinality({q \in DOMAIN rows :
                                /\ rows[q].suite = r.suite
                                /\ rows[q].test = r.test
                                /\ rows[q].status = r.status}) =
                 Cardinality({c \in DOMAIN doc.cases :
                                /\ SuiteOf(doc, doc.cases[c]) = r.suite
                                /\ doc.cases[c].name = r.test
                                /\ Says(doc, doc.cases[c], r.status)})
<1> DEFINE visited == Visited(doc)
           rows == XmlRows(doc)
           row(c) == CaseRow(doc, doc.cases[c])
<1>1. Lists(visited, DOMAIN doc.cases)
  BY EveryCaseIsVisited
<1>2. rows = [n \in DOMAIN visited |-> row(visited[n])]
  BY DEF XmlRows
<1> HIDE DEF visited, rows
<1>3. /\ visited \in Seq(DOMAIN doc.cases)
      /\ DOMAIN visited = 1 .. Len(visited) /\ Len(visited) \in Nat
      /\ \A n \in DOMAIN visited : visited[n] \in DOMAIN doc.cases
  <2>1. visited \in Seq(DOMAIN doc.cases)
    BY <1>1 DEF Lists
  <2> QED BY <2>1
<1>4. Len(rows) = Len(doc.cases)
  <2>1. Len(doc.cases) \in Nat /\ DOMAIN doc.cases = 1 .. Len(doc.cases)
    BY TreeShape
  <2>2. Len(visited) = Len(doc.cases)
    BY <1>1, <2>1, ListsAreAsLong
  <2>3. Len(rows) = Len(visited)
    BY <1>2, <1>3
  <2> QED BY <2>2, <2>3
<1>5. ASSUME NEW r
      PROVE  Cardinality({q \in DOMAIN rows :
                            /\ rows[q].suite = r.suite
                            /\ rows[q].test = r.test
                            /\ rows[q].status = r.status}) =
             Cardinality({c \in DOMAIN doc.cases :
                            /\ SuiteOf(doc, doc.cases[c]) = r.suite
                            /\ doc.cases[c].name = r.test
                            /\ Says(doc, doc.cases[c], r.status)})
  <2> DEFINE I == {q \in DOMAIN rows : /\ rows[q].suite = r.suite
                                       /\ rows[q].test = r.test
                                       /\ rows[q].status = r.status}
             J == {c \in DOMAIN doc.cases : /\ SuiteOf(doc, doc.cases[c]) = r.suite
                                            /\ doc.cases[c].name = r.test
                                            /\ Says(doc, doc.cases[c], r.status)}
  <2>1. \A c \in DOMAIN doc.cases :
           c \in J <=> row(c).suite = r.suite /\ row(c).test = r.test /\ row(c).status = r.status
    <3> SUFFICES ASSUME NEW c \in DOMAIN doc.cases
                 PROVE  c \in J <=> /\ row(c).suite = r.suite
                                    /\ row(c).test = r.test
                                    /\ row(c).status = r.status
      OBVIOUS
    <3>1. /\ row(c).suite = SuiteOf(doc, doc.cases[c])
          /\ row(c).test = doc.cases[c].name
          /\ Says(doc, doc.cases[c], r.status) <=> r.status = row(c).status
      <4>1. Tells(row(c), doc, doc.cases[c])
        BY RowsTellCases
      <4> HIDE DEF row
      <4> QED BY <4>1 DEF Tells
    <3> HIDE DEF row
    <3> QED BY <3>1
  <2> HIDE DEF row
  <2>2. DOMAIN rows = DOMAIN visited /\ \A q \in DOMAIN visited : rows[q] = row(visited[q])
    BY <1>2
  <2>3. \A q \in DOMAIN visited : q \in I <=> visited[q] \in J
    BY <1>3, <2>1, <2>2
  <2>4. I \in SUBSET DOMAIN visited /\ J \in SUBSET DOMAIN doc.cases
    BY <2>2
  <2> HIDE DEF I, J
  <2>5. Cardinality(I) = Cardinality(J)
    BY <1>1, <2>3, <2>4, PlacesAreCounted
  <2> QED BY <2>5 DEF I, J
<1> QED BY <1>4, <1>5 DEF rows

-----------------------------------------------------------------------------
(* Joined texts.                                                           *)

\* f has at each number the texts up to there, joined.
Joins(f, texts, joint) ==
    /\ f[1] = texts[1]
    /\ \A i \in 2 .. Len(texts) : f[i] = f[i - 1] \o (<<joint>> \o texts[i])

\* Join is made of such steps.
LEMMA JoinInSteps ==
    ASSUME NEW X, NEW joint \in X, NEW texts \in Seq(Seq(X)), texts # <<>>
    PROVE  \E f : Joins(f, texts, joint) /\ Join(texts, joint) = f[Len(texts)]
<1> DEFINE parts == [i \in DOMAIN texts |-> IF i = 1 THEN texts[i] ELSE <<joint>> \o texts[i]]
<1>1. /\ Len(texts) \in Nat /\ Len(texts) # 0 /\ DOMAIN texts = 1 .. Len(texts)
      /\ \A i \in 1 .. Len(texts) : texts[i] \in Seq(X)
  OBVIOUS
<1>2. \A i \in 1 .. Len(texts) : <<joint>> \o texts[i] \in Seq(X)
  <2>1. <<joint>> \in Seq(X)
    OBVIOUS
  <2> QED BY <1>1, <2>1
<1>3. parts \in Seq(Seq(X)) /\ Len(parts) = Len(texts)
  BY <1>1, <1>2
<1>4. parts[1] = texts[1] /\ \A i \in 2 .. Len(texts) : parts[i] = <<joint>> \o texts[i]
  BY <1>1
<1>5. Join(texts, joint) = FlattenSeq(parts)
  BY DEF Join
<1> HIDE DEF parts
<1>6. parts # <<>>
  BY <1>1, <1>3
<1>7. PICK f : /\ f[1] = parts[1]
               /\ \A i \in 2 .. Len(parts) : f[i] = f[i - 1] \o parts[i]
               /\ FlattenSeq(parts) = f[Len(parts)]
  BY <1>3, <1>6, FlattenAppends
<1>8. Joins(f, texts, joint)
  BY <1>3, <1>4, <1>7 DEF Joins
<1> QED BY <1>3, <1>5, <1>7, <1>8

\* What has been joined up to any text is a text.
LEMMA JoinsAreTexts ==
    ASSUME NEW X, NEW joint \in X, NEW texts \in Seq(Seq(X)), NEW f, Joins(f, texts, joint)
    PROVE  \A i \in 1 .. Len(texts) : f[i] \in Seq(X)
<1> DEFINE K == {i \in 0 .. Len(texts) : i = 0 \/ f[i] \in Seq(X)}
<1>1. Len(texts) \in Nat /\ \A i \in 1 .. Len(texts) : texts[i] \in Seq(X)
  OBVIOUS
<1>2. ASSUME NEW i \in 1 .. Len(texts), i - 1 \in K PROVE i \in K
  <2>1. i \in 0 .. Len(texts)
    BY <1>1
  <2>2. CASE i = 1
    <3>1. f[1] \in Seq(X)
      <4>1. 1 \in 1 .. Len(texts)
        BY <2>2
      <4> QED BY <1>1, <4>1 DEF Joins
    <3> QED BY <2>1, <2>2, <3>1
  <2>3. CASE i # 1
    <3>1. i \in 2 .. Len(texts) /\ i - 1 # 0
      BY <1>1, <2>3
    <3>2. f[i - 1] \in Seq(X) /\ <<joint>> \in Seq(X) /\ texts[i] \in Seq(X)
      BY <1>1, <1>2, <3>1
    <3>3. f[i] = f[i - 1] \o (<<joint>> \o texts[i])
      BY <3>1 DEF Joins
    <3> HIDE DEF K
    <3>4. f[i] \in Seq(X)
      BY <3>2, <3>3
    <3> QED BY <2>1, <3>4 DEF K
  <2> QED BY <2>2, <2>3
<1>3. 0 \in K
  BY <1>1
<1> HIDE DEF K
<1>4. \A i \in 1 .. Len(texts) : i - 1 \in K => i \in K
  BY <1>2
<1>5. \A i \in 0 .. Len(texts) : i \in K
  BY <1>1, <1>3, <1>4, Counting
<1>6. \A i \in 1 .. Len(texts) : i \in 0 .. Len(texts) /\ i # 0
  BY <1>1
<1> QED BY <1>5, <1>6 DEF K

\* The joint is not in the text.
Free(text, joint) == \A i \in DOMAIN text : text[i] # joint

\* Two texts with a joint between them.
Glued(a, j, x) == a \o (<<j>> \o x)

HasParts(s, a, j, x) ==
    /\ Len(s) = Len(a) + 1 + Len(x)
    /\ DOMAIN s = 1 .. Len(a) + 1 + Len(x)
    /\ \A i \in 1 .. Len(a) : s[i] = a[i]
    /\ s[Len(a) + 1] = j
    /\ \A i \in 1 .. Len(x) : s[Len(a) + 1 + i] = x[i]

\* Neither text is changed.
LEMMA GluedHasParts ==
    ASSUME NEW X, NEW j \in X, NEW a \in Seq(X), NEW x \in Seq(X)
    PROVE  Glued(a, j, x) \in Seq(X) /\ HasParts(Glued(a, j, x), a, j, x)
  BY DEF Glued, HasParts

\* The last joint is where the last text begins.
LEMMA LastTextIsFound ==
    ASSUME NEW X, NEW j \in X, NEW a \in Seq(X), NEW b \in Seq(X), NEW x \in Seq(X), NEW y \in Seq(X),
           Free(x, j), Free(y, j), Glued(a, j, x) = Glued(b, j, y)
    PROVE  a = b /\ x = y
<1> DEFINE s == Glued(a, j, x)
           t == Glued(b, j, y)
           k == Len(a)
           l == Len(b)
           m == Len(x)
           n == Len(y)
<1>0. HasParts(s, a, j, x) /\ HasParts(t, b, j, y)
  BY GluedHasParts
<1>1. /\ k \in Nat /\ DOMAIN a = 1 .. k /\ l \in Nat /\ DOMAIN b = 1 .. l
      /\ m \in Nat /\ DOMAIN x = 1 .. m /\ n \in Nat /\ DOMAIN y = 1 .. n
  OBVIOUS
<1>2. /\ Len(s) = k + 1 + m
      /\ s[k + 1] = j
      /\ \A i \in 1 .. k : s[i] = a[i]
      /\ \A i \in 1 .. m : s[k + 1 + i] = x[i]
  <2> HIDE DEF s, t
  <2> QED BY <1>0 DEF HasParts
<1>3. /\ Len(t) = l + 1 + n
      /\ t[l + 1] = j
      /\ \A i \in 1 .. l : t[i] = b[i]
      /\ \A i \in 1 .. n : t[l + 1 + i] = y[i]
  <2> HIDE DEF s, t
  <2> QED BY <1>0 DEF HasParts
<1>4. s = t
  OBVIOUS
<1> HIDE DEF s, t, k, l, m, n
<1>5. k + 1 + m = l + 1 + n
  BY <1>2, <1>3, <1>4
<1>6. ~ k < l
  <2> SUFFICES ASSUME k < l PROVE FALSE
    OBVIOUS
  <2>1. PICK i \in Int : i = l - k
    BY <1>1
  <2>2. i \in 1 .. m /\ k + 1 + i = l + 1
    BY <1>1, <1>5, <2>1
  <2>3. x[i] = j
    BY <1>2, <1>3, <1>4, <2>2
  <2> QED BY <1>1, <2>2, <2>3 DEF Free
<1>7. ~ l < k
  <2> SUFFICES ASSUME l < k PROVE FALSE
    OBVIOUS
  <2>1. PICK i \in Int : i = k - l
    BY <1>1
  <2>2. i \in 1 .. n /\ l + 1 + i = k + 1
    BY <1>1, <1>5, <2>1
  <2>3. y[i] = j
    BY <1>2, <1>3, <1>4, <2>2
  <2> QED BY <1>1, <2>2, <2>3 DEF Free
<1>8. k = l /\ m = n
  BY <1>1, <1>5, <1>6, <1>7
<1>9. \A i \in 1 .. k : a[i] = b[i]
  BY <1>2, <1>3, <1>4, <1>8
<1>10. \A i \in 1 .. m : x[i] = y[i]
  BY <1>2, <1>3, <1>4, <1>8
<1> QED BY <1>1, <1>8, <1>9, <1>10 DEF k, l, m, n

\* Texts without the joint are told apart when they are joined.
LEMMA JoinsTellTexts ==
    ASSUME NEW X, NEW j \in X,
           NEW p \in Seq(Seq(X)), p # <<>>, \A i \in DOMAIN p : Free(p[i], j), NEW f, Joins(f, p, j),
           NEW q \in Seq(Seq(X)), q # <<>>, \A i \in DOMAIN q : Free(q[i], j), NEW g, Joins(g, q, j),
           f[Len(p)] = g[Len(q)]
    PROVE  p = q
<1> DEFINE m == Len(p)
           n == Len(q)
           K == {k \in 0 .. m - 1 : /\ k \in 0 .. n - 1
                                    /\ f[m - k] = g[n - k]
                                    /\ \A i \in 0 .. k - 1 : p[m - i] = q[n - i]}
<1>1. /\ m \in Nat /\ m # 0 /\ DOMAIN p = 1 .. m /\ \A i \in 1 .. m : p[i] \in Seq(X) /\ Free(p[i], j)
      /\ n \in Nat /\ n # 0 /\ DOMAIN q = 1 .. n /\ \A i \in 1 .. n : q[i] \in Seq(X) /\ Free(q[i], j)
  OBVIOUS
<1>2. /\ \A i \in 1 .. m : f[i] \in Seq(X)
      /\ \A i \in 1 .. n : g[i] \in Seq(X)
  BY JoinsAreTexts
<1>3. /\ f[1] = p[1] /\ \A i \in 2 .. m : f[i] = f[i - 1] \o (<<j>> \o p[i])
      /\ g[1] = q[1] /\ \A i \in 2 .. n : g[i] = g[i - 1] \o (<<j>> \o q[i])
  BY DEF Joins
<1>4. f[m] = g[n]
  OBVIOUS
<1> HIDE DEF m, n
<1>5. ASSUME NEW a \in Seq(X), NEW x \in Seq(X) PROVE ~ Free(a \o (<<j>> \o x), j)
  <2>1. Len(a) \in Nat /\ Len(a) + 1 \in DOMAIN (a \o (<<j>> \o x)) /\ (a \o (<<j>> \o x))[Len(a) + 1] = j
    OBVIOUS
  <2> QED BY <2>1 DEF Free
<1>6. 0 \in K
  BY <1>1, <1>4
<1>7. ASSUME NEW k \in 1 .. m - 1, k - 1 \in K PROVE k \in K
  <2>1. PICK u \in Int : u = m - (k - 1)
    BY <1>1
  <2>2. PICK v \in Int : v = n - (k - 1)
    BY <1>1
  <2>3. /\ u \in 2 .. m /\ u \in 1 .. m /\ u - 1 \in 1 .. m /\ u - 1 = m - k /\ v \in 1 .. n
        /\ f[u] = g[v]
        /\ \A i \in 0 .. (k - 1) - 1 : p[m - i] = q[n - i]
    BY <1>1, <1>7, <2>1, <2>2
  <2>4. f[u] = f[u - 1] \o (<<j>> \o p[u]) /\ f[u - 1] \in Seq(X) /\ p[u] \in Seq(X) /\ Free(p[u], j)
    BY <1>1, <1>2, <1>3, <2>3
  <2>5. ~ Free(f[u], j)
    BY <1>5, <2>4
  <2>6. v # 1
    BY <1>1, <1>3, <2>3, <2>5
  <2>7. v \in 2 .. n /\ v - 1 \in 1 .. n /\ v - 1 = n - k
    BY <1>1, <2>2, <2>3, <2>6
  <2>8. g[v] = g[v - 1] \o (<<j>> \o q[v]) /\ g[v - 1] \in Seq(X) /\ q[v] \in Seq(X) /\ Free(q[v], j)
    BY <1>1, <1>2, <1>3, <2>3, <2>7
  <2>9. f[u - 1] = g[v - 1] /\ p[u] = q[v]
    <3>1. f[u - 1] \o (<<j>> \o p[u]) = g[v - 1] \o (<<j>> \o q[v])
      BY <2>3, <2>4, <2>8
    <3> DEFINE a == f[u - 1]
               x == p[u]
               b == g[v - 1]
               y == q[v]
    <3>2. /\ a \in Seq(X) /\ x \in Seq(X) /\ Free(x, j)
          /\ b \in Seq(X) /\ y \in Seq(X) /\ Free(y, j)
          /\ Glued(a, j, x) = Glued(b, j, y)
      BY <2>4, <2>8, <3>1 DEF Glued
    <3> HIDE DEF a, b, x, y
    <3>3. a = b /\ x = y
      BY <3>2, LastTextIsFound
    <3> QED BY <3>3 DEF a, b, x, y
  <2>10. \A i \in 0 .. k - 1 : i \in 0 .. (k - 1) - 1 \/ i = k - 1
    OBVIOUS
  <2>11. \A i \in 0 .. k - 1 : p[m - i] = q[n - i]
    BY <2>1, <2>2, <2>3, <2>9, <2>10
  <2>12. k \in 0 .. m - 1 /\ k \in 0 .. n - 1
    BY <1>1, <2>7
  <2> QED BY <2>3, <2>7, <2>9, <2>11, <2>12
<1> HIDE DEF K
<1>8. m - 1 \in K
  <2>1. m - 1 \in Nat /\ m - 1 \in 0 .. m - 1
    BY <1>1
  <2>2. \A k \in 1 .. m - 1 : k - 1 \in K => k \in K
    BY <1>7
  <2>3. \A k \in 0 .. m - 1 : k \in K
    BY <1>6, <2>1, <2>2, Counting
  <2> QED BY <2>1, <2>3
<1>9. /\ m - 1 \in 0 .. n - 1
      /\ f[m - (m - 1)] = g[n - (m - 1)]
      /\ \A i \in 0 .. (m - 1) - 1 : p[m - i] = q[n - i]
  BY <1>8 DEF K
<1>10. m = n
  <2>1. PICK v \in 1 .. n : v = n - (m - 1)
    BY <1>1, <1>9
  <2>2. f[1] = g[v] /\ Free(f[1], j)
    <3>1. m - (m - 1) = 1 /\ 1 \in 1 .. m
      BY <1>1
    <3> QED BY <1>1, <1>3, <1>9, <2>1, <3>1
  <2>3. v = 1
    <3> SUFFICES ASSUME v # 1 PROVE FALSE
      OBVIOUS
    <3>1. v \in 2 .. n /\ v - 1 \in 1 .. n
      BY <1>1
    <3>2. g[v] = g[v - 1] \o (<<j>> \o q[v]) /\ g[v - 1] \in Seq(X) /\ q[v] \in Seq(X)
      BY <1>1, <1>2, <1>3, <3>1
    <3> QED BY <1>5, <2>2, <3>2
  <2> QED BY <1>1, <2>1, <2>3
<1>11. \A i \in 1 .. m : p[i] = q[i]
  <2> SUFFICES ASSUME NEW i \in 1 .. m PROVE p[i] = q[i]
    OBVIOUS
  <2>1. CASE i = 1
    <3>1. m - (m - 1) = 1 /\ n - (m - 1) = 1
      BY <1>1, <1>10
    <3> QED BY <1>3, <1>9, <2>1, <3>1
  <2>2. CASE i # 1
    <3>1. PICK h \in 0 .. (m - 1) - 1 : h = m - i
      BY <1>1, <2>2
    <3>2. m - h = i /\ n - h = i
      BY <1>1, <1>10, <3>1
    <3> QED BY <1>9, <3>2
  <2> QED BY <2>1, <2>2
<1> QED BY <1>1, <1>10, <1>11

\* Lower case neither makes nor removes the colons of a joint.
LEMMA LowerKeepsColons ==
    /\ "::" \in Segments
    /\ Lower["::"] = "::"
    /\ \A text \in Strings :
          /\ ToLower(text) \in Strings
          /\ Len(ToLower(text)) = Len(text)
          /\ Free(text, "::") => Free(ToLower(text), "::")
<1>1. /\ "::" \in Segments
      /\ \A s \in Segments : Lower[s] \in Segments /\ (Lower[s] = "::" <=> s = "::")
  BY LowerAssumption DEF Joints
<1>2. ASSUME NEW text \in Strings
      PROVE  /\ ToLower(text) \in Strings
             /\ Len(ToLower(text)) = Len(text)
             /\ Free(text, "::") => Free(ToLower(text), "::")
  <2>1. /\ DOMAIN text = 1 .. Len(text) /\ Len(text) \in Nat
        /\ \A i \in DOMAIN text : text[i] \in Segments
    BY DEF Strings
  <2>2. ToLower(text) = [i \in 1 .. Len(text) |-> Lower[text[i]]]
    BY <2>1 DEF ToLower
  <2>3. ToLower(text) \in Strings /\ Len(ToLower(text)) = Len(text)
    BY <1>1, <2>1, <2>2 DEF Strings
  <2>4. Free(text, "::") => Free(ToLower(text), "::")
    BY <1>1, <2>1, <2>2 DEF Free
  <2> QED BY <2>3, <2>4
<1> QED BY <1>1, <1>2

\* Texts are put in lower case one by one.
LEMMA ToLowerGlued ==
    ASSUME NEW a \in Strings, NEW x \in Strings
    PROVE  ToLower(Glued(a, "::", x)) = Glued(ToLower(a), "::", ToLower(x))
<1> DEFINE s == Glued(a, "::", x)
           t == Glued(ToLower(a), "::", ToLower(x))
           la == ToLower(a)
           lx == ToLower(x)
           k == Len(a)
           m == Len(x)
<1>1. /\ a \in Seq(Segments) /\ x \in Seq(Segments) /\ "::" \in Segments
      /\ la \in Seq(Segments) /\ lx \in Seq(Segments) /\ Len(la) = k /\ Len(lx) = m
  BY LowerKeepsColons DEF Strings
<1>2. /\ k \in Nat /\ DOMAIN a = 1 .. k /\ m \in Nat /\ DOMAIN x = 1 .. m
      /\ DOMAIN la = 1 .. k /\ DOMAIN lx = 1 .. m
  BY <1>1
<1>3. /\ s \in Seq(Segments) /\ DOMAIN s = 1 .. k + 1 + m
      /\ \A i \in 1 .. k : s[i] = a[i]
      /\ s[k + 1] = "::"
      /\ \A i \in 1 .. m : s[k + 1 + i] = x[i]
  <2>1. s \in Seq(Segments) /\ HasParts(s, a, "::", x)
    BY <1>1, GluedHasParts
  <2> HIDE DEF s
  <2> QED BY <2>1 DEF HasParts
<1>4. /\ t \in Seq(Segments) /\ DOMAIN t = 1 .. k + 1 + m
      /\ \A i \in 1 .. k : t[i] = la[i]
      /\ t[k + 1] = "::"
      /\ \A i \in 1 .. m : t[k + 1 + i] = lx[i]
  <2> HIDE DEF la, lx
  <2>1. t = Glued(la, "::", lx)
    BY DEF la, lx
  <2> HIDE DEF t
  <2>2. t \in Seq(Segments) /\ HasParts(t, la, "::", lx)
    BY <1>1, <2>1, GluedHasParts
  <2> QED BY <1>1, <2>2 DEF HasParts
<1>5. /\ \A i \in 1 .. k : la[i] = Lower[a[i]]
      /\ \A i \in 1 .. m : lx[i] = Lower[x[i]]
  BY <1>2 DEF ToLower
<1> HIDE DEF s, t, la, lx, k, m
<1>6. ASSUME NEW i \in 1 .. k + 1 + m PROVE t[i] = Lower[s[i]]
  <2>1. CASE i \in 1 .. k
    BY <1>3, <1>4, <1>5, <2>1
  <2>2. CASE i = k + 1
    BY <1>3, <1>4, <2>2, LowerKeepsColons
  <2>3. CASE ~ i \in 1 .. k /\ i # k + 1
    <3>1. PICK h \in 1 .. m : h = i - (k + 1)
      BY <1>2, <2>3
    <3>2. i = k + 1 + h
      BY <1>2, <3>1
    <3> QED BY <1>3, <1>4, <1>5, <3>2
  <2> QED BY <2>1, <2>2, <2>3
<1>7. ToLower(s) = [i \in 1 .. k + 1 + m |-> Lower[s[i]]]
  BY <1>3 DEF ToLower
<1>8. t = [i \in 1 .. k + 1 + m |-> t[i]]
  BY <1>4
<1>9. ToLower(s) = t
  BY <1>6, <1>7, <1>8
<1> QED BY <1>9 DEF s, t

\* Joined texts are the same in lower case only if each of them is.
LEMMA KeysTellTexts ==
    ASSUME NEW p \in Seq(Strings), p # <<>>, \A i \in DOMAIN p : Free(p[i], "::"),
           NEW q \in Seq(Strings), q # <<>>, \A i \in DOMAIN q : Free(q[i], "::"),
           ToLower(Join(p, "::")) = ToLower(Join(q, "::"))
    PROVE  Len(p) = Len(q) /\ \A i \in 1 .. Len(p) : ToLower(p[i]) = ToLower(q[i])
<1> DEFINE low(texts) == [i \in 1 .. Len(texts) |-> ToLower(texts[i])]
<1>1. ASSUME NEW r \in Seq(Strings), r # <<>>, \A i \in DOMAIN r : Free(r[i], "::")
      PROVE  /\ low(r) \in Seq(Strings) /\ low(r) # <<>> /\ Len(low(r)) = Len(r)
             /\ \A i \in DOMAIN low(r) : Free(low(r)[i], "::")
             /\ \E f : Joins(f, low(r), "::") /\ f[Len(low(r))] = ToLower(Join(r, "::"))
  <2>1. /\ Len(r) \in Nat /\ Len(r) # 0 /\ DOMAIN r = 1 .. Len(r)
        /\ \A i \in 1 .. Len(r) : r[i] \in Strings
    BY <1>1
  <2>2. \A i \in 1 .. Len(r) : ToLower(r[i]) \in Strings /\ Free(ToLower(r[i]), "::")
    BY <1>1, <2>1, LowerKeepsColons
  <2>3. low(r) \in Seq(Strings) /\ Len(low(r)) = Len(r) /\ DOMAIN low(r) = 1 .. Len(r)
        /\ \A i \in 1 .. Len(r) : low(r)[i] = ToLower(r[i])
    BY <2>1, <2>2
  <2>4. low(r) # <<>> /\ \A i \in DOMAIN low(r) : Free(low(r)[i], "::")
    <3> HIDE DEF low
    <3> QED BY <2>1, <2>2, <2>3
  <2>5. r \in Seq(Seq(Segments)) /\ "::" \in Segments
    BY LowerKeepsColons DEF Strings
  <2>6. PICK f : Joins(f, r, "::") /\ Join(r, "::") = f[Len(r)]
    BY <1>1, <2>5, JoinInSteps
  <2>7. \A i \in 1 .. Len(r) : f[i] \in Strings
    BY <2>5, <2>6, JoinsAreTexts DEF Strings
  <2> DEFINE g == [i \in 1 .. Len(r) |-> ToLower(f[i])]
  <2>8. g[1] = low(r)[1]
    <3>1. 1 \in 1 .. Len(r)
      BY <2>1
    <3> QED BY <2>6, <3>1 DEF Joins
  <2>9. ASSUME NEW i \in 2 .. Len(r) PROVE g[i] = g[i - 1] \o (<<"::">> \o low(r)[i])
    <3>1. i \in 1 .. Len(r) /\ i - 1 \in 1 .. Len(r)
      BY <2>1
    <3>2. f[i] = f[i - 1] \o (<<"::">> \o r[i]) /\ f[i - 1] \in Strings /\ r[i] \in Strings
      BY <2>1, <2>6, <2>7, <3>1 DEF Joins
    <3>3. ToLower(f[i]) = ToLower(f[i - 1]) \o (<<"::">> \o ToLower(r[i]))
      <4>1. ToLower(Glued(f[i - 1], "::", r[i])) = Glued(ToLower(f[i - 1]), "::", ToLower(r[i]))
        BY <3>2, ToLowerGlued
      <4> QED BY <3>2, <4>1 DEF Glued
    <3>4. g[i] = ToLower(f[i]) /\ g[i - 1] = ToLower(f[i - 1]) /\ low(r)[i] = ToLower(r[i])
      BY <3>1
    <3> HIDE DEF g, low
    <3> QED BY <3>3, <3>4, Zenon
  <2>10. g[Len(r)] = ToLower(Join(r, "::"))
    <3>1. Len(r) \in 1 .. Len(r)
      BY <2>1
    <3> QED BY <2>6, <3>1
  <2> HIDE DEF g, low
  <2>11. Joins(g, low(r), "::")
    BY <2>3, <2>8, <2>9 DEF Joins
  <2> QED BY <2>3, <2>4, <2>10, <2>11
<1> DEFINE lp == low(p)
           lq == low(q)
<1>2. /\ lp \in Seq(Strings) /\ lp # <<>> /\ Len(lp) = Len(p)
      /\ \A i \in DOMAIN lp : Free(lp[i], "::")
      /\ \E f : Joins(f, lp, "::") /\ f[Len(lp)] = ToLower(Join(p, "::"))
  <2> HIDE DEF low
  <2> QED BY <1>1
<1>3. /\ lq \in Seq(Strings) /\ lq # <<>> /\ Len(lq) = Len(q)
      /\ \A i \in DOMAIN lq : Free(lq[i], "::")
      /\ \E f : Joins(f, lq, "::") /\ f[Len(lq)] = ToLower(Join(q, "::"))
  <2> HIDE DEF low
  <2> QED BY <1>1
<1> HIDE DEF lp, lq
<1>4. lp = lq
  <2>1. PICK f : Joins(f, lp, "::") /\ f[Len(lp)] = ToLower(Join(p, "::"))
    BY <1>2
  <2>2. PICK g : Joins(g, lq, "::") /\ g[Len(lq)] = ToLower(Join(q, "::"))
    BY <1>3
  <2>3. lp \in Seq(Seq(Segments)) /\ lq \in Seq(Seq(Segments)) /\ "::" \in Segments
    BY <1>2, <1>3, LowerKeepsColons DEF Strings
  <2> QED BY <1>2, <1>3, <2>1, <2>2, <2>3, JoinsTellTexts
<1>5. Len(p) = Len(q)
  BY <1>2, <1>3, <1>4
<1>6. ASSUME NEW i \in 1 .. Len(p) PROVE ToLower(p[i]) = ToLower(q[i])
  <2>1. lp[i] = ToLower(p[i]) /\ lq[i] = ToLower(q[i])
    BY <1>5 DEF lp, lq
  <2> QED BY <1>4, <2>1
<1> QED BY <1>5, <1>6

-----------------------------------------------------------------------------
(* Keys.                                                                   *)

\* deriveTestKey keeps the parts that are not empty.
LEMMA ThreeAreKept ==
    ASSUME NEW a \in Strings, NEW b \in Strings, NEW c \in Strings,
           NonEmpty(a), NonEmpty(b), NonEmpty(c)
    PROVE  FilterNonEmpty(<<a, b, c>>) = <<a, b, c>>
<1> DEFINE texts == <<a, b, c>>
<1>1. texts \in Seq(Strings) /\ Len(texts) = 3
  OBVIOUS
<1>2. {i \in DOMAIN texts : NonEmpty(texts[i])} = 1 .. 3
  OBVIOUS
<1>3. texts = [n \in 1 .. 3 |-> texts[n]]
  OBVIOUS
<1> HIDE DEF texts
<1>4. Select(texts, 1 .. 3) = [n \in 1 .. 3 |-> texts[n]]
  BY <1>1, SelectPrefix
<1>5. FilterNonEmpty(texts) = texts
  BY <1>2, <1>3, <1>4 DEF FilterNonEmpty
<1> QED BY <1>5 DEF texts

\* The file of a JUnit case is the only part that may be missing.
LEMMA FourOrFiveAreKept ==
    ASSUME NEW a \in Strings, NEW b \in Strings, NEW c \in Strings, NEW d \in Strings, NEW e \in Strings,
           NonEmpty(a), NonEmpty(b), NonEmpty(c), NonEmpty(d)
    PROVE  FilterNonEmpty(<<a, b, c, d, e>>) = IF NonEmpty(e) THEN <<a, b, c, d, e>> ELSE <<a, b, c, d>>
<1> DEFINE texts == <<a, b, c, d, e>>
<1>1. texts \in Seq(Strings) /\ Len(texts) = 5
  OBVIOUS
<1>2. NonEmpty(e) => {i \in DOMAIN texts : NonEmpty(texts[i])} = 1 .. 5
  OBVIOUS
<1>3. ~ NonEmpty(e) => {i \in DOMAIN texts : NonEmpty(texts[i])} = 1 .. 4
  OBVIOUS
<1>4. texts = [n \in 1 .. 5 |-> texts[n]] /\ <<a, b, c, d>> = [n \in 1 .. 4 |-> texts[n]]
  OBVIOUS
<1> HIDE DEF texts
<1>5. /\ Select(texts, 1 .. 5) = [n \in 1 .. 5 |-> texts[n]]
      /\ Select(texts, 1 .. 4) = [n \in 1 .. 4 |-> texts[n]]
  <2>1. 4 \in 0 .. Len(texts) /\ 5 \in 0 .. Len(texts)
    BY <1>1
  <2>2. Select(texts, 1 .. 5) = [n \in 1 .. 5 |-> texts[n]]
    BY <1>1, <2>1, SelectPrefix
  <2>3. Select(texts, 1 .. 4) = [n \in 1 .. 4 |-> texts[n]]
    BY <1>1, <2>1, SelectPrefix
  <2> QED BY <2>2, <2>3
<1>6. FilterNonEmpty(texts) = IF NonEmpty(e) THEN texts ELSE <<a, b, c, d>>
  BY <1>2, <1>3, <1>4, <1>5 DEF FilterNonEmpty
<1> QED BY <1>6 DEF texts

\* firstNonEmpty returns one of the texts, or an empty one.
LEMMA FirstIsText ==
    ASSUME NEW texts \in Seq(Strings)
    PROVE  FirstNonEmpty(texts) \in Strings
<1> DEFINE full == {i \in DOMAIN texts : NonEmpty(texts[i])}
<1>1. CASE full = {}
  BY <1>1 DEF FirstNonEmpty, Strings
<1>2. CASE full # {}
  <2>1. DOMAIN texts = 1 .. Len(texts) /\ Len(texts) \in Nat
    OBVIOUS
  <2>2. full \in SUBSET Int /\ IsFiniteSet(full)
    <3>1. IsFiniteSet(1 .. Len(texts)) /\ 1 .. Len(texts) \subseteq Int
      BY <2>1, FS_Interval
    <3>2. full \subseteq 1 .. Len(texts)
      BY <2>1
    <3> HIDE DEF full
    <3> QED BY <3>1, <3>2, FS_Subset
  <2>3. Min(full) \in full
    <3> HIDE DEF full
    <3> QED BY <1>2, <2>2, LeastIsFound
  <2>4. FirstNonEmpty(texts) = texts[Min(full)]
    BY <1>2 DEF FirstNonEmpty
  <2>5. Min(full) \in DOMAIN texts
    BY <2>3
  <2> HIDE DEF full
  <2> QED BY <2>4, <2>5
<1> QED BY <1>1, <1>2

\* A third text does not matter if the first of two is not empty.
LEMMA FirstOfThree ==
    ASSUME NEW a, NEW b, NEW c, NonEmpty(FirstNonEmpty(<<a, b>>))
    PROVE  FirstNonEmpty(<<a, b, c>>) = FirstNonEmpty(<<a, b>>)
<1> DEFINE two == {i \in DOMAIN <<a, b>> : NonEmpty(<<a, b>>[i])}
           three == {i \in DOMAIN <<a, b, c>> : NonEmpty(<<a, b, c>>[i])}
<1>1. /\ 1 \in two <=> NonEmpty(a)
      /\ 2 \in two <=> NonEmpty(b)
      /\ two \subseteq 1 .. 2
  OBVIOUS
<1>2. /\ 1 \in three <=> NonEmpty(a)
      /\ 2 \in three <=> NonEmpty(b)
      /\ three \subseteq 1 .. 3
  OBVIOUS
<1>3. FirstNonEmpty(<<a, b>>) = IF two = {} THEN <<>> ELSE <<a, b>>[Min(two)]
  BY DEF FirstNonEmpty
<1>4. FirstNonEmpty(<<a, b, c>>) = IF three = {} THEN <<>> ELSE <<a, b, c>>[Min(three)]
  BY DEF FirstNonEmpty
<1> DEFINE first == FirstNonEmpty(<<a, b>>)
           m == Min(two)
           n == Min(three)
<1> HIDE DEF two, three, first
<1>5. /\ two # {} => first = <<a, b>>[m]
      /\ three # {} => FirstNonEmpty(<<a, b, c>>) = <<a, b, c>>[n]
      /\ two # {}
  <2>1. first # <<>>
    BY DEF first, NonEmpty
  <2> QED BY <1>3, <1>4, <2>1 DEF first
<1>6. 1 \in two \/ 2 \in two
  <2>1. PICK i \in two : i \in 1 .. 2
    BY <1>1, <1>5
  <2>2. i = 1 \/ i = 2
    BY <2>1
  <2> QED BY <2>1, <2>2
<1>7. /\ two \in SUBSET Int /\ IsFiniteSet(two)
      /\ three \in SUBSET Int /\ IsFiniteSet(three) /\ three # {}
  <2>1. IsFiniteSet(1 .. 3)
    <3>1. PICK k \in Nat : k = 3
      OBVIOUS
    <3>2. IsFiniteSet(1 .. k)
      BY FS_Interval
    <3> QED BY <3>1, <3>2
  <2>2. 1 .. 2 \subseteq 1 .. 3 /\ 1 .. 3 \subseteq Int
    OBVIOUS
  <2>3. IsFiniteSet(two) /\ IsFiniteSet(three)
    BY <1>1, <1>2, <2>1, <2>2, FS_Subset
  <2> QED BY <1>1, <1>2, <1>6, <2>2, <2>3
<1>8. /\ m \in two /\ \A i \in two : m <= i
      /\ n \in three /\ \A i \in three : n <= i
  BY <1>5, <1>7, LeastIsFound
<1>9. m \in 1 .. 2 /\ n \in 1 .. 3
  BY <1>1, <1>2, <1>8
<1> HIDE DEF m, n
<1>10. CASE 1 \in two
  <2>1. m = 1 /\ n = 1
    BY <1>1, <1>2, <1>8, <1>9, <1>10
  <2>2. <<a, b>>[1] = a /\ <<a, b, c>>[1] = a
    OBVIOUS
  <2> QED BY <1>5, <1>7, <2>1, <2>2 DEF first
<1>11. CASE 1 \notin two
  <2>1. 1 \notin three /\ 2 \in two /\ 2 \in three
    BY <1>1, <1>2, <1>6, <1>11
  <2>2. m # 1 /\ n # 1 /\ m <= 2 /\ n <= 2
    BY <1>8, <1>11, <2>1
  <2>3. m = 2 /\ n = 2
    BY <1>9, <2>2
  <2>4. <<a, b>>[2] = b /\ <<a, b, c>>[2] = b
    OBVIOUS
  <2> QED BY <1>5, <1>7, <2>3, <2>4 DEF first
<1> QED BY <1>10, <1>11

\* The beginning of a text is a text.
LEMMA PrefixIsText ==
    ASSUME NEW S, NEW text \in Seq(S), NEW n \in 0 .. Len(text)
    PROVE  SubSeq(text, 1, n) \in Seq(S)
  OBVIOUS

\* What is before the last dot of a text, is a text.
LEMMA BeforeLastDotIsText ==
    ASSUME NEW text \in Strings
    PROVE  BeforeLastDot(text) \in Strings
<1> DEFINE dots == {n \in DOMAIN text : n + 1 \in DOMAIN text /\ {text[n], text[n + 1]} \cap Joints = {}}
<1>1. text \in Seq(Segments) /\ DOMAIN text = 1 .. Len(text) /\ Len(text) \in Nat
  BY DEF Strings
<1>2. CASE dots = {}
  BY <1>2 DEF BeforeLastDot
<1>3. CASE dots # {}
  <2>1. dots \subseteq 1 .. Len(text) /\ BeforeLastDot(text) = SubSeq(text, 1, Max(dots))
    BY <1>1, <1>3 DEF BeforeLastDot
  <2> HIDE DEF dots
  <2>2. IsFiniteSet(1 .. Len(text)) /\ 1 .. Len(text) \subseteq Int
    BY <1>1, FS_Interval
  <2>3. dots \in SUBSET Int /\ IsFiniteSet(dots)
    BY <2>1, <2>2, FS_Subset
  <2>4. Max(dots) \in dots
    BY <1>3, <2>3, GreatestIsFound
  <2>5. PICK n \in 0 .. Len(text) : n = Max(dots)
    <3>1. Max(dots) \in 1 .. Len(text)
      BY <2>1, <2>4
    <3> QED BY <1>1, <3>1
  <2>6. SubSeq(text, 1, n) \in Seq(Segments)
    BY <1>1, PrefixIsText
  <2> QED BY <2>1, <2>5, <2>6 DEF Strings
<1> QED BY <1>2, <1>3

\* The texts of a row, and the key of one that is identified.
HasKeyOf(row, parts) ==
    /\ row.package \in Strings /\ row.class \in Strings /\ row.test \in Strings /\ row.file \in Strings
    /\ Identified(row) => row.key = DeriveTestKey(parts)

JUnitParts(row) == <<row.package, row.class, row.class, row.test, row.file>>
OtherParts(row) == <<row.package, row.class, row.test>>

\* The name a JUnit suite path may stand for is that of the class, if there is one.
LEMMA JUnitRowHasKey ==
    ASSUME NEW doc, IsTree(doc), doc.format = "junit", NEW c \in DOMAIN doc.cases
    PROVE  HasKeyOf(JUnitRow(doc, doc.cases[c]), JUnitParts(JUnitRow(doc, doc.cases[c])))
<1> DEFINE case == doc.cases[c]
           suite == doc.suites[case.suite]
           row == JUnitRow(doc, case)
           path == Join(FilterNonEmpty(SuitePath(doc, case.suite)), " / ")
<1>1. case \in JUnitElements /\ suite \in SuiteElements
  <2>1. doc.cases \in Seq(JUnitElements) /\ doc.suites \in Seq(SuiteElements)
        /\ case.suite \in DOMAIN doc.suites
    BY DEF IsTree
  <2> QED BY <2>1
<1>2. /\ case.class \in Strings /\ case.name \in Strings /\ case.file \in Strings
      /\ suite.name \in Strings /\ suite.package \in Strings
  BY <1>1 DEF JUnitElements, SuiteElements
<1>3. /\ row.package = FirstNonEmpty(<<suite.package, suite.name>>)
      /\ row.class = FirstNonEmpty(<<case.class, suite.name>>)
      /\ row.test = case.name /\ row.file = case.file
      /\ row.key = DeriveTestKey(<<row.package, row.class,
                                   FirstNonEmpty(<<case.class, suite.name, path>>),
                                   row.test, row.file>>)
  BY DEF JUnitRow
<1> HIDE DEF case, suite, row, path
<1>4. <<suite.package, suite.name>> \in Seq(Strings) /\ <<case.class, suite.name>> \in Seq(Strings)
  BY <1>2
<1>5. row.package \in Strings /\ row.class \in Strings
  BY <1>3, <1>4, FirstIsText
<1>6. Identified(row) => FirstNonEmpty(<<case.class, suite.name, path>>) = row.class
  <2> SUFFICES ASSUME Identified(row)
               PROVE  FirstNonEmpty(<<case.class, suite.name, path>>) = row.class
    OBVIOUS
  <2>1. NonEmpty(FirstNonEmpty(<<case.class, suite.name>>))
    BY <1>3 DEF Identified
  <2>2. FirstNonEmpty(<<case.class, suite.name, path>>) = FirstNonEmpty(<<case.class, suite.name>>)
    BY <2>1, FirstOfThree
  <2> QED BY <1>3, <2>2
<1>7. HasKeyOf(row, JUnitParts(row))
  BY <1>2, <1>3, <1>5, <1>6 DEF HasKeyOf, JUnitParts
<1> QED BY <1>7 DEF row, case

\* NUnit and TRX name no file.
LEMMA NUnitRowHasKey ==
    ASSUME NEW doc, IsTree(doc), doc.format # "junit", NEW c \in DOMAIN doc.cases
    PROVE  HasKeyOf(NUnitRow(doc, doc.cases[c]), OtherParts(NUnitRow(doc, doc.cases[c])))
           /\ NUnitRow(doc, doc.cases[c]).file = <<>>
<1> DEFINE case == doc.cases[c]
           row == NUnitRow(doc, case)
           full == FirstNonEmpty(<<case.fullName, case.name>>)
<1>1. case \in NUnitElements
  <2>1. doc.cases \in Seq(NUnitElements)
    BY DEF IsTree
  <2> QED BY <2>1
<1>2. case.name \in Strings /\ case.fullName \in Strings
  BY <1>1 DEF NUnitElements
<1>3. /\ row.package = BeforeLastDot(BeforeLastDot(full)) /\ row.class = BeforeLastDot(full)
      /\ row.test = case.name /\ row.file = <<>>
      /\ row.key = DeriveTestKey(<<row.package, row.class, row.test>>)
  BY DEF NUnitRow, NUnitSplitFullName
<1> HIDE DEF row, case
<1>4. full \in Strings
  <2>1. <<case.fullName, case.name>> \in Seq(Strings)
    BY <1>2
  <2> QED BY <2>1, FirstIsText
<1> HIDE DEF full
<1>5. row.package \in Strings /\ row.class \in Strings
  BY <1>3, <1>4, BeforeLastDotIsText
<1>6. <<>> \in Strings
  BY DEF Strings
<1>7. HasKeyOf(row, OtherParts(row)) /\ row.file = <<>>
  BY <1>2, <1>3, <1>5, <1>6 DEF HasKeyOf, OtherParts
<1> QED BY <1>7 DEF row, case

\* The class of a TRX result is that of the last definition with its id.
LEMMA TRXRowHasKey ==
    ASSUME NEW doc, IsTestRun(doc), NEW n \in DOMAIN doc.results
    PROVE  HasKeyOf(TRXRow(doc, doc.results[n]), OtherParts(TRXRow(doc, doc.results[n])))
           /\ TRXRow(doc, doc.results[n]).file = <<>>
<1> DEFINE result == doc.results[n]
           row == TRXRow(doc, result)
           class == ClassNames(doc, result.id)
           same == {d \in DOMAIN doc.definitions : doc.definitions[d].id = result.id}
<1>1. result.name \in Strings
  <2>1. doc.results \in Seq([id : Nat, name : Strings, outcome : STRING])
    BY DEF IsTestRun
  <2> DEFINE Elements == [id : Nat, name : Strings, outcome : STRING]
  <2>2. doc.results \in Seq(Elements)
    BY <2>1
  <2> HIDE DEF Elements
  <2>3. result \in Elements
    BY <2>2
  <2> QED BY <2>3 DEF Elements
<1>2. /\ row.package = BeforeLastDot(class) /\ row.class = class
      /\ row.test = result.name /\ row.file = <<>>
      /\ row.key = DeriveTestKey(<<row.package, row.class, row.test>>)
  BY DEF TRXRow, TRXPackageName
<1>3. class = IF same = {} THEN <<>> ELSE doc.definitions[Max(same)].class
  BY DEF ClassNames
<1>4. /\ DOMAIN doc.definitions = 1 .. Len(doc.definitions) /\ Len(doc.definitions) \in Nat
      /\ \A d \in DOMAIN doc.definitions : doc.definitions[d].class \in Strings
  <2>1. doc.definitions \in Seq([id : Nat, class : Strings])
    BY DEF IsTestRun
  <2> DEFINE Elements == [id : Nat, class : Strings]
  <2>2. doc.definitions \in Seq(Elements)
    BY <2>1
  <2> HIDE DEF Elements
  <2>3. /\ DOMAIN doc.definitions = 1 .. Len(doc.definitions) /\ Len(doc.definitions) \in Nat
        /\ \A d \in DOMAIN doc.definitions : doc.definitions[d] \in Elements
    BY <2>2
  <2> QED BY <2>3 DEF Elements
<1>5. same \subseteq 1 .. Len(doc.definitions)
  BY <1>4
<1> HIDE DEF row, result, class, same
<1>6. <<>> \in Strings
  BY DEF Strings
<1>7. class \in Strings
  <2>1. CASE same = {}
    BY <1>3, <1>6, <2>1
  <2>2. CASE same # {}
    <3>1. IsFiniteSet(1 .. Len(doc.definitions)) /\ 1 .. Len(doc.definitions) \subseteq Int
      BY <1>4, FS_Interval
    <3>2. same \in SUBSET Int /\ IsFiniteSet(same)
      BY <1>5, <3>1, FS_Subset
    <3>3. Max(same) \in DOMAIN doc.definitions
      BY <1>4, <1>5, <2>2, <3>2, GreatestIsFound
    <3> QED BY <1>3, <1>4, <2>2, <3>3
  <2> QED BY <2>1, <2>2
<1>8. row.package \in Strings
  BY <1>2, <1>7, BeforeLastDotIsText
<1>9. HasKeyOf(row, OtherParts(row)) /\ row.file = <<>>
  BY <1>1, <1>2, <1>6, <1>7, <1>8 DEF HasKeyOf, OtherParts
<1> QED BY <1>9 DEF row, result

\* What the rows of one test have in common.
SameButForCase(r, q) ==
    /\ ToLower(r.package) = ToLower(q.package)
    /\ ToLower(r.class) = ToLower(q.class)
    /\ ToLower(r.test) = ToLower(q.test)
    /\ ToLower(r.file) = ToLower(q.file)

\* Identified, in terms of the texts.
LEMMA IdentifiedIsFree ==
    ASSUME NEW r, r.package \in Strings, r.class \in Strings, r.test \in Strings, r.file \in Strings,
           Identified(r)
    PROVE  /\ r.package # <<>> /\ r.class # <<>> /\ r.test # <<>>
           /\ Free(r.package, "::") /\ Free(r.class, "::") /\ Free(r.test, "::") /\ Free(r.file, "::")
<1>1. /\ r.package # <<>> /\ r.class # <<>> /\ r.test # <<>>
      /\ \A text \in {r.package, r.class, r.test, r.file} : "::" \notin ToSet(text)
  BY DEF Identified, NonEmpty
<1>2. \A text : "::" \notin ToSet(text) => Free(text, "::")
  BY DEF ToSet, Free
<1> QED BY <1>1, <1>2

\* The parts that the key of an identified row is joined of: package, class and
\* test, and for JUnit the class again and the file, if it is known.
HasParts3(row, kept) ==
    /\ Len(kept) = 3 /\ kept[1] = row.package /\ kept[2] = row.class /\ kept[3] = row.test
    /\ row.file = <<>>

HasParts5(row, kept) ==
    /\ Len(kept) = (IF NonEmpty(row.file) THEN 5 ELSE 4)
    /\ kept[1] = row.package /\ kept[2] = row.class /\ kept[4] = row.test
    /\ NonEmpty(row.file) => kept[5] = row.file

IsJoinedOf(row, kept) ==
    /\ kept \in Seq(Strings) /\ kept # <<>>
    /\ \A i \in DOMAIN kept : Free(kept[i], "::")
    /\ row.key = ToLower(Join(kept, "::"))
    /\ HasParts3(row, kept) \/ HasParts5(row, kept)

LEMMA JUnitKeyIsJoined ==
    ASSUME NEW row, HasKeyOf(row, JUnitParts(row)), Identified(row)
    PROVE  \E kept : IsJoinedOf(row, kept)
<1> DEFINE kept == IF NonEmpty(row.file) THEN JUnitParts(row)
                   ELSE <<row.package, row.class, row.class, row.test>>
<1>1. /\ row.package \in Strings /\ row.class \in Strings /\ row.test \in Strings /\ row.file \in Strings
      /\ row.key = DeriveTestKey(JUnitParts(row))
  BY DEF HasKeyOf
<1>2. /\ row.package # <<>> /\ row.class # <<>> /\ row.test # <<>>
      /\ Free(row.package, "::") /\ Free(row.class, "::") /\ Free(row.test, "::") /\ Free(row.file, "::")
  BY <1>1, IdentifiedIsFree
<1>3. FilterNonEmpty(JUnitParts(row)) = kept
  BY <1>1, <1>2, FourOrFiveAreKept DEF NonEmpty, JUnitParts
<1>4. row.key = ToLower(Join(kept, "::"))
  BY <1>1, <1>3 DEF DeriveTestKey
<1>5. /\ kept \in Seq(Strings) /\ kept # <<>> /\ \A i \in DOMAIN kept : Free(kept[i], "::")
      /\ HasParts5(row, kept)
  <2>1. CASE NonEmpty(row.file)
    BY <1>1, <1>2, <2>1 DEF JUnitParts, HasParts5
  <2>2. CASE ~ NonEmpty(row.file)
    BY <1>1, <1>2, <2>2 DEF HasParts5
  <2> QED BY <2>1, <2>2
<1> HIDE DEF kept
<1> QED BY <1>4, <1>5 DEF IsJoinedOf

LEMMA OtherKeyIsJoined ==
    ASSUME NEW row, HasKeyOf(row, OtherParts(row)), row.file = <<>>, Identified(row)
    PROVE  \E kept : IsJoinedOf(row, kept)
<1> DEFINE kept == OtherParts(row)
<1>1. /\ row.package \in Strings /\ row.class \in Strings /\ row.test \in Strings /\ row.file \in Strings
      /\ row.key = DeriveTestKey(kept)
  BY DEF HasKeyOf
<1>2. /\ row.package # <<>> /\ row.class # <<>> /\ row.test # <<>>
      /\ Free(row.package, "::") /\ Free(row.class, "::") /\ Free(row.test, "::")
  BY <1>1, IdentifiedIsFree
<1>3. FilterNonEmpty(kept) = kept
  BY <1>1, <1>2, ThreeAreKept DEF NonEmpty, OtherParts
<1>4. row.key = ToLower(Join(kept, "::"))
  BY <1>1, <1>3 DEF DeriveTestKey
<1>5. /\ kept \in Seq(Strings) /\ kept # <<>> /\ \A i \in DOMAIN kept : Free(kept[i], "::")
      /\ HasParts3(row, kept)
  BY <1>1, <1>2 DEF OtherParts, HasParts3
<1> HIDE DEF kept
<1> QED BY <1>4, <1>5 DEF IsJoinedOf

\* Whichever parser made it, the key of an identified row is joined of such parts.
LEMMA KeysAreJoined ==
    ASSUME NEW doc, IF doc.format = "trx" THEN IsTestRun(doc) ELSE IsTree(doc),
           NEW row \in ToSet(XmlRows(doc)), Identified(row)
    PROVE  \E kept : IsJoinedOf(row, kept)
<1>1. CASE doc.format = "trx"
  <2>1. PICK n \in DOMAIN doc.results : row = TRXRow(doc, doc.results[n])
    BY <1>1 DEF XmlRows, ToSet
  <2>2. HasKeyOf(row, OtherParts(row)) /\ row.file = <<>>
    BY <1>1, <2>1, TRXRowHasKey
  <2> QED BY <2>2, OtherKeyIsJoined
<1>2. CASE doc.format # "trx"
  <2>1. PICK c \in DOMAIN doc.cases : row = CaseRow(doc, doc.cases[c])
    <3>1. Visited(doc) \in Seq(DOMAIN doc.cases)
      BY <1>2, EveryCaseIsVisited DEF Lists
    <3>2. XmlRows(doc) = [n \in DOMAIN Visited(doc) |-> CaseRow(doc, doc.cases[Visited(doc)[n]])]
      BY <1>2 DEF XmlRows
    <3>3. PICK n \in DOMAIN Visited(doc) : row = CaseRow(doc, doc.cases[Visited(doc)[n]])
      BY <3>2 DEF ToSet
    <3>4. Visited(doc)[n] \in DOMAIN doc.cases
      BY <3>1
    <3> QED BY <3>3, <3>4
  <2>2. CASE doc.format = "junit"
    <3>1. HasKeyOf(row, JUnitParts(row))
      BY <1>2, <2>1, <2>2, JUnitRowHasKey DEF CaseRow
    <3> QED BY <3>1, JUnitKeyIsJoined
  <2>3. CASE doc.format # "junit"
    <3>1. HasKeyOf(row, OtherParts(row)) /\ row.file = <<>>
      BY <1>2, <2>1, <2>3, NUnitRowHasKey DEF CaseRow
    <3> QED BY <3>1, OtherKeyIsJoined
  <2> QED BY <2>2, <2>3
<1> QED BY <1>1, <1>2

\* The parts are told from the key, and package, class, test and file from them.
LEMMA JoinedKeysTell ==
    ASSUME NEW r, NEW a, IsJoinedOf(r, a), NEW q, NEW b, IsJoinedOf(q, b), r.key = q.key
    PROVE  SameButForCase(r, q)
<1>1. /\ a \in Seq(Strings) /\ a # <<>> /\ \A i \in DOMAIN a : Free(a[i], "::")
      /\ b \in Seq(Strings) /\ b # <<>> /\ \A i \in DOMAIN b : Free(b[i], "::")
      /\ ToLower(Join(a, "::")) = ToLower(Join(b, "::"))
  BY DEF IsJoinedOf
<1>2. Len(a) = Len(b) /\ \A i \in 1 .. Len(a) : ToLower(a[i]) = ToLower(b[i])
  BY <1>1, KeysTellTexts
<1>3. CASE HasParts3(r, a)
  <2>1. HasParts3(q, b)
    BY <1>2, <1>3 DEF IsJoinedOf, HasParts3, HasParts5
  <2>2. 1 \in 1 .. Len(a) /\ 2 \in 1 .. Len(a) /\ 3 \in 1 .. Len(a)
    BY <1>3 DEF HasParts3
  <2> QED BY <1>2, <1>3, <2>1, <2>2 DEF HasParts3, SameButForCase
<1>4. CASE HasParts5(r, a)
  <2>1. HasParts5(q, b)
    BY <1>2, <1>4 DEF IsJoinedOf, HasParts3, HasParts5
  <2>2. /\ 1 \in 1 .. Len(a) /\ 2 \in 1 .. Len(a) /\ 4 \in 1 .. Len(a)
        /\ NonEmpty(r.file) => 5 \in 1 .. Len(a)
        /\ NonEmpty(r.file) <=> NonEmpty(q.file)
    <3>1. /\ r.file # <<>> => Len(a) = 5
          /\ r.file = <<>> => Len(a) = 4
      BY <1>4 DEF HasParts5, NonEmpty
    <3>2. /\ q.file # <<>> => Len(b) = 5
          /\ q.file = <<>> => Len(b) = 4
      BY <2>1 DEF HasParts5, NonEmpty
    <3> QED BY <1>2, <3>1, <3>2 DEF NonEmpty
  <2>3. ToLower(r.file) = ToLower(q.file)
    <3>1. CASE NonEmpty(r.file)
      BY <1>2, <1>4, <2>1, <2>2, <3>1 DEF HasParts5
    <3>2. CASE ~ NonEmpty(r.file)
      BY <2>2, <3>2 DEF NonEmpty
    <3> QED BY <3>1, <3>2
  <2> QED BY <1>2, <1>4, <2>1, <2>2, <2>3 DEF HasParts5, SameButForCase
<1> QED BY <1>3, <1>4 DEF IsJoinedOf

\* The file is not changed.
FileMayBeUploaded == file \in Documents \cup GoFiles

LEMMA FileInvariance == Spec => []FileMayBeUploaded
<1>1. Init => FileMayBeUploaded
  BY DEF Init, FileMayBeUploaded
<1>2. FileMayBeUploaded /\ [Next]_vars => FileMayBeUploaded'
  BY DEF FileMayBeUploaded, Next, vars, ParseGo, ParseXml
<1> QED BY <1>1, <1>2, PTL DEF Spec

-----------------------------------------------------------------------------
(* The theorems.                                                           *)

\* Whatever is uploaded, the go test parser's maps keep their types; and if it
\* is the output of a job, each test and each broken package has the one result
\* and the output that its lines tell, however they interleave and are torn.
THEOREM JobsAreReported ==
    Spec => []/\ GoTypeOK
              /\ RowsTellLastVerdict
              /\ OutputsStayApart
              /\ BrokenPackageIsReported
<1>1. ReportsInv => GoTypeOK
  BY DEF ReportsInv, GoInv
<1>2. ReportsInv => RowsTellLastVerdict /\ OutputsStayApart /\ BrokenPackageIsReported
  BY LastVerdictsAreTold, OutputsAreApart, BrokenPackagesHaveRows DEF ReportsInv
<1> QED
  BY <1>1, <1>2, ReportsInvariance, PTL

\* No name and content of a file suit two parsers: the order in which app.Run
\* registers them is of no consequence.
THEOREM FilesHaveOneParser == Spec => []OneParserPerFile
<1>1. OneParserPerFile
  <2> SUFFICES ASSUME NEW p \in Parsers, NEW q \in Parsers, Detect(p, file), Detect(q, file)
               PROVE  p = q
    BY DEF OneParserPerFile
  <2>1. CASE p = "gotestjson"
    BY <2>1, ReportsAssumption DEF Detect, Parsers, GoExtensions
  <2>2. CASE q = "gotestjson"
    BY <2>2, ReportsAssumption DEF Detect, Parsers, GoExtensions
  <2>3. CASE p # "gotestjson" /\ q # "gotestjson"
    BY <2>3 DEF Detect, Parsers
  <2> QED
    BY <2>1, <2>2, <2>3
<1> QED
  BY <1>1, PTL

\* However deep suites are nested, and on whichever side of <results> they are, a
\* JUnit or NUnit document has a row for each of its cases, and as many rows with
\* a suite, a name and a status as it has cases with them.
THEOREM XmlCasesAreReported == Spec => []EveryXmlCaseIsReported
<1>1. FileMayBeUploaded => EveryXmlCaseIsReported
  <2> SUFFICES ASSUME FileMayBeUploaded, XmlParsed, file.format # "trx"
               PROVE  LET rows == XmlRows(file) IN
                      /\ Len(rows) = Len(file.cases)
                      /\ \A r \in ToSet(rows) :
                            Cardinality({q \in DOMAIN rows :
                                           /\ rows[q].suite = r.suite
                                           /\ rows[q].test = r.test
                                           /\ rows[q].status = r.status}) =
                            Cardinality({c \in DOMAIN file.cases :
                                           /\ SuiteOf(file, file.cases[c]) = r.suite
                                           /\ file.cases[c].name = r.test
                                           /\ Says(file, file.cases[c], r.status)})
    BY DEF EveryXmlCaseIsReported
  <2>1. IsTree(file)
    BY ReportsAssumption DEF FileMayBeUploaded, XmlParsed
  <2> QED BY <2>1, DocumentIsReported
<1> QED BY <1>1, FileInvariance, PTL

\* Of all documents that may be uploaded, whichever parsers take them, two rows
\* that are identified have the same key only if package, class, test and file are
\* the same but for their case: what deriveTestKey drops does not tell tests apart,
\* and a test of one run is not taken for another one of an earlier run.
THEOREM TestsOfAllDocumentsAreToldApart ==
    ASSUME NEW d \in Documents, NEW e \in Documents,
           NEW r \in ToSet(XmlRows(d)), NEW q \in ToSet(XmlRows(e)),
           Identified(r), Identified(q), r.key = q.key
    PROVE  SameButForCase(r, q)
<1>1. /\ IF d.format = "trx" THEN IsTestRun(d) ELSE IsTree(d)
      /\ IF e.format = "trx" THEN IsTestRun(e) ELSE IsTree(e)
  BY ReportsAssumption
<1>2. PICK a : IsJoinedOf(r, a)
  BY <1>1, KeysAreJoined
<1>3. PICK b : IsJoinedOf(q, b)
  BY <1>1, KeysAreJoined
<1> QED BY <1>2, <1>3, JoinedKeysTell

\* Hence the rows of the file that was parsed have keys of their own.
THEOREM XmlKeysTellTestsApart == Spec => []KeysTellTestsApart
<1>1. FileMayBeUploaded => KeysTellTestsApart
  <2> SUFFICES ASSUME FileMayBeUploaded, XmlParsed,
                      NEW r \in ToSet(XmlRows(file)), NEW q \in ToSet(XmlRows(file)),
                      Identified(r), Identified(q), r.key = q.key
               PROVE  SameButForCase(r, q)
    BY DEF KeysTellTestsApart, SameButForCase
  <2>1. file \in Documents
    BY ReportsAssumption DEF FileMayBeUploaded, XmlParsed
  <2> QED BY <2>1, TestsOfAllDocumentsAreToldApart
<1> QED BY <1>1, FileInvariance, PTL
=============================================================================
